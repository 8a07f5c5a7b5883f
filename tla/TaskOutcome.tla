---------------------------- MODULE TaskOutcome ----------------------------
(***************************************************************************)
(* What a candidate's task may return: all that the agent tool and the     *)
(* driver know of the work directory the task works in.                    *)
(***************************************************************************)

\* What run_flow returns, as the stages run and whether each succeeded; the
\* empty sequence is a task that raised instead.
Outcomes(quick, promoted) ==
    LET one(s) == {<<[stage |-> s, success |-> b]>> : b \in BOOLEAN}
    IN  {<<>>} \cup
        IF promoted THEN one("finish")
        ELSE IF quick THEN one("gate")
        ELSE {<<[stage |-> "gate", success |-> FALSE]>>} \cup
             {<<[stage |-> "gate", success |-> TRUE],
                [stage |-> "finish", success |-> b]>> : b \in BOOLEAN}
=============================================================================
