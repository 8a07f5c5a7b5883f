----------------------------- MODULE BuildTask -----------------------------
(***************************************************************************)
(* A candidate's task as the driver sees it: it waits for a slot, runs, is *)
(* done with one of the outcomes, and may be promoted once if its quick    *)
(* evaluation succeeded.  There is no directory in this specification, no  *)
(* branching, no stage, no worker and no retry.                            *)
(***************************************************************************)
EXTENDS Sequences, Naturals, TaskOutcome

VARIABLES quick, promoted, state, results

taskVars == <<quick, promoted, state, results>>

Init ==
    /\ quick \in BOOLEAN
    /\ promoted = FALSE
    /\ state = "waiting"
    /\ results = <<>>

Place ==
    /\ state = "waiting"
    /\ state' = "running"
    /\ UNCHANGED <<quick, promoted, results>>

Finish ==
    /\ state = "running"
    /\ state' = "done"
    /\ results' \in Outcomes(quick, promoted)
    /\ UNCHANGED <<quick, promoted>>

Promote ==
    /\ state = "done"
    /\ quick /\ ~promoted
    /\ results # <<>> /\ results[Len(results)].success
    /\ state' = "waiting"
    /\ promoted' = TRUE
    /\ results' = <<>>
    /\ UNCHANGED quick

Next == Place \/ Finish \/ Promote

Spec == Init /\ [][Next]_taskVars
=============================================================================
