----------------------------- MODULE FreshBuild -----------------------------
(***************************************************************************)
(* What a caller of run_stage is promised: every call answers as if its    *)
(* target had been built from an empty directory with exactly the knobs of *)
(* the call.  There is no work directory in this specification, no knob    *)
(* manifest and no invalidation; nothing of one call reaches the next.     *)
(***************************************************************************)
EXTENDS OrfsFlow

CONSTANT Requests   \* the knob mappings callers pass

VARIABLES pc, target, knobs, result

vars == <<pc, target, knobs, result>>

Init ==
    /\ pc = "idle"
    /\ target = 1
    /\ knobs = NoKnobs
    /\ result = [rc |-> "none", success |-> FALSE, target |-> 1,
                 knobs |-> NoKnobs, checkpoint |-> {}, report |-> {}]

Request ==
    /\ pc = "idle"
    /\ pc' = "running"
    /\ target' \in Targets
    /\ knobs' \in Requests
    /\ UNCHANGED result

\* A finished build returns the layout of its own knobs; a failed one may
\* still show the checkpoint it reached, but never another configuration's.
Answer ==
    /\ pc = "running"
    /\ pc' = "idle"
    /\ \E rc \in {"ok", "error", "killed"},
          checkpoint \in SUBSET {Fresh(knobs, target)},
          report \in SUBSET {Fresh(knobs, N)} :
         /\ rc = "ok" => checkpoint # {}
         /\ result' = [rc |-> rc,
                       success |-> rc = "ok" /\ (target \in Signoffs =>
                                      Verdict(Fresh(knobs, target)) = "clean"),
                       target |-> target, knobs |-> knobs,
                       checkpoint |-> checkpoint, report |-> report]
    /\ UNCHANGED <<target, knobs>>

Next == Request \/ Answer

Spec == Init /\ [][Next]_vars
=============================================================================
