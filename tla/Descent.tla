------------------------------ MODULE Descent ------------------------------
(***************************************************************************)
(* What the arguments that something ends rest on.  Tuples of finite sets, *)
(* compared at the first place where they differ, cannot shrink for ever:  *)
(* a process whose every step makes such a tuple smaller stops, whatever   *)
(* the order of its steps.                                                 *)
(***************************************************************************)
EXTENDS Naturals

Less(a, b) ==
    \E i \in DOMAIN a :
        /\ a[i] \subseteq b[i] /\ a[i] # b[i]
        /\ \A j \in DOMAIN a : j < i => a[j] = b[j]
=============================================================================
