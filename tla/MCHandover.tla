----------------------------- MODULE MCHandover -----------------------------
(***************************************************************************)
(* Three stages: "place" is the first, "route" the second, "finish" the    *)
(* third.  `density` is read, and documented, from routing on; `extra` is  *)
(* not documented and read from the first stage on: v1 moves the slacks a  *)
(* little; with v2 the steps report none and they move a lot.              *)
(***************************************************************************)
EXTENDS Handover

CONSTANTS density, extra, v1, v2

MCKnobStage == [k \in {density} |-> 2]

MCReads ==
    [t \in 1..(N + 2) |-> {extra} \cup (IF t = 2 THEN {density} ELSE {})]

\* LVS reports a mismatch when `density` is set.
MCVerdict(x) ==
    IF Lvs \in DOMAIN x /\ x[2][density] # Unset THEN "dirty" ELSE "clean"

MCRequests ==
    {[k \in {density, extra} |-> IF k = density THEN d ELSE x] :
        d \in {Unset, v1}, x \in {Unset, v1, v2}}
        \ {[k \in {density, extra} |-> IF k = density THEN v1 ELSE x] : x \in {v1, v2}}

\* Slacks get worse from part to part and stage to stage, in ps.
MCSlack(j, x) ==
    IF x[1][extra] = v2 THEN None
    ELSE (IF x[1][extra] = v1 THEN -110 ELSE -100) * j[1] - 40 * (2 - j[2])

\* What the parts of the first stage report last, or with v2 would, and what a
\* session without the SDC reads.
MCExtracted(x) ==
    {-2000, IF x[1][extra] = v2 THEN -300 ELSE MCSlack(<<1, 2>>, x)}

\* A figure every stage reports, and one only the final report has.
MCReportedBy == [f \in {"worst_slack", "utilization"} |->
                    IF f = "worst_slack" THEN 1..3 ELSE {3}]

\* The two stages of a gated flow, and the LVS signoff.
MCAsked == {2, 3, 4}
=============================================================================
