--------------------------- MODULE MCCandidateTree ---------------------------
(***************************************************************************)
(* Floorplan (1), placement (2, where branching ends), CTS (3, the gate)   *)
(* and finish (4).  `density` is documented for placement and also read by *)
(* CTS, `cluster` for CTS, `extra` is undocumented.                        *)
(***************************************************************************)
EXTENDS CandidateTree

CONSTANTS density, cluster, extra, v1, v2

MCKnobStage == [k \in {density, cluster} |-> IF k = density THEN 2 ELSE 3]

MCReads ==
    [t \in 1..(N + 2) |-> {extra} \cup (IF t \in {2, 3} THEN {density} ELSE {})
                                  \cup (IF t = 3 THEN {cluster} ELSE {})]

MCVerdict(x) == "clean"

Set(d, c, e) ==
    [k \in Knobs |-> CASE k = density -> d [] k = cluster -> c [] OTHER -> e]

\* The defaults, one knob of each kind, and refinements of those.
MCRequests == {Set(Unset, Unset, Unset), Set(v1, Unset, Unset),
               Set(v1, v1, Unset), Set(v2, v1, Unset), Set(Unset, v1, v1)}

\* No directory; the shared placement; a parent built to the gate or to the
\* end with its own knobs.
MCSeeds == {[knobs |-> NoKnobs, upTo |-> 0], [knobs |-> NoKnobs, upTo |-> 2],
            [knobs |-> Set(v1, Unset, Unset), upTo |-> 3],
            [knobs |-> Set(Unset, v1, Unset), upTo |-> 4]}
=============================================================================
