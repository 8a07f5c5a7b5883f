-------------------------- MODULE MCSurrogateLoop --------------------------
(***************************************************************************)
(* Two knobs with one legal value each besides the default: a refinement   *)
(* of one delta by the other is a third configuration, and both orders of  *)
(* refining meet in it.                                                    *)
(***************************************************************************)
EXTENDS SurrogateLoop

CONSTANTS util, density, v1, text1

MCStr == [v \in Values |-> text1]

MCCoerce == [k \in Knobs |-> MCStr]

MCAllowed == [k \in Knobs |-> {v1}]

MCDeltas == {[k \in Knobs |-> IF k = j THEN v1 ELSE Unset] : j \in Knobs}
=============================================================================
