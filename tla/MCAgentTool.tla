---------------------------- MODULE MCAgentTool ----------------------------
(***************************************************************************)
(* One knob ORFS declares int, which the policy lets an agent set to 20,   *)
(* however it spells it (_coerce writes 20.0 as 20), and not to 99; and    *)
(* one it declares no type for.  An agent may write either.                *)
(***************************************************************************)
EXTENDS AgentTool

CONSTANTS size, density,                       \* knobs
          int20, float20, int99, half,         \* values
          text20, text20p0, text99, textHalf   \* texts

MCAllowed == [k \in Knobs |-> IF k = size THEN {int20, float20} ELSE {half}]

MCStr == [v \in Values |->
    CASE v = int20 -> text20
      [] v = float20 -> text20p0
      [] v = int99 -> text99
      [] OTHER -> textHalf]

MCCoerce == [k \in Knobs |-> [v \in Values |->
    IF k = size /\ v = float20 THEN text20 ELSE MCStr[v]]]

Set(knob, v) == [k \in Knobs |-> IF k = knob THEN v ELSE Unset]

MCDeltas == {Set(size, int20), Set(size, float20), Set(size, int99), Set(density, half)}
=============================================================================
