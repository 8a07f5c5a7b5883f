---------------------------- MODULE MCFailureLog ----------------------------
(***************************************************************************)
(* One knob ORFS declares int, spelled "20" and 20.0 (str keeps the .0,    *)
(* _coerce does not), and one it declares no type for, set to True and to  *)
(* the word "True" (_coerce makes the first a 1).                          *)
(***************************************************************************)
EXTENDS FailureLog

CONSTANTS int20, float20, boolTrue, strTrue,    \* spellings
          text20, text20p0, textOne, textTrue,  \* texts
          congested, overfull                   \* failures

MCMakeText == [s \in Spellings |->
    CASE s \in {int20, float20} -> text20
      [] s = boolTrue -> textOne
      [] OTHER -> textTrue]

MCStrText == [s \in Spellings |->
    CASE s = int20 -> text20
      [] s = float20 -> text20p0
      [] OTHER -> textTrue]
=============================================================================
