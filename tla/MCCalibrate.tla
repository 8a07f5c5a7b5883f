---------------------------- MODULE MCCalibrate ----------------------------
(***************************************************************************)
(* Three knobs of the default policy as they stand there: a whole-number   *)
(* knob whose quarter points are not whole, a knob measured in fractions   *)
(* whose midpoints do not all have four decimals, and a choice.            *)
(***************************************************************************)
EXTENDS Calibrate

CONSTANTS size, density, timing

MCSpec ==
    [k \in Knobs |->
        CASE k = size    -> [kind |-> "int", low |-> 12, high |-> 30, values |-> <<>>]
          [] k = density -> [kind |-> "float", low |-> 2500, high |-> 9000, values |-> <<>>]
          [] k = timing  -> [kind |-> "choice", low |-> 0, high |-> 0, values |-> <<0, 1>>]]

\* Of the sums met here, those round() takes up.
MCTiesUp == {6219, 6829, 7031, 7437, 8657, 9267, 9875, 10077, 11095, 11705, 11905,
             12313, 12515, 12923, 15157, 15563, 16375, 16781, 17391}

MCTargets == {<<size, timing>>, <<density>>}

\* The budget locates the edges of both numeric knobs.
ASSUME MCBudget == Affordable(size) /\ Affordable(density)
=============================================================================
