-------------------------- MODULE MCDriverSession --------------------------
(***************************************************************************)
(* The driver's session with two of the surrogate's three knobs, over the  *)
(* ranges it was fitted on; one has been calibrated to an edge with four   *)
(* decimals.  Two points per knob, four values of the objective of which   *)
(* neighbours tie; two turns, two attempts per request.                    *)
(***************************************************************************)
EXTENDS DriverSession

MCNames == <<"CTS_CLUSTER_DIAMETER", "CTS_CLUSTER_SIZE">>

MCPolicy ==
    [CTS_CLUSTER_SIZE     |-> [kind |-> "int",   low |-> 120000, high |-> 290000],
     CTS_CLUSTER_DIAMETER |-> [kind |-> "float", low |-> 382812, high |-> 700000]]

MCDomain ==
    [CTS_CLUSTER_SIZE     |-> [low |-> 120000, high |-> 300000],
     CTS_CLUSTER_DIAMETER |-> [low |-> 350000, high |-> 700000]]
=============================================================================
