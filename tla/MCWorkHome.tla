----------------------------- MODULE MCWorkHome -----------------------------
(***************************************************************************)
(* A few numbered stages and the two signoff targets.  `density` is        *)
(* documented for the last stage but one and read there and at the last,   *)
(* `cluster` is documented for the last, `extra` is a make variable ORFS   *)
(* does not document, read from the first stage on.                        *)
(***************************************************************************)
EXTENDS WorkHome

CONSTANTS density, cluster, extra, v1

MCKnobStage ==
    [k \in {density, cluster} |-> IF k = density THEN N - 1 ELSE N]

MCReads ==
    [t \in 1..(N + 2) |-> {extra} \cup (IF t \in {N - 1, N} THEN {density} ELSE {})
                                  \cup (IF t = N THEN {cluster} ELSE {})]

\* LVS fails with the undocumented knob set, DRC with a dense floorplan that
\* also sets the cluster knob.
MCVerdict(x) ==
    CASE Lvs \in DOMAIN x /\ x[Lvs][extra] # Unset -> "none"
      [] Drc \in DOMAIN x /\ x[N][density] # Unset /\ x[N][cluster] # Unset -> "dirty"
      [] OTHER -> "clean"

\* Every mapping over the three knobs.
MCRequests == [{density, cluster, extra} -> {v1, Unset}]
=============================================================================
