------------------------------ MODULE OrfsFlow ------------------------------
(***************************************************************************)
(* The ORFS facts openroad.py is built on: the stages, what each one       *)
(* depends on, which knobs it reads, and how a set of changed knobs is     *)
(* turned into "the earliest stage that is now stale".                     *)
(*                                                                         *)
(* Stages 1..N are the numbered flow stages (synth..finish, the digit that *)
(* starts every artifact's name).  The two signoff targets are numbered    *)
(* N+1 and N+2 in the order their checkpoints are met when artifacts are   *)
(* deleted: 6_lvs.lvsdb lives in results/, 6_drc.lyrdb in reports/.        *)
(***************************************************************************)
EXTENDS Integers

CONSTANTS
    N,          \* number of flow stages; 6 in the code
    Knobs,      \* knob names that pass _validate_knobs
    Values,     \* the strings _coerce may produce for them
    Unset,      \* a knob absent from the dict
    KnobStage,  \* knob_specs.KNOB_STAGE: documented knob -> earliest stage
    Reads,      \* what the tools really read at each target
    Verdict(_)  \* what a signoff deck says of a layout: clean, dirty, none

Stages   == 1..N
Lvs      == N + 1
Drc      == N + 2
Targets  == 1..(N + 2)
Signoffs == {Lvs, Drc}

\* STAGE_PREFIX: the digit an artifact's name starts with.
Prefix(t) == IF t > N THEN N ELSE t

\* Everything make has to have built once target t is up to date.
Closure(t) == {s \in Targets : s = t \/ (s <= N /\ s < t)}

\* The artifacts target t is built from, and the last of them.
Upstream(t) == Closure(t) \ {t}
Needs(t)    == IF t > N THEN N ELSE t - 1

\* A cleaned knob mapping, with Unset for the keys it does not have.
Configs  == [Knobs -> Values \cup {Unset}]
NoKnobs  == [k \in Knobs |-> Unset]
SetIn(c) == {k \in Knobs : c[k] # Unset}

-----------------------------------------------------------------------------
(***************************************************************************)
(* What is in an artifact.  The tools are deterministic in their inputs,   *)
(* so a checkpoint is identified with the knob values every stage behind   *)
(* it read.  Fresh(c, t) is what building t from nothing with c gives.     *)
(***************************************************************************)
Visible(c, s) == [k \in Reads[s] |-> c[k]]

Fresh(c, t) == [s \in Closure(t) |-> Visible(c, s)]

\* Running target t with knobs c on the checkpoint `input`.
Assemble(t, input, c) ==
    [s \in Closure(t) |-> IF s = t THEN Visible(c, t) ELSE input[s]]

ContentOK(t, x) ==
    /\ DOMAIN x = Closure(t)
    /\ \A s \in Closure(t) : x[s] \in [Reads[s] -> Values \cup {Unset}]

-----------------------------------------------------------------------------
(***************************************************************************)
(* earliest_affected_stage.  A knob without an entry in KNOB_STAGE forces  *)
(* a rebuild from the first stage.  Only called on a non-empty set.        *)
(***************************************************************************)
\* Mutant: an undocumented knob is no reason to rebuild anything.
EarliestDocumented(changed) ==
    LET stages == {KnobStage[k] : k \in changed \cap DOMAIN KnobStage}
    IN  IF stages = {} THEN N ELSE CHOOSE s \in stages : \A r \in stages : s <= r

EarliestAffected(changed) ==
    IF changed \subseteq DOMAIN KnobStage
    THEN LET stages == {KnobStage[k] : k \in changed}
         IN  CHOOSE s \in stages : \A r \in stages : s <= r
    ELSE 1

\* Mutants: only the affected stage itself, and only what comes after it.
NumberedExactly(s, present) == {t \in present : Prefix(t) = s}
NumberedAfter(s, present)   == {t \in present : Prefix(t) > s}

\* The artifacts _invalidate_from deletes out of those present.
NumberedFrom(s, present) == {t \in present : Prefix(t) >= s}

-----------------------------------------------------------------------------
ASSUME NAssumption == N \in Nat \ {0}

ASSUME ReadsAssumption == Reads \in [Targets -> SUBSET Knobs]

\* KNOB_STAGE names the earliest stage that reads a knob ("the mapping is
\* conservative"): what is documented is never read before its stage.
ASSUME TableAssumption ==
    /\ DOMAIN KnobStage \subseteq Knobs
    /\ \A k \in DOMAIN KnobStage : KnobStage[k] \in Stages
    /\ \A t \in Targets, k \in DOMAIN KnobStage :
          k \in Reads[t] => KnobStage[k] <= Prefix(t)
=============================================================================
