--------------------------- MODULE WorkHomeProofs ---------------------------
(***************************************************************************)
(* Proofs about WorkHome, for any number of stages, any knobs and any      *)
(* stage table that is conservative (TableAssumption).                     *)
(***************************************************************************)
EXTENDS WorkHome, WellFoundedInduction, TLAPS

-----------------------------------------------------------------------------
(***************************************************************************)
(* A set of natural numbers that is not empty has a least element.         *)
(***************************************************************************)
LEMMA LeastNatural ==
    ASSUME NEW P, P \subseteq Nat, P # {}
    PROVE  \E n \in P : \A m \in P : n <= m
<1> DEFINE less == {ss \in Nat \X Nat : ss[1] < ss[2]}
<1>1. PICK n \in P : \A m \in P : ~ (<<m, n>> \in OpToRel(<, Nat))
  BY NatLessThanWellFounded, WFMin
<1>2. OpToRel(<, Nat) = less
  BY Zenon DEF OpToRel
<1>3. \A m \in P : ~ (<<m, n>> \in less)
  BY <1>1, <1>2
<1>4. \A m \in P : m \in Nat /\ n \in Nat
  OBVIOUS
<1>5. \A m, k \in Nat : m < k => <<m, k>> \in less
  OBVIOUS
<1> HIDE DEF less
<1>6. \A m \in P : ~ (m < n)
  BY <1>3, <1>4, <1>5
<1>7. \A m, k \in Nat : ~ (m < k) => k <= m
  BY SMT
<1>8. QED
  BY <1>4, <1>6, <1>7

-----------------------------------------------------------------------------
(***************************************************************************)
(* The stage structure.                                                    *)
(***************************************************************************)

\* A target's upstream is the closure of the one target it needs.
LEMMA UpstreamIsClosure ==
    ASSUME NEW t \in Targets
    PROVE  /\ t \in Closure(t)
           /\ Closure(t) \subseteq Targets
           /\ t = 1 => Upstream(t) = {}
           /\ t # 1 => /\ Needs(t) \in Upstream(t)
                       /\ Upstream(t) = Closure(Needs(t))
BY NAssumption, SMT DEF Upstream, Closure, Needs, Targets

\* Artifacts with a smaller digit are the only ones behind a target.
LEMMA PrefixMonotone ==
    ASSUME NEW t \in Targets, NEW s \in Closure(t)
    PROVE  /\ Prefix(s) \in Stages
           /\ Prefix(t) \in Stages
           /\ Prefix(s) <= Prefix(t)
BY NAssumption, SMT DEF Closure, Prefix, Targets, Stages

\* A from-scratch build is one target run on the from-scratch build of what
\* it needs: resuming from good checkpoints gives a good checkpoint.
LEMMA ResumeIsFresh ==
    ASSUME NEW t \in Targets, NEW c
    PROVE  Fresh(c, t) = Assemble(t, IF t = 1 THEN <<>> ELSE Fresh(c, Needs(t)), c)
<1>1. CASE t = 1
  <2>1. Closure(t) = {t}
    BY <1>1, UpstreamIsClosure DEF Upstream
  <2>2. QED
    BY <1>1, <2>1, Zenon DEF Fresh, Assemble
<1>2. CASE t # 1
  <2>1. \A s \in Closure(t) : s # t => s \in Closure(Needs(t))
    BY <1>2, UpstreamIsClosure DEF Upstream
  <2>2. \A s \in Closure(t) : s # t => Fresh(c, Needs(t))[s] = Visible(c, s)
    BY <2>1 DEF Fresh
  <2>3. QED
    BY <1>2, <2>2 DEF Fresh, Assemble
<1>3. QED
  BY <1>1, <1>2

\* A from-scratch build has an entry for every stage behind it, well typed.
LEMMA FreshTyped ==
    ASSUME NEW t \in Targets, NEW c \in Configs
    PROVE  ContentOK(t, Fresh(c, t))
<1>1. \A s \in Closure(t) : Reads[s] \subseteq Knobs
  BY UpstreamIsClosure, ReadsAssumption
<1>2. \A s \in Closure(t) : Visible(c, s) \in [Reads[s] -> Values \cup {Unset}]
  BY <1>1 DEF Visible, Configs
<1>3. QED
  BY <1>2 DEF ContentOK, Fresh

-----------------------------------------------------------------------------
(***************************************************************************)
(* earliest_affected_stage is conservative.                                *)
(***************************************************************************)

\* It is a stage, no changed knob is documented for an earlier one, and an
\* undocumented knob sends it to the first.
LEMMA EarliestAffectedBounds ==
    ASSUME NEW changed \in SUBSET Knobs, changed # {}
    PROVE  /\ EarliestAffected(changed) \in Stages
           /\ \A k \in changed \cap DOMAIN KnobStage :
                 EarliestAffected(changed) <= KnobStage[k]
           /\ ~ (changed \subseteq DOMAIN KnobStage) => EarliestAffected(changed) = 1
           /\ changed \subseteq DOMAIN KnobStage =>
                 \E k \in changed : EarliestAffected(changed) = KnobStage[k]
<1>0. 1 \in Stages /\ Stages \subseteq Nat /\ \A s \in Stages : 1 <= s
  BY NAssumption, SMT DEF Stages
<1>1. CASE changed \subseteq DOMAIN KnobStage
  <2> DEFINE stages == {KnobStage[k] : k \in changed}
  <2>1. stages \subseteq Stages /\ stages # {}
    BY <1>1, TableAssumption
  <2>2. stages \subseteq Nat
    BY <2>1, <1>0
  <2> HIDE DEF stages
  <2>3. \E s \in stages : \A r \in stages : s <= r
    BY <2>1, <2>2, LeastNatural
  <2> USE DEF stages
  <2>4. EarliestAffected(changed) = CHOOSE x \in stages : \A r \in stages : x <= r
    BY <1>1 DEF EarliestAffected
  <2>5. /\ EarliestAffected(changed) \in stages
        /\ \A r \in stages : EarliestAffected(changed) <= r
    BY <2>3, <2>4
  <2>6. QED
    BY <1>1, <2>1, <2>5
<1>2. CASE ~ (changed \subseteq DOMAIN KnobStage)
  BY <1>0, <1>2, TableAssumption DEF EarliestAffected
<1>3. QED
  BY <1>1, <1>2
-----------------------------------------------------------------------------
(***************************************************************************)
(* What invalidation spares.                                               *)
(***************************************************************************)

\* Two configurations that differ only in knobs documented for later stages
\* build the same artifact.
LEMMA SameBelow ==
    ASSUME NEW t \in Targets, NEW m \in Configs, NEW c \in Configs,
           \A k \in Knobs : m[k] # c[k] =>
               k \in DOMAIN KnobStage /\ Prefix(t) < KnobStage[k]
    PROVE  Fresh(m, t) = Fresh(c, t)
<1>1. ASSUME NEW s \in Closure(t), NEW k \in Reads[s]
      PROVE  m[k] = c[k]
  <2>1. s \in Targets /\ k \in Knobs
    BY UpstreamIsClosure, ReadsAssumption
  <2>2. SUFFICES ASSUME m[k] # c[k] PROVE FALSE
    OBVIOUS
  <2>3. k \in DOMAIN KnobStage /\ Prefix(t) < KnobStage[k]
    BY <2>1, <2>2
  <2>4. KnobStage[k] <= Prefix(s)
    BY <2>1, <2>3, TableAssumption
  <2>5. /\ Prefix(s) <= Prefix(t)
        /\ Prefix(s) \in Int /\ Prefix(t) \in Int
    BY PrefixMonotone DEF Stages
  <2>6. KnobStage[k] \in Int
    BY <2>3, TableAssumption DEF Stages
  <2>7. QED
    BY <2>3, <2>4, <2>5, <2>6
<1>2. \A s \in Closure(t) : Visible(m, s) = Visible(c, s)
  BY <1>1 DEF Visible
<1>3. QED
  BY <1>2 DEF Fresh

\* An artifact whose digit is below the invalidation point (or any, when there
\* is none) is the same under the recorded and the requested knobs.
LEMMA SparedIsFresh ==
    ASSUME NEW m \in Configs, NEW c \in Configs, NEW force \in BOOLEAN,
           NEW t \in Targets,
           LET f == InvalidateFrom(m, c, force) IN f # 0 => ~ (f <= Prefix(t))
    PROVE  Fresh(m, t) = Fresh(c, t)
<1> DEFINE f == InvalidateFrom(m, c, force)
<1>1. Prefix(t) \in Stages /\ Stages \subseteq Int /\ 1 <= Prefix(t)
  BY PrefixMonotone, UpstreamIsClosure DEF Stages
<1>2. force = FALSE
  BY <1>1 DEF InvalidateFrom
<1>3. Changed(m, c) = {k \in Knobs : m[k] # c[k]}
  BY RequestsAssumption DEF Changed
<1>4. CASE Changed(m, c) = {}
  BY <1>3, <1>4, SameBelow
<1>5. CASE Changed(m, c) # {}
  <2>1. f = EarliestAffected(Changed(m, c))
    BY <1>2, <1>5 DEF InvalidateFrom
  <2>2. Changed(m, c) \in SUBSET Knobs
    BY <1>3
  <2>3. f \in Stages
    BY <1>5, <2>1, <2>2, EarliestAffectedBounds
  <2>4. f # 0
    BY <2>3, NAssumption DEF Stages
  <2>5. ~ (f <= Prefix(t))
    BY <2>4
  <2>6. f # 1
    BY <1>1, <2>5
  <2>7. ASSUME NEW k \in Changed(m, c)
        PROVE  k \in DOMAIN KnobStage /\ Prefix(t) < KnobStage[k]
    <3>1. k \in DOMAIN KnobStage
      BY <1>5, <2>1, <2>2, <2>6, EarliestAffectedBounds
    <3>2. f <= KnobStage[k] /\ KnobStage[k] \in Stages
      BY <1>5, <2>1, <2>2, <3>1, EarliestAffectedBounds, TableAssumption
    <3>3. f \in Int /\ KnobStage[k] \in Int /\ Prefix(t) \in Int
      BY <1>1, <2>3, <3>2
    <3> HIDE DEF f
    <3>4. QED
      BY <2>5, <3>1, <3>2, <3>3
  <2>8. QED
    BY <1>3, <2>7, SameBelow
<1>6. QED
  BY <1>4, <1>5

\* invalidated_from is a stage of the flow, or 0 for None.
LEMMA InvalidateFromTyped ==
    ASSUME NEW m \in Configs \cup {NoRecord}, NEW c \in Configs,
           NEW force \in BOOLEAN
    PROVE  InvalidateFrom(m, c, force) \in 0..N
<1>1. Changed(m, c) \in SUBSET Knobs
  BY DEF Changed, SetIn
<1>2. 1 \in 0..N /\ 0 \in 0..N /\ Stages \subseteq 0..N
  BY NAssumption, SMT DEF Stages
<1>3. CASE force
  BY <1>2, <1>3 DEF InvalidateFrom
<1>4. CASE ~force /\ Changed(m, c) # {}
  <2>1. EarliestAffected(Changed(m, c)) \in Stages
    BY <1>1, <1>4, EarliestAffectedBounds
  <2>2. QED
    BY <1>2, <1>4, <2>1 DEF InvalidateFrom
<1>5. CASE ~force /\ Changed(m, c) = {}
  BY <1>2, <1>5 DEF InvalidateFrom
<1>6. QED
  BY <1>3, <1>4, <1>5
-----------------------------------------------------------------------------
(***************************************************************************)
(* The invariant.                                                          *)
(***************************************************************************)

\* An empty directory satisfies the invariant: there is nothing to be stale.
LEMMA InitInv == Init => IInv
<1> SUFFICES ASSUME Init PROVE IInv
  OBVIOUS
<1>1. NoKnobs \in Configs
  BY DEF NoKnobs, Configs
<1>2. 1 \in Targets /\ 0 \in 0..N
  BY NAssumption, SMT DEF Targets
<1>3. DOMAIN tree = {}
  BY DEF Init
<1>4. TypeOK
  BY <1>1, <1>2, <1>3 DEF Init, TypeOK, Present
<1>5. QED
  BY <1>3, <1>4 DEF Init, IInv, ManifestHonest, KeptIsFresh, ResultFaithful,
       Faithful, NoHoles, Invalidation, Present

\* The diff against the manifest dooms every artifact another configuration
\* could have built, so what is spared is fresh for the call's knobs.
LEMMA CallInv ==
    ASSUME IInv, NEW t \in Targets, NEW c \in Requests, NEW force \in BOOLEAN,
           Call(t, c, force)
    PROVE  IInv'
<1> USE DEF Present
<1>1. c \in Configs
  BY RequestsAssumption
<1>2. cut' = InvalidateFrom(manifest, c, force)
  BY DEF Call
<1>3. TypeOK'
  <2>1. cut' \in 0..N
    BY <1>1, <1>2, InvalidateFromTyped DEF IInv, TypeOK
  <2>2. doomed' \subseteq DOMAIN tree
    BY DEF Call, NumberedFrom
  <2>3. QED
    BY <1>1, <2>1, <2>2 DEF IInv, TypeOK, Call, ContentOK
<1>4. ManifestHonest' /\ ResultFaithful'
  BY DEF IInv, Call, ManifestHonest, ResultFaithful, Faithful
<1>5. \A u \in DOMAIN tree :
         u \in doomed' <=> cut' # 0 /\ cut' <= Prefix(u)
  <2>1. \A u \in DOMAIN tree : Prefix(u) \in Int
    BY PrefixMonotone, UpstreamIsClosure DEF IInv, TypeOK, Stages
  <2>2. cut' \in Int
    BY <1>3 DEF TypeOK
  <2>3. QED
    BY <2>1, <2>2 DEF Call, NumberedFrom
<1>6. KeptIsFresh'
  <2> SUFFICES ASSUME NEW u \in DOMAIN tree, u \notin doomed'
               PROVE  tree[u] = Fresh(c, u)
    BY DEF Call, KeptIsFresh
  <2>1. manifest # NoRecord /\ tree[u] = Fresh(manifest, u)
    BY DEF IInv, ManifestHonest, Call
  <2>2. manifest \in Configs /\ u \in Targets
    BY <2>1 DEF IInv, TypeOK
  <2>3. cut' # 0 => ~ (cut' <= Prefix(u))
    BY <1>5
  <2>4. QED
    BY <1>1, <1>2, <2>1, <2>2, <2>3, SparedIsFresh
<1>7. NoHoles'
  <2>1. outdated' = {} /\ tree' = tree /\ doomed = {}
    BY DEF IInv, NoHoles, Call, Invalidation
  <2>2. ASSUME NEW u \in DOMAIN tree, u \notin doomed', NEW s \in Upstream(u)
        PROVE  s \in DOMAIN tree /\ s \notin doomed'
    <3>1. u \in Targets /\ s \in Closure(u)
      BY DEF IInv, TypeOK, Upstream
    <3>2. s \in DOMAIN tree
      BY <2>1 DEF IInv, NoHoles
    <3>3. Prefix(s) <= Prefix(u) /\ Prefix(s) \in Int /\ Prefix(u) \in Int
      BY <3>1, PrefixMonotone DEF Stages
    <3>4. cut' \in Int
      BY <1>3 DEF TypeOK
    <3>5. ~ (cut' # 0 /\ cut' <= Prefix(u))
      BY <1>5, <2>2
    <3>6. ~ (cut' # 0 /\ cut' <= Prefix(s))
      BY <3>3, <3>4, <3>5
    <3>7. QED
      BY <1>5, <3>2, <3>6
  <2>3. QED
    BY <2>1, <2>2 DEF NoHoles
<1>8. Invalidation'
  <2>1. \A u \in doomed' : cut' # 0 /\ cut' <= Prefix(u)
    BY <1>3, <1>5 DEF TypeOK, Call
  <2>2. QED
    BY <2>1 DEF Call, Invalidation
<1>9. QED
  BY <1>3, <1>4, <1>6, <1>7, <1>8 DEF IInv

\* Deleting a doomed checkpoint disturbs none that is spared.
LEMMA UnlinkInv ==
    ASSUME IInv, NEW t \in Targets, Unlink(t)
    PROVE  IInv'
<1> USE DEF Present
<1>1. /\ DOMAIN tree' = DOMAIN tree \ {t}
      /\ \A u \in DOMAIN tree' : tree'[u] = tree[u]
      /\ doomed' = doomed \ {t}
      /\ t \in doomed
  BY DEF Unlink
<1>2. TypeOK'
  BY <1>1 DEF IInv, TypeOK, Unlink, ContentOK, callVars
<1>3. ManifestHonest' /\ ResultFaithful'
  BY DEF IInv, Unlink, ManifestHonest, ResultFaithful, Faithful
<1>4. KeptIsFresh'
  BY <1>1 DEF IInv, Unlink, KeptIsFresh, callVars
<1>5. NoHoles'
  BY <1>1 DEF IInv, Unlink, NoHoles
<1>6. Invalidation'
  BY <1>1 DEF IInv, Unlink, Invalidation, callVars
<1>7. QED
  BY <1>2, <1>3, <1>4, <1>5, <1>6 DEF IInv

\* Building a target on the fresh artifacts of the call makes a fresh one.
LEMMA MakeBuildsFresh ==
    ASSUME IInv, NEW t \in Targets, Make(t)
    PROVE  /\ DOMAIN tree' = DOMAIN tree \cup {t}
           /\ tree'[t] = Fresh(knobs, t)
           /\ \A u \in DOMAIN tree : u # t => tree'[u] = tree[u]
           /\ t \notin DOMAIN tree
           /\ doomed = {} /\ doomed' = {}
<1> USE DEF Present
<1>1. /\ DOMAIN tree' = DOMAIN tree \cup {t}
      /\ \A u \in DOMAIN tree : u # t => tree'[u] = tree[u]
      /\ doomed = {} /\ doomed' = {}
      /\ pc = "running"
      /\ tree'[t] = Assemble(t, IF t = 1 THEN <<>> ELSE tree[Needs(t)], knobs)
  BY DEF Make
<1>2. t \notin DOMAIN tree
  BY DEF IInv, NoHoles, Make, UpToDate
<1>3. t # 1 => tree[Needs(t)] = Fresh(knobs, Needs(t))
  <2> SUFFICES ASSUME t # 1 PROVE tree[Needs(t)] = Fresh(knobs, Needs(t))
    OBVIOUS
  <2>1. Needs(t) \in DOMAIN tree
    BY UpstreamIsClosure DEF Make, UpToDate
  <2>2. QED
    BY <1>1, <2>1 DEF IInv, KeptIsFresh
<1>4. QED
  BY <1>1, <1>2, <1>3, ResumeIsFresh

\* make adds fresh artifacts only, and never finds one out of date.
LEMMA MakeInv ==
    ASSUME IInv, NEW t \in Targets, Make(t)
    PROVE  IInv'
<1> USE DEF Present
<1>1. UNCHANGED <<manifest, pc, target, knobs, forced, cut, result>> /\ pc = "running"
  BY DEF Make, callVars
<1>2. outdated' = {}
  <2>1. \A u \in DOMAIN tree : t \notin Upstream(u)
    BY MakeBuildsFresh DEF IInv, NoHoles
  <2>2. outdated = {}
    BY DEF IInv, NoHoles
  <2>3. QED
    BY <2>1, <2>2 DEF Make
<1>3. TypeOK'
  <2>1. ContentOK(t, tree'[t])
    <3>1. tree'[t] = Fresh(knobs, t)
      BY MakeBuildsFresh
    <3>2. knobs \in Configs
      BY DEF IInv, TypeOK
    <3> QED
      BY <3>1, <3>2, FreshTyped
  <2>2. \A u \in DOMAIN tree' : ContentOK(u, tree'[u])
    BY <2>1, MakeBuildsFresh DEF IInv, TypeOK
  <2>3. (\A u \in DOMAIN tree : ContentOK(u, tree[u]))'
    BY <2>2 DEF ContentOK
  <2>4. DOMAIN tree' \subseteq Targets /\ doomed' = {}
    BY MakeBuildsFresh DEF IInv, TypeOK
  <2>5. QED
    BY <1>1, <1>2, <2>3, <2>4 DEF IInv, TypeOK
<1>4. ManifestHonest' /\ ResultFaithful'
  BY <1>1 DEF IInv, ManifestHonest, ResultFaithful, Faithful
<1>5. KeptIsFresh'
  BY <1>1, MakeBuildsFresh DEF IInv, KeptIsFresh
<1>6. NoHoles'
  <2>1. Upstream(t) \subseteq DOMAIN tree
    BY DEF Make, UpToDate
  <2>2. QED
    BY <1>2, <2>1, MakeBuildsFresh DEF IInv, NoHoles
<1>7. Invalidation'
  BY <1>1, MakeBuildsFresh DEF IInv, Invalidation
<1>8. QED
  BY <1>3, <1>4, <1>5, <1>6, <1>7 DEF IInv

\* What a call returns is read off a tree of fresh artifacts.
LEMMA ReturnFaithful ==
    ASSUME IInv, NEW rc \in {"ok", "error", "killed"}, Return(rc)
    PROVE  /\ ResultFaithful'
           /\ rc = "ok" => target \in DOMAIN tree
           /\ \A t \in DOMAIN tree : tree[t] = Fresh(knobs, t)
<1> USE DEF Present
<1>1. \A t \in DOMAIN tree : tree[t] = Fresh(knobs, t)
  BY DEF IInv, KeptIsFresh, Return, ResultOf, Passed
<1>2. rc = "ok" => target \in DOMAIN tree
  BY UpstreamIsClosure DEF IInv, TypeOK, Return, ResultOf, Passed, UpToDate
<1>3. QED
  BY <1>1, <1>2 DEF Return, ResultOf, Passed, ResultFaithful, Faithful

\* The manifest run_stage writes, even on failure, is true of the tree.
LEMMA ReturnInv ==
    ASSUME IInv, NEW rc \in {"ok", "error", "killed"}, Return(rc)
    PROVE  IInv'
<1> USE DEF Present
<1>1. TypeOK'
  <2>1. UNCHANGED <<tree, outdated, target, knobs, forced, cut, doomed>>
    BY DEF Return, ResultOf, Passed, callVars
  <2>2. /\ result'.rc = rc
        /\ result'.success \in BOOLEAN
        /\ result'.target = target
        /\ result'.knobs = knobs
        /\ result'.invalidatedFrom = cut
    BY DEF Return, ResultOf, Passed
  <2>3. pc' = "idle" /\ manifest' = knobs
    BY DEF Return, ResultOf, Passed
  <2>4. QED
    BY <2>1, <2>2, <2>3 DEF IInv, TypeOK, ContentOK
<1>2. ManifestHonest'
  <2>1. knobs # NoRecord
    BY RequestsAssumption DEF IInv, TypeOK
  <2>2. QED
    BY <2>1, ReturnFaithful DEF Return, ResultOf, Passed, ManifestHonest
<1>3. KeptIsFresh'
  BY DEF Return, ResultOf, Passed, KeptIsFresh
<1>4. NoHoles'
  BY DEF IInv, Return, ResultOf, Passed, NoHoles
<1>5. Invalidation'
  BY DEF IInv, Return, ResultOf, Passed, Invalidation
<1>6. QED
  BY <1>1, <1>2, <1>3, <1>4, <1>5, ReturnFaithful DEF IInv

\* Every step of a call keeps the invariant.
LEMMA StepInv == IInv /\ [Next]_vars => IInv'
<1> SUFFICES ASSUME IInv, [Next]_vars PROVE IInv'
  OBVIOUS
<1>1. CASE \E t \in Targets, c \in Requests, force \in BOOLEAN : Call(t, c, force)
  BY <1>1, CallInv
<1>2. CASE \E t \in Targets : Unlink(t)
  BY <1>2, UnlinkInv
<1>3. CASE \E t \in Targets : Make(t)
  BY <1>3, MakeInv
<1>4. CASE \E rc \in {"ok", "error", "killed"} : Return(rc)
  BY <1>4, ReturnInv
<1>5. CASE UNCHANGED vars
  BY <1>5 DEF vars, IInv, TypeOK, ContentOK, ManifestHonest, KeptIsFresh, ResultFaithful,
       Faithful, NoHoles, Invalidation, Present
<1>6. QED
  BY <1>1, <1>2, <1>3, <1>4, <1>5 DEF Next

\* The inductive invariant holds: in particular the type invariant.
THEOREM Inductive == Spec => []IInv
BY InitInv, StepInv, PTL DEF Spec

\* Type correctness, for any number of stages and any knobs.
THEOREM TypeCorrect == Spec => []TypeOK
<1>1. IInv => TypeOK
  BY DEF IInv
<1>2. QED
  BY <1>1, Inductive, PTL

\* For every sequence of run_stage calls on a directory, with any knobs, any
\* failures and any timeouts, what is returned belongs to the call's knobs.
THEOREM ResultsFaithful == Spec => []ResultFaithful
<1>1. IInv => ResultFaithful
  BY DEF IInv
<1>2. QED
  BY <1>1, Inductive, PTL

\* Between calls the manifest tells the truth about every artifact on disk.
THEOREM ManifestsHonest == Spec => []ManifestHonest
<1>1. IInv => ManifestHonest
  BY DEF IInv
<1>2. QED
  BY <1>1, Inductive, PTL

\* During a call, what invalidation spared is what its knobs would build.
THEOREM SparedArtifactsFresh == Spec => []KeptIsFresh
<1>1. IInv => KeptIsFresh
  BY DEF IInv
<1>2. QED
  BY <1>1, Inductive, PTL

\* Invalidation never leaves a hole for make to fill between kept artifacts.
THEOREM NeverHoles == Spec => []NoHoles
<1>1. IInv => NoHoles
  BY DEF IInv
<1>2. QED
  BY <1>1, Inductive, PTL

-----------------------------------------------------------------------------
(***************************************************************************)
(* What a call leaves alone.                                               *)
(***************************************************************************)

\* What a call deletes lies at or after the stage of a changed knob, or the
\* call was forced.
LEMMA UnlinkIsAffected ==
    ASSUME IInv, NEW t \in Targets, Unlink(t), ~forced
    PROVE  \E k \in Changed(manifest, knobs) :
              k \notin DOMAIN KnobStage \/ KnobStage[k] <= Prefix(t)
<1> DEFINE changed == Changed(manifest, knobs)
<1>1. /\ cut = InvalidateFrom(manifest, knobs, forced)
      /\ cut # 0 /\ cut <= Prefix(t)
  BY DEF Unlink, IInv, Invalidation
<1>2. changed # {} /\ cut = EarliestAffected(changed)
  BY <1>1 DEF InvalidateFrom, IInv, TypeOK
<1>3. changed \in SUBSET Knobs
  BY DEF Changed, SetIn
<1>4. CASE changed \subseteq DOMAIN KnobStage
  <2>1. PICK k \in changed : cut = KnobStage[k]
    BY <1>2, <1>3, <1>4, EarliestAffectedBounds
  <2>2. QED
    BY <1>1, <2>1
<1>5. CASE ~ (changed \subseteq DOMAIN KnobStage)
  BY <1>5
<1>6. QED
  BY <1>4, <1>5

\* A call that is not forced spares every checkpoint before the first stage
\* its changes are documented for.
THEOREM PrefixesKept == Spec => PrefixKept
<1> DEFINE Kept == \A t \in Present :
                     \/ t \in DOMAIN tree' /\ tree'[t] = tree[t]
                     \/ forced
                     \/ \E k \in Changed(manifest, knobs) :
                           k \notin DOMAIN KnobStage \/ KnobStage[k] <= Prefix(t)
<1>1. IInv /\ [Next]_vars => [Kept]_vars
  <2> SUFFICES ASSUME IInv, Next PROVE Kept
    BY DEF vars
  <2>1. CASE \E t \in Targets, c \in Requests, force \in BOOLEAN : Call(t, c, force)
    BY <2>1 DEF Call, Present
  <2>2. ASSUME NEW t \in Targets, Unlink(t) PROVE Kept
    <3>1. \A u \in Present \ {t} : u \in DOMAIN tree' /\ tree'[u] = tree[u]
      BY <2>2 DEF Unlink, Present
    <3>2. forced \in BOOLEAN
      BY DEF IInv, TypeOK
    <3>3. QED
      BY <2>2, <3>1, <3>2, UnlinkIsAffected
  <2>3. ASSUME NEW t \in Targets, Make(t) PROVE Kept
    BY <2>3, MakeBuildsFresh DEF Present
  <2>4. CASE \E rc \in {"ok", "error", "killed"} : Return(rc)
    BY <2>4 DEF Return, ResultOf, Passed, Present
  <2>5. QED
    BY <2>1, <2>2, <2>3, <2>4 DEF Next
<1>2. QED
  BY <1>1, Inductive, PTL DEF Spec, PrefixKept

-----------------------------------------------------------------------------
(***************************************************************************)
(* run_stage implements the from-scratch build.                            *)
(***************************************************************************)

\* Both specifications speak of the same flow.
LEMMA SameFlow ==
    /\ FromScratch!Targets = Targets
    /\ FromScratch!Signoffs = Signoffs
    /\ FromScratch!NoKnobs = NoKnobs
    /\ \A c, t : FromScratch!Fresh(c, t) = Fresh(c, t)
<1>1. FromScratch!Targets = Targets /\ FromScratch!Signoffs = Signoffs
  BY DEF FromScratch!Targets, Targets, FromScratch!Signoffs, Signoffs,
         FromScratch!Lvs, Lvs, FromScratch!Drc, Drc
<1>2. FromScratch!NoKnobs = NoKnobs
  BY DEF FromScratch!NoKnobs, NoKnobs
<1>3. \A c, t : FromScratch!Fresh(c, t) = Fresh(c, t)
  BY <1>1 DEF FromScratch!Fresh, Fresh, FromScratch!Closure, Closure,
              FromScratch!Visible, Visible
<1>4. QED
  BY <1>1, <1>2, <1>3

\* The refinement mapping maps the initial states.
LEMMA InitImplements == Init => FromScratch!Init
BY SameFlow DEF Init, FromScratch!Init, Answered

\* It maps a call to a request, a return to an answer, the rest to stutters.
LEMMA StepImplements ==
    IInv /\ IInv' /\ [Next]_vars => [FromScratch!Next]_(FromScratch!vars)
<1> SUFFICES ASSUME IInv, IInv', [Next]_vars
             PROVE  FromScratch!Next \/ UNCHANGED FromScratch!vars
  OBVIOUS
<1>1. ASSUME NEW t \in Targets, NEW c \in Requests, NEW force \in BOOLEAN,
             Call(t, c, force)
      PROVE  FromScratch!Request
  BY <1>1, SameFlow DEF Call, FromScratch!Request, Answered
<1>2. ASSUME NEW t \in Targets, Unlink(t) PROVE UNCHANGED FromScratch!vars
  BY <1>2 DEF Unlink, FromScratch!vars, Answered, callVars
<1>3. ASSUME NEW t \in Targets, Make(t) PROVE UNCHANGED FromScratch!vars
  BY <1>3 DEF Make, FromScratch!vars, Answered, callVars
<1>4. ASSUME NEW rc \in {"ok", "error", "killed"}, Return(rc)
      PROVE  FromScratch!Answer
  <2> DEFINE checkpoint == {tree[t] : t \in {target} \cap Present}
             report == {tree[t] : t \in {N} \cap Present}
  <2>1. /\ checkpoint \in SUBSET {Fresh(knobs, target)}
        /\ report \in SUBSET {Fresh(knobs, N)}
        /\ rc = "ok" => checkpoint # {}
        /\ rc = "ok" => tree[target] = Fresh(knobs, target)
    BY <1>4, ReturnFaithful DEF Present
  <2>2. Answered' = [rc |-> rc,
                     success |-> rc = "ok" /\ (target \in Signoffs =>
                                    Verdict(Fresh(knobs, target)) = "clean"),
                     target |-> target, knobs |-> knobs,
                     checkpoint |-> checkpoint, report |-> report]
    BY <1>4, <2>1 DEF Return, ResultOf, Passed, Answered
  <2>3. pc = "running" /\ pc' = "idle" /\ UNCHANGED <<target, knobs>>
    BY <1>4 DEF Return, ResultOf, Passed, callVars
  <2> HIDE DEF checkpoint, report
  <2>4. QED
    BY <2>1, <2>2, <2>3, SameFlow DEF FromScratch!Answer
<1>5. CASE UNCHANGED vars
  BY <1>5 DEF vars, FromScratch!vars, Answered
<1>6. QED
  BY <1>1, <1>2, <1>3, <1>4, <1>5 DEF Next, FromScratch!Next

\* Every behaviour of a work directory answers its calls as from-scratch
\* builds would.
THEOREM Implements == Spec => FreshBuildSpec
BY InitImplements, StepImplements, Inductive, PTL
   DEF Spec, FreshBuildSpec, FromScratch!Spec

-----------------------------------------------------------------------------
(***************************************************************************)
(* What survives a worker dying in the middle of a call, between the build *)
(* and the manifest write included (CrashSpec).  The manifest may then be  *)
(* wrong about the tree, so ResultFaithful is lost in general; two uses of *)
(* a work directory keep it.                                               *)
(***************************************************************************)

\* The part of the type invariant the arguments below rest on.
CrashTypeOK == Present \subseteq Targets /\ target \in Targets

\* It holds in every behaviour with crashes.
LEMMA CrashTypes == CrashSpec => []CrashTypeOK
<1> USE DEF CrashTypeOK, Present
<1>1. Init => CrashTypeOK
  BY NAssumption, SMT DEF Init, Targets
<1>2. CrashTypeOK /\ [CrashNext]_vars => CrashTypeOK'
  <2> SUFFICES ASSUME CrashTypeOK, [CrashNext]_vars PROVE CrashTypeOK'
    OBVIOUS
  <2>1. ASSUME NEW t \in Targets, NEW c \in Requests, NEW force \in BOOLEAN,
               Call(t, c, force)
        PROVE  CrashTypeOK'
    BY <2>1 DEF Call
  <2>2. ASSUME NEW t \in Targets, Unlink(t) PROVE CrashTypeOK'
    BY <2>2 DEF Unlink, callVars
  <2>3. ASSUME NEW t \in Targets, Make(t) PROVE CrashTypeOK'
    BY <2>3 DEF Make, callVars
  <2>4. ASSUME NEW rc \in {"ok", "error", "killed"}, Return(rc) PROVE CrashTypeOK'
    BY <2>4 DEF Return, ResultOf, Passed, callVars
  <2>5. ASSUME NEW torn \in BOOLEAN, Crash(torn) PROVE CrashTypeOK'
    BY <2>5 DEF Crash, callVars
  <2>6. CASE UNCHANGED vars
    BY <2>6 DEF vars
  <2>7. QED
    BY <2>1, <2>2, <2>3, <2>4, <2>5, <2>6 DEF CrashNext, Next
<1>3. QED
  BY <1>1, <1>2, PTL DEF CrashSpec

\* Whatever else is on disk, make turns a tree of artifacts of the call's
\* knobs into another one.
LEMMA MakeExtendsFresh ==
    ASSUME CrashTypeOK, NEW t \in Targets, Make(t),
           \A u \in Present : tree[u] = Fresh(knobs, u)
    PROVE  \A u \in Present' : tree'[u] = Fresh(knobs, u)
<1> USE DEF Present
<1>1. t # 1 => tree[Needs(t)] = Fresh(knobs, Needs(t))
  BY UpstreamIsClosure DEF Make, UpToDate
<1>2. tree'[t] = Fresh(knobs, t)
  BY <1>1, ResumeIsFresh DEF Make
<1>3. QED
  BY <1>2 DEF Make

\* A call returning over such a tree returns a faithful result.
LEMMA ReturnReadsFresh ==
    ASSUME CrashTypeOK, NEW rc \in {"ok", "error", "killed"}, Return(rc),
           \A u \in Present : tree[u] = Fresh(knobs, u)
    PROVE  Faithful(result')
<1>1. rc = "ok" => target \in Present
  BY UpstreamIsClosure DEF Return, ResultOf, Passed, UpToDate, CrashTypeOK
<1>2. QED
  BY <1>1 DEF Return, ResultOf, Passed, Faithful

-----------------------------------------------------------------------------
(***************************************************************************)
(* A tree only ever used with one knob mapping, which is how               *)
(* orfs_tools.py uses the tree of a candidate.                             *)
(***************************************************************************)

OneConfigInv ==
    /\ \A t \in Present, c \in Requests : tree[t] = Fresh(c, t)
    /\ pc = "running" => knobs \in Requests
    /\ ResultFaithful

\* However often the worker dies, and wherever in a call, a tree that sees a
\* single knob mapping never answers with a stale artifact.
THEOREM OneConfigCrashSafe ==
    ASSUME \A c, d \in Requests : c = d
    PROVE  CrashSpec => []ResultFaithful
<1> USE DEF Present
<1>1. Init => OneConfigInv
  BY DEF Init, OneConfigInv, ResultFaithful, Faithful
<1>2. CrashTypeOK /\ OneConfigInv /\ [CrashNext]_vars => OneConfigInv'
  <2> SUFFICES ASSUME CrashTypeOK, OneConfigInv, [CrashNext]_vars
               PROVE  OneConfigInv'
    OBVIOUS
  <2>1. ASSUME NEW t \in Targets, NEW c \in Requests, NEW force \in BOOLEAN,
               Call(t, c, force)
        PROVE  OneConfigInv'
    BY <2>1 DEF Call, OneConfigInv, ResultFaithful, Faithful
  <2>2. ASSUME NEW t \in Targets, Unlink(t) PROVE OneConfigInv'
    BY <2>2 DEF Unlink, OneConfigInv, ResultFaithful, Faithful, callVars
  <2>3. ASSUME NEW t \in Targets, Make(t) PROVE OneConfigInv'
    <3>1. pc = "running" /\ UNCHANGED <<pc, knobs, result>>
      BY <2>3 DEF Make, callVars
    <3>2. knobs \in Requests
      BY <3>1 DEF OneConfigInv
    <3>3. \A u \in Present : tree[u] = Fresh(knobs, u)
      BY <3>2 DEF OneConfigInv
    <3>4. \A u \in Present' : tree'[u] = Fresh(knobs, u)
      BY <2>3, <3>3, MakeExtendsFresh
    <3>5. QED
      BY <3>1, <3>2, <3>4 DEF OneConfigInv, ResultFaithful, Faithful
  <2>4. ASSUME NEW rc \in {"ok", "error", "killed"}, Return(rc) PROVE OneConfigInv'
    <3>1. \A u \in Present : tree[u] = Fresh(knobs, u)
      BY <2>4 DEF Return, ResultOf, Passed, OneConfigInv
    <3>2. Faithful(result')
      BY <2>4, <3>1, ReturnReadsFresh
    <3>3. QED
      BY <2>4, <3>2 DEF Return, ResultOf, Passed, OneConfigInv, ResultFaithful, Faithful
  <2>5. ASSUME NEW torn \in BOOLEAN, Crash(torn) PROVE OneConfigInv'
    BY <2>5 DEF Crash, OneConfigInv, ResultFaithful, Faithful
  <2>6. CASE UNCHANGED vars
    BY <2>6 DEF vars, OneConfigInv, ResultFaithful, Faithful
  <2>7. QED
    BY <2>1, <2>2, <2>3, <2>4, <2>5, <2>6 DEF CrashNext, Next
<1>3. OneConfigInv => ResultFaithful
  BY DEF OneConfigInv
<1>4. QED
  BY <1>1, <1>2, <1>3, CrashTypes, PTL DEF CrashSpec

-----------------------------------------------------------------------------
(***************************************************************************)
(* Deleting everything first.                                              *)
(***************************************************************************)

RebuildInv ==
    /\ pc = "running" /\ cut = 1 =>
          \A t \in Present \ doomed : tree[t] = Fresh(knobs, t)
    /\ FullRebuildFaithful

\* Whatever crashes did to a tree before, a call that invalidated from the
\* first stage answers faithfully.
THEOREM FullRebuildCrashSafe == CrashSpec => []FullRebuildFaithful
<1> USE DEF Present
<1>1. Init => RebuildInv
  BY DEF Init, RebuildInv, FullRebuildFaithful
<1>2. CrashTypeOK /\ RebuildInv /\ [CrashNext]_vars => RebuildInv'
  <2> SUFFICES ASSUME CrashTypeOK, RebuildInv, [CrashNext]_vars
               PROVE  RebuildInv'
    OBVIOUS
  <2>1. ASSUME NEW t \in Targets, NEW c \in Requests, NEW force \in BOOLEAN,
               Call(t, c, force)
        PROVE  RebuildInv'
    <3>1. \A u \in DOMAIN tree : 1 <= Prefix(u)
      BY PrefixMonotone, UpstreamIsClosure DEF CrashTypeOK, Stages
    <3>2. cut' = 1 => doomed' = DOMAIN tree
      BY <2>1, <3>1 DEF Call, NumberedFrom
    <3>3. QED
      BY <2>1, <3>2 DEF Call, RebuildInv, FullRebuildFaithful, Faithful
  <2>2. ASSUME NEW t \in Targets, Unlink(t) PROVE RebuildInv'
    BY <2>2 DEF Unlink, RebuildInv, FullRebuildFaithful, Faithful, callVars
  <2>3. ASSUME NEW t \in Targets, Make(t) PROVE RebuildInv'
    <3>1. /\ pc = "running" /\ doomed = {}
          /\ UNCHANGED <<pc, knobs, cut, result, doomed>>
      BY <2>3 DEF Make, callVars
    <3>2. ASSUME cut = 1
          PROVE  \A u \in Present' : tree'[u] = Fresh(knobs, u)
      <4>1. \A u \in Present : tree[u] = Fresh(knobs, u)
        BY <3>1, <3>2 DEF RebuildInv
      <4>2. QED
        BY <2>3, <4>1, MakeExtendsFresh
    <3>3. QED
      BY <3>1, <3>2 DEF RebuildInv, FullRebuildFaithful, Faithful
  <2>4. ASSUME NEW rc \in {"ok", "error", "killed"}, Return(rc) PROVE RebuildInv'
    <3>1. ASSUME cut = 1 PROVE Faithful(result')
      <4>1. \A u \in Present : tree[u] = Fresh(knobs, u)
        BY <2>4, <3>1 DEF Return, ResultOf, Passed, RebuildInv
      <4>2. QED
        BY <2>4, <4>1, ReturnReadsFresh
    <3>2. result'.invalidatedFrom = cut /\ pc' = "idle"
      BY <2>4 DEF Return, ResultOf, Passed
    <3>3. QED
      BY <3>1, <3>2 DEF RebuildInv, FullRebuildFaithful, Faithful
  <2>5. ASSUME NEW torn \in BOOLEAN, Crash(torn) PROVE RebuildInv'
    BY <2>5 DEF Crash, RebuildInv, FullRebuildFaithful, Faithful
  <2>6. CASE UNCHANGED vars
    BY <2>6 DEF vars, RebuildInv, FullRebuildFaithful, Faithful
  <2>7. QED
    BY <2>1, <2>2, <2>3, <2>4, <2>5, <2>6 DEF CrashNext, Next
<1>3. RebuildInv => FullRebuildFaithful
  BY DEF RebuildInv
<1>4. QED
  BY <1>1, <1>2, <1>3, CrashTypes, PTL DEF CrashSpec
=============================================================================
