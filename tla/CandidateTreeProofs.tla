------------------------ MODULE CandidateTreeProofs ------------------------
(***************************************************************************)
(* Proofs about CandidateTree, for any flow, knobs, conservative stage     *)
(* table, seeds and number of attempts: whichever worker dies and when.    *)
(***************************************************************************)
EXTENDS CandidateTree, WorkHomeProofs

-----------------------------------------------------------------------------
(***************************************************************************)
(* The inductive invariant.                                                *)
(***************************************************************************)

\* Answers about c that a from-scratch build with c would have given.
Told(c) ==
    {r \in [rc : {"ok", "error", "killed"}, success : BOOLEAN,
            target : Targets, knobs : {c},
            checkpoint : SUBSET {Fresh(c, t) : t \in Targets},
            report : SUBSET {Fresh(c, t) : t \in Targets},
            invalidatedFrom : 0..N] : Faithful(r)}

JobTypes ==
    /\ seed \in Seeds /\ want \in Requests
    /\ quick \in BOOLEAN /\ promoted \in BOOLEAN
    /\ promoted => quick
    /\ phase \in {"queued", "branching", "flow", "done", "lost"}
    /\ copied \subseteq Stages
    /\ todo \in {<<>>, <<Gate>>, <<N>>, <<Gate, N>>}
    /\ results \in Seq(Told(want)) /\ Len(results) <= 2
    /\ attempts \in 0..MaxAttempts
    /\ phase = "queued" => attempts < MaxAttempts
    /\ phase \in {"branching", "flow"} => attempts # 0

\* The call in progress is the one run_flow is waiting for.
CallOfFlow ==
    /\ pc = "idle" => doomed = {}
    /\ pc = "running" =>
          /\ phase = "flow" /\ knobs = want /\ ~ forced
          /\ target = Head(todo)

\* A file is the candidate's own or a copy from its seed; a file of the seed
\* is there only as long as the manifest, read before make starts, says so.
Own(t) == tree[t] = Fresh(want, t)

OfSeed(t) == tree[t] = Fresh(seed.knobs, t)

Origin ==
    /\ \A t \in Present : Own(t) \/ (OfSeed(t) /\ seed.upTo # 0)
    /\ phase = "flow" =>
          \A t \in Present : Own(t) \/ (OfSeed(t) /\ manifest = seed.knobs)
    /\ pc = "running" => \A t \in Present \ doomed : Own(t)
    /\ phase = "done" \/ promoted => \A t \in Present : Own(t)

\* A promotion finds the manifest of the quick build, or none.
Recorded ==
    /\ phase = "done" \/ promoted => manifest \in {want, NoRecord}
    /\ promoted /\ manifest = want => doomed = {}

\* What run_flow has collected and what it has still to run.
GatePassed ==
    /\ Len(results) = 1
    /\ results[1].success /\ results[1].target = Gate

FlowSteps ==
    /\ phase = "branching" => ~ promoted /\ todo = Plan /\ results = <<>>
    /\ phase = "flow" =>
          \/ todo = Plan /\ results = <<>>
          \/ ~ quick /\ todo = <<N>> /\ GatePassed
    /\ FlowShape

TreeInv ==
    /\ TypeOK
    /\ JobTypes
    /\ CallOfFlow
    /\ Origin
    /\ Recorded
    /\ FlowSteps
    /\ Faithful(result)

-----------------------------------------------------------------------------
(***************************************************************************)
(* The task: starting it, branching, promoting.                            *)
(***************************************************************************)

\* The constants a candidate is made of.
LEMMA JobConstants ==
    ASSUME JobTypes
    PROVE  /\ seed.knobs \in Configs /\ seed.upTo \in 0..N
           /\ want \in Configs
           /\ Gate \in Targets /\ N \in Targets /\ Gate < N
           /\ Gate \in Nat /\ N \in Nat /\ MaxAttempts \in Nat \ {0}
BY TreeAssumption, RequestsAssumption, NAssumption DEF JobTypes, Targets

LEMMA TreeInitially == TreeInit => TreeInv
<1> SUFFICES ASSUME TreeInit PROVE TreeInv
  OBVIOUS
<1>1. TypeOK /\ Faithful(result) /\ Init
  BY InitInv DEF TreeInit, IInv, ResultFaithful
<1>2. Present = {} /\ doomed = {} /\ pc = "idle" /\ manifest = NoRecord
  BY DEF TreeInit, Init, Present
<1>3. JobTypes
  <2>1. <<>> \in Seq(Told(want)) /\ Len(<<>>) <= 2
    OBVIOUS
  <2>2. 0 \in 0..MaxAttempts /\ 0 < MaxAttempts
    BY TreeAssumption
  <2>3. promoted => quick
    BY DEF TreeInit
  <2>4. QED
    BY <2>1, <2>2, <2>3 DEF TreeInit, JobTypes
<1>4. want # NoRecord
  BY <1>3, JobConstants, RequestsAssumption
<1>5. Origin /\ Recorded /\ CallOfFlow
  BY <1>2, <1>4 DEF TreeInit, Origin, Recorded, CallOfFlow
<1>6. FlowSteps
  BY DEF TreeInit, FlowSteps, FlowShape
<1>7. QED
  BY <1>1, <1>3, <1>5, <1>6 DEF TreeInv

LEMMA PlanShape ==
    ASSUME JobTypes
    PROVE  /\ Plan \in {<<Gate>>, <<N>>, <<Gate, N>>}
           /\ ~ quick /\ ~ promoted => Plan = <<Gate, N>>
           /\ quick \/ promoted => Plan \in {<<Gate>>, <<N>>}
BY DEF JobTypes, Plan

\* What is left of a plan after its first stage.
LEMMA PlanTail ==
    ASSUME JobTypes
    PROVE  /\ Tail(Plan) \in {<<>>, <<N>>}
           /\ Tail(Plan) = <<>> => Len(Plan) = 1
           /\ Tail(Plan) # <<>> => Plan = <<Gate, N>> /\ Tail(Plan) = <<N>>
           /\ Head(Plan) = Plan[1] /\ Plan # <<>>
<1>1. CASE Plan = <<Gate>>
  BY <1>1
<1>2. CASE Plan = <<N>>
  BY <1>2
<1>3. CASE Plan = <<Gate, N>>
  <2>1. Tail(<<Gate, N>>) = <<N>> /\ Head(<<Gate, N>>) = <<Gate, N>>[1]
    OBVIOUS
  <2>2. <<N>> # <<>> /\ <<Gate, N>> # <<>>
    OBVIOUS
  <2>3. QED
    BY <1>3, <2>1, <2>2
<1>4. QED
  BY <1>1, <1>2, <1>3, PlanShape

LEMMA StartStep ==
    ASSUME TreeInv, Start
    PROVE  TreeInv'
<1>1. /\ phase = "queued" /\ phase' = IF promoted THEN "flow" ELSE "branching"
      /\ attempts' = attempts + 1 /\ copied' = {} /\ todo' = Plan /\ results' = <<>>
      /\ seed' = seed /\ want' = want /\ quick' = quick /\ promoted' = promoted
      /\ UNCHANGED vars
  BY DEF Start
<1>2. JobTypes'
  <2>1. attempts' \in 0..MaxAttempts
    BY <1>1, JobConstants DEF TreeInv, JobTypes
  <2>2. Plan \in {<<Gate>>, <<N>>, <<Gate, N>>}
    BY PlanShape DEF TreeInv
  <2>3. <<>> \in Seq(Told(want)') /\ Len(<<>>) <= 2
    OBVIOUS
  <2>4. QED
    BY <1>1, <2>1, <2>2, <2>3 DEF TreeInv, JobTypes
<1>3. TypeOK' /\ Faithful(result)'
  BY <1>1 DEF vars, TreeInv, TypeOK, ContentOK, Faithful, Present
<1>4. pc = "idle" /\ pc' = "idle" /\ doomed' = {} /\ CallOfFlow'
  BY <1>1 DEF vars, TreeInv, TypeOK, CallOfFlow
<1>5. Origin' /\ Recorded'
  BY <1>1, <1>4 DEF vars, TreeInv, Origin, Recorded, Own, OfSeed, Present
<1>6. FlowSteps'
  <2>1. Plan' = Plan
    BY <1>1 DEF Plan
  <2>2. QED
    BY <1>1, <2>1 DEF FlowSteps, FlowShape
<1>7. QED
  BY <1>2, <1>3, <1>4, <1>5, <1>6 DEF TreeInv

LEMMA CopyFileStep ==
    ASSUME TreeInv, NEW t \in Stages, CopyFile(t)
    PROVE  TreeInv'
<1> USE DEF Present
<1>1. /\ phase = "branching" /\ t \in ToCopy
      /\ DOMAIN tree' = DOMAIN tree \cup {t}
      /\ tree'[t] = Fresh(seed.knobs, t)
      /\ \A u \in DOMAIN tree : u # t => tree'[u] = tree[u]
      /\ outdated' = outdated \ {t}
      /\ copied' = copied \cup {t}
      /\ UNCHANGED <<manifest, pc, callVars, doomed, result, seed, want, quick,
                     phase, promoted, todo, results, attempts>>
  BY DEF CopyFile
<1>2. t \in Targets /\ seed.upTo # 0
  BY <1>1, NAssumption DEF ToCopy, Targets, Stages, TreeInv, JobTypes
<1>3. pc = "idle" /\ pc' = "idle" /\ doomed = {} /\ doomed' = {} /\ ~ promoted
  BY <1>1 DEF TreeInv, CallOfFlow, FlowSteps, TypeOK
<1>4. TypeOK'
  <2>1. ContentOK(t, tree'[t])
    BY <1>1, <1>2, FreshTyped, JobConstants DEF TreeInv
  <2>2. \A u \in DOMAIN tree' : ContentOK(u, tree'[u])
    BY <1>1, <2>1 DEF TreeInv, TypeOK
  <2>3. (\A u \in DOMAIN tree : ContentOK(u, tree[u]))'
    BY <2>2 DEF ContentOK
  <2>4. QED
    BY <1>1, <1>2, <1>3, <2>3 DEF TreeInv, TypeOK, callVars
<1>5. JobTypes'
  <2>1. Told(want)' = Told(want)
    BY <1>1 DEF Told
  <2>2. QED
    BY <1>1, <2>1 DEF TreeInv, JobTypes
<1>6. Origin'
  BY <1>1, <1>2, <1>3 DEF TreeInv, Origin, Own, OfSeed
<1>7. CallOfFlow' /\ Recorded'
  BY <1>1, <1>3 DEF CallOfFlow, Recorded
<1>8. FlowSteps'
  <2>1. Plan' = Plan
    BY <1>1 DEF Plan
  <2>2. QED
    BY <1>1, <2>1 DEF TreeInv, FlowSteps, FlowShape
<1>9. Faithful(result)'
  BY <1>1 DEF TreeInv, Faithful
<1>10. QED
  BY <1>4, <1>5, <1>6, <1>7, <1>8, <1>9 DEF TreeInv

LEMMA CopyManifestStep ==
    ASSUME TreeInv, CopyManifest
    PROVE  TreeInv'
<1> USE DEF Present
<1>1. /\ phase = "branching" /\ phase' = "flow"
      /\ manifest' = IF seed.upTo = 0 THEN NoKnobs ELSE seed.knobs
      /\ UNCHANGED <<tree, outdated, pc, callVars, doomed, result, seed, want,
                     quick, promoted, copied, todo, results, attempts>>
  BY DEF CopyManifest
<1>2. pc = "idle" /\ pc' = "idle" /\ doomed = {} /\ doomed' = {} /\ ~ promoted
  BY <1>1 DEF TreeInv, CallOfFlow, FlowSteps, TypeOK
<1>3. TypeOK'
  <2>1. manifest' \in Configs
    BY <1>1, JobConstants DEF TreeInv, NoKnobs, Configs
  <2>2. QED
    BY <1>1, <2>1 DEF TreeInv, TypeOK, ContentOK, callVars
<1>4. JobTypes'
  <2>1. Told(want)' = Told(want)
    BY <1>1 DEF Told
  <2>2. QED
    BY <1>1, <2>1 DEF TreeInv, JobTypes
<1>5. Origin'
  BY <1>1, <1>2 DEF TreeInv, Origin, Own, OfSeed
<1>6. CallOfFlow' /\ Recorded'
  BY <1>1, <1>2 DEF CallOfFlow, Recorded
<1>7. FlowSteps'
  <2>1. Plan' = Plan
    BY <1>1 DEF Plan
  <2>2. QED
    BY <1>1, <2>1 DEF TreeInv, FlowSteps, FlowShape
<1>8. Faithful(result)'
  BY <1>1 DEF TreeInv, Faithful
<1>9. QED
  BY <1>3, <1>4, <1>5, <1>6, <1>7, <1>8 DEF TreeInv

LEMMA PromoteTreeStep ==
    ASSUME TreeInv, Promote
    PROVE  TreeInv'
<1> USE DEF Present
<1>1. /\ phase = "done" /\ quick /\ phase' = "queued" /\ promoted' = TRUE
      /\ attempts' = 0
      /\ UNCHANGED vars /\ UNCHANGED <<seed, want, quick, copied, todo, results>>
  BY DEF Promote
<1>2. pc = "idle" /\ pc' = "idle" /\ doomed' = {}
  BY <1>1 DEF vars, TreeInv, CallOfFlow, TypeOK
<1>3. TypeOK' /\ Faithful(result)'
  BY <1>1 DEF vars, TreeInv, TypeOK, ContentOK, Faithful
<1>4. JobTypes'
  <2>1. Told(want)' = Told(want)
    BY <1>1 DEF Told
  <2>2. 0 \in 0..MaxAttempts /\ 0 < MaxAttempts
    BY JobConstants DEF TreeInv
  <2>3. QED
    BY <1>1, <2>1, <2>2 DEF TreeInv, JobTypes
<1>5. Origin' /\ Recorded' /\ CallOfFlow'
  BY <1>1, <1>2 DEF vars, TreeInv, Origin, Recorded, CallOfFlow, Own, OfSeed
<1>6. FlowSteps'
  BY <1>1 DEF FlowSteps, FlowShape
<1>7. QED
  BY <1>3, <1>4, <1>5, <1>6 DEF TreeInv

-----------------------------------------------------------------------------
(***************************************************************************)
(* The stages of the flow.                                                 *)
(***************************************************************************)

\* A call that resumes under the knobs on record deletes nothing.
LEMMA SameKnobsKeepAll ==
    ASSUME NEW c \in Configs
    PROVE  InvalidateFrom(c, c, FALSE) = 0
<1>1. Changed(c, c) = {}
  BY RequestsAssumption DEF Changed
<1>2. QED
  BY <1>1 DEF InvalidateFrom

LEMMA RunStageStep ==
    ASSUME TreeInv, RunStage
    PROVE  TreeInv'
<1> USE DEF Present
<1>1. /\ phase = "flow" /\ pc = "idle" /\ pc' = "running"
      /\ target' = Head(todo) /\ knobs' = want /\ forced' = FALSE
      /\ cut' = InvalidateFrom(manifest, want, FALSE)
      /\ doomed' = IF cut' = 0 THEN {} ELSE NumberedFrom(cut', DOMAIN tree)
      /\ UNCHANGED <<tree, outdated, manifest, result>>
      /\ UNCHANGED <<seed, want, quick, phase, promoted, copied, todo, results,
                     attempts>>
  BY DEF RunStage, Call, jobVars
<1>2. /\ want \in Configs /\ seed.knobs \in Configs /\ doomed = {}
      /\ manifest \in Configs \cup {NoRecord} /\ DOMAIN tree \subseteq Targets
  BY <1>1, JobConstants DEF TreeInv, CallOfFlow, TypeOK
<1>3. cut' \in 0..N
  BY <1>1, <1>2, InvalidateFromTyped
<1>4. \A u \in DOMAIN tree : u \in doomed' <=> cut' # 0 /\ cut' <= Prefix(u)
  <2>1. \A u \in DOMAIN tree : Prefix(u) \in Int
    BY <1>2, PrefixMonotone, UpstreamIsClosure DEF Stages
  <2>2. QED
    BY <1>1, <1>3, <2>1 DEF NumberedFrom
<1>5. todo \in {<<Gate>>, <<N>>, <<Gate, N>>}
  BY <1>1, PlanShape DEF TreeInv, FlowSteps
<1>6. Head(todo) \in Targets
  BY <1>5, JobConstants DEF TreeInv
<1>7. TypeOK'
  <2>1. doomed' \subseteq DOMAIN tree
    BY <1>1 DEF NumberedFrom
  <2>2. QED
    BY <1>1, <1>2, <1>3, <1>6, <2>1 DEF TreeInv, TypeOK, ContentOK
<1>8. JobTypes'
  <2>1. Told(want)' = Told(want)
    BY <1>1 DEF Told
  <2>2. QED
    BY <1>1, <2>1 DEF TreeInv, JobTypes
<1>9. CallOfFlow'
  BY <1>1 DEF CallOfFlow
<1>10. \A u \in DOMAIN tree : u \notin doomed' => Own(u)
  <2> SUFFICES ASSUME NEW u \in DOMAIN tree, u \notin doomed', ~ Own(u)
               PROVE  FALSE
    OBVIOUS
  <2>1. OfSeed(u) /\ manifest = seed.knobs
    BY <1>1 DEF TreeInv, Origin
  <2>2. cut' # 0 => ~ (cut' <= Prefix(u))
    BY <1>4
  <2>3. InvalidateFrom(seed.knobs, want, FALSE) # 0 =>
           ~ (InvalidateFrom(seed.knobs, want, FALSE) <= Prefix(u))
    BY <1>1, <2>1, <2>2
  <2>4. Fresh(seed.knobs, u) = Fresh(want, u)
    <3>1. u \in Targets /\ FALSE \in BOOLEAN
      BY <1>2
    <3>2. QED
      BY <1>2, <2>3, <3>1, SparedIsFresh
  <2>5. QED
    BY <2>1, <2>4 DEF Own, OfSeed
<1>11. Origin'
  <2>1. \A u \in DOMAIN tree : /\ Own(u)' <=> Own(u)
                               /\ OfSeed(u)' <=> OfSeed(u)
    BY <1>1 DEF Own, OfSeed
  <2>2. \A u \in DOMAIN tree' : Own(u)' \/ (OfSeed(u)' /\ seed'.upTo # 0)
    BY <1>1, <2>1 DEF TreeInv, Origin
  <2>3. \A u \in DOMAIN tree' : Own(u)' \/ (OfSeed(u)' /\ manifest' = seed'.knobs)
    BY <1>1, <2>1 DEF TreeInv, Origin
  <2>4. \A u \in DOMAIN tree' \ doomed' : Own(u)'
    BY <1>1, <1>10, <2>1
  <2>5. promoted' => \A u \in DOMAIN tree' : Own(u)'
    BY <1>1, <2>1 DEF TreeInv, Origin
  <2>6. QED
    BY <1>1, <2>2, <2>3, <2>4, <2>5 DEF Origin
<1>12. Recorded'
  <2>1. manifest = want => doomed' = {}
    BY <1>1, <1>2, SameKnobsKeepAll
  <2>2. QED
    BY <1>1, <2>1 DEF TreeInv, Recorded
<1>13. FlowSteps'
  <2>1. Plan' = Plan
    BY <1>1 DEF Plan
  <2>2. QED
    BY <1>1, <2>1 DEF TreeInv, FlowSteps, FlowShape, GatePassed
<1>14. Faithful(result)'
  BY <1>1 DEF TreeInv, Faithful
<1>15. QED
  BY <1>7, <1>8, <1>9, <1>11, <1>12, <1>13, <1>14 DEF TreeInv

\* What a step of make or of the deletion leaves alone.
LEMMA StageFrame ==
    ASSUME TreeInv, UNCHANGED jobVars, UNCHANGED <<pc, callVars, result, manifest>>,
           pc = "running", doomed' \subseteq doomed
    PROVE  JobTypes' /\ CallOfFlow' /\ Recorded' /\ FlowSteps' /\ Faithful(result)'
<1>1. Told(want)' = Told(want) /\ Plan' = Plan
  BY DEF Told, Plan, jobVars
<1>2. JobTypes'
  BY <1>1 DEF TreeInv, JobTypes, jobVars
<1>3. CallOfFlow' /\ Recorded'
  BY DEF TreeInv, CallOfFlow, Recorded, jobVars, callVars
<1>4. FlowSteps'
  BY <1>1 DEF TreeInv, FlowSteps, FlowShape, GatePassed, jobVars
<1>5. Faithful(result)'
  BY DEF TreeInv, Faithful
<1>6. QED
  BY <1>2, <1>3, <1>4, <1>5

LEMMA UnlinkStep ==
    ASSUME TreeInv, NEW t \in Targets, Unlink(t), UNCHANGED jobVars
    PROVE  TreeInv'
<1> USE DEF Present
<1>1. /\ pc = "running" /\ t \in doomed
      /\ DOMAIN tree' = DOMAIN tree \ {t}
      /\ \A u \in DOMAIN tree' : tree'[u] = tree[u]
      /\ outdated' = outdated \ {t} /\ doomed' = doomed \ {t}
      /\ UNCHANGED <<manifest, pc, callVars, result>>
  BY DEF Unlink
<1>2. TypeOK'
  BY <1>1 DEF TreeInv, TypeOK, ContentOK, callVars
<1>3. Origin'
  BY <1>1 DEF TreeInv, Origin, Own, OfSeed, jobVars
<1>4. JobTypes' /\ CallOfFlow' /\ Recorded' /\ FlowSteps' /\ Faithful(result)'
  BY <1>1, StageFrame
<1>5. QED
  BY <1>2, <1>3, <1>4 DEF TreeInv

\* make finds nothing but the candidate's own artifacts and adds to them.
LEMMA MakeOwn ==
    ASSUME TreeInv, NEW t \in Targets, Make(t)
    PROVE  /\ \A u \in Present : tree[u] = Fresh(want, u)
           /\ DOMAIN tree' = Present \cup {t}
           /\ \A u \in DOMAIN tree' : tree'[u] = Fresh(want, u)
           /\ \A u \in Present : tree'[u] = tree[u]
<1>1. pc = "running" /\ doomed = {} /\ knobs = want
  BY DEF Make, TreeInv, CallOfFlow
<1>2. \A u \in Present : tree[u] = Fresh(knobs, u)
  BY <1>1 DEF TreeInv, Origin, Own
<1>3. CrashTypeOK
  BY DEF TreeInv, TypeOK, CrashTypeOK
<1>4. \A u \in Present' : tree'[u] = Fresh(knobs, u)
  BY <1>2, <1>3, MakeExtendsFresh
<1>5. DOMAIN tree' = Present \cup {t}
  BY DEF Make
<1>6. QED
  BY <1>1, <1>2, <1>4, <1>5 DEF Present

LEMMA MakeStep ==
    ASSUME TreeInv, NEW t \in Targets, Make(t), UNCHANGED jobVars
    PROVE  TreeInv'
<1> USE DEF Present
<1>1. /\ pc = "running" /\ doomed = {} /\ doomed' = {}
      /\ outdated' = (outdated \ {t}) \cup {u \in DOMAIN tree : t \in Upstream(u)}
      /\ UNCHANGED <<manifest, pc, callVars, result>>
  BY DEF Make
<1>2. /\ DOMAIN tree' = DOMAIN tree \cup {t}
      /\ \A u \in DOMAIN tree' : tree'[u] = Fresh(want, u)
  BY MakeOwn
<1>3. want' = want /\ want \in Configs
  BY JobConstants DEF TreeInv, jobVars
<1>4. TypeOK'
  <2>1. DOMAIN tree' \subseteq Targets
    BY <1>2 DEF TreeInv, TypeOK
  <2>2. \A u \in DOMAIN tree' : ContentOK(u, tree'[u])
    BY <1>2, <1>3, <2>1, FreshTyped
  <2>3. (\A u \in DOMAIN tree : ContentOK(u, tree[u]))'
    BY <2>2 DEF ContentOK
  <2>4. outdated' \subseteq DOMAIN tree'
    BY <1>1, <1>2 DEF TreeInv, TypeOK
  <2>5. QED
    BY <1>1, <2>1, <2>3, <2>4 DEF TreeInv, TypeOK, callVars
<1>5. Origin'
  BY <1>2, <1>3 DEF Origin, Own
<1>6. JobTypes' /\ CallOfFlow' /\ Recorded' /\ FlowSteps' /\ Faithful(result)'
  BY <1>1, StageFrame
<1>7. QED
  BY <1>4, <1>5, <1>6 DEF TreeInv

\* What a stage returns is the candidate's own answer.
LEMMA StageAnswers ==
    ASSUME TreeInv, NEW rc \in {"ok", "error", "killed"}, Return(rc)
    PROVE  /\ result' \in Told(want)
           /\ result'.target = Head(todo) /\ result'.success \in BOOLEAN
           /\ phase = "flow"
           /\ \A u \in Present : Own(u)
<1> USE DEF Present
<1>1. /\ pc = "running" /\ doomed = {}
      /\ result' = ResultOf(rc, Passed(rc))
  BY DEF Return
<1>2. /\ phase = "flow" /\ knobs = want /\ target = Head(todo)
      /\ target \in Targets /\ cut \in 0..N
  BY <1>1 DEF TreeInv, CallOfFlow, TypeOK
<1>3. \A u \in DOMAIN tree : Own(u)
  BY <1>1 DEF TreeInv, Origin
<1>4. \A u \in DOMAIN tree : tree[u] = Fresh(knobs, u)
  BY <1>2, <1>3 DEF Own
<1>5. CrashTypeOK
  BY DEF TreeInv, TypeOK, CrashTypeOK
<1>6. Faithful(result')
  BY <1>4, <1>5, ReturnReadsFresh
<1>7. Passed(rc) \in BOOLEAN /\ N \in Targets
  BY JobConstants DEF Passed, TreeInv
<1>8. {tree[u] : u \in {target} \cap DOMAIN tree} \in
         SUBSET {Fresh(want, u) : u \in Targets}
  BY <1>2, <1>4
<1>9. {tree[u] : u \in {N} \cap DOMAIN tree} \in
         SUBSET {Fresh(want, u) : u \in Targets}
  BY <1>2, <1>4, <1>7
<1>10. result' \in Told(want)
  BY <1>1, <1>2, <1>6, <1>7, <1>8, <1>9 DEF Told, ResultOf
<1>11. QED
  BY <1>1, <1>2, <1>3, <1>7, <1>10 DEF ResultOf

LEMMA StageReturnsStep ==
    ASSUME TreeInv, NEW rc \in {"ok", "error", "killed"}, StageReturns(rc)
    PROVE  TreeInv'
<1> USE DEF Present
<1> DEFINE r == result'
<1>1. /\ Return(rc)
      /\ results' = Append(results, r)
      /\ todo' = IF r.success THEN Tail(todo) ELSE <<>>
      /\ phase' = IF todo' = <<>> THEN "done" ELSE "flow"
      /\ UNCHANGED <<seed, want, quick, promoted, copied, attempts>>
  BY DEF StageReturns
<1>2. /\ r \in Told(want) /\ r.target = Head(todo) /\ r.success \in BOOLEAN
      /\ phase = "flow" /\ \A u \in DOMAIN tree : Own(u)
  BY <1>1, StageAnswers
<1>3. /\ pc = "running" /\ pc' = "idle" /\ doomed = {} /\ doomed' = {}
      /\ manifest' = knobs /\ knobs = want /\ want \in Configs
      /\ UNCHANGED <<tree, outdated, target, knobs, forced, cut>>
  BY <1>1, JobConstants DEF Return, TreeInv, CallOfFlow, callVars
<1>4. TypeOK'
  <2>1. /\ r.rc \in {"none", "ok", "error", "killed"}
        /\ r.target \in Targets /\ r.knobs \in Configs
        /\ r.invalidatedFrom \in 0..N
    BY <1>2, <1>3 DEF Told
  <2> HIDE DEF r
  <2>2. /\ result'.rc \in {"none", "ok", "error", "killed"}
        /\ result'.success \in BOOLEAN
        /\ result'.target \in Targets /\ result'.knobs \in Configs
        /\ result'.invalidatedFrom \in 0..N
    BY <1>2, <2>1 DEF r
  <2>3. QED
    BY <1>3, <2>2 DEF TreeInv, TypeOK, ContentOK
<1> HIDE DEF r
<1>5. Plan' = Plan /\ Told(want)' = Told(want)
  BY <1>1 DEF Plan, Told
<1>6. results \in Seq(Told(want))
  BY DEF TreeInv, JobTypes
<1>7. /\ results' \in Seq(Told(want)) /\ Len(results') = Len(results) + 1
      /\ results'[Len(results) + 1] = r
      /\ \A i \in 1..Len(results) : results'[i] = results[i]
  BY <1>1, <1>2, <1>6
<1>8. ASSUME todo = Plan, results = <<>>
      PROVE  JobTypes' /\ FlowSteps'
  <2>1. /\ Len(results) = 0 /\ Len(results') = 1 /\ results'[1] = r
    BY <1>7, <1>8
  <2>2. /\ Tail(Plan) \in {<<>>, <<N>>}
        /\ Tail(Plan) = <<>> => Len(Plan) = 1
        /\ Tail(Plan) # <<>> => Plan = <<Gate, N>> /\ Tail(Plan) = <<N>>
        /\ Head(Plan) = Plan[1]
    BY PlanTail DEF TreeInv
  <2>8. todo' = IF r.success THEN Tail(Plan) ELSE <<>>
    BY <1>1, <1>8
  <2>3. r.target = Plan[1]
    BY <1>2, <1>8, <2>2
  <2>4. JobTypes'
    <3>1. todo' \in {<<>>, <<N>>}
      BY <2>2, <2>8
    <3>2. phase' \in {"done", "flow"}
      BY <1>1
    <3>3. results' \in Seq(Told(want)')
      BY <1>5, <1>7
    <3>4. QED
      BY <1>1, <1>2, <2>1, <3>1, <3>2, <3>3 DEF TreeInv, JobTypes
  <2>5. CASE todo' = <<>>
    <3>1. phase' = "done"
      BY <1>1, <2>5
    <3>2. r.success => Len(Plan) = 1
      BY <2>2, <2>5, <2>8
    <3>3. FlowShape'
      BY <1>5, <2>1, <2>3, <3>2 DEF FlowShape
    <3>4. QED
      BY <2>4, <3>1, <3>3 DEF FlowSteps
  <2>6. CASE todo' # <<>>
    <3>1. phase' = "flow" /\ r.success
      BY <1>1, <2>6
    <3>2. Plan = <<Gate, N>> /\ todo' = <<N>>
      BY <2>2, <2>6, <2>8, <3>1
    <3>3. ~ quick
      <4>1. <<Gate, N>> # <<Gate>> /\ <<Gate, N>> # <<N>>
        OBVIOUS
      <4>2. QED
        BY <3>2, <4>1, PlanShape DEF TreeInv
    <3>4. GatePassed'
      BY <2>1, <2>3, <3>1, <3>2 DEF GatePassed
    <3>5. QED
      BY <1>1, <2>4, <3>1, <3>2, <3>3, <3>4 DEF FlowSteps, FlowShape
  <2>7. QED
    BY <2>4, <2>5, <2>6
<1>9. ASSUME ~ quick, todo = <<N>>, GatePassed
      PROVE  JobTypes' /\ FlowSteps'
  <2>1. /\ Len(results') = 2 /\ results'[1] = results[1] /\ results'[2] = r
        /\ results[1].success /\ results[1].target = Gate
    BY <1>6, <1>7, <1>9 DEF GatePassed
  <2>2. Plan = <<Gate, N>>
    <3>1. ~ promoted
      BY <1>9 DEF TreeInv, JobTypes
    <3>2. QED
      BY <1>9, <3>1, PlanShape DEF TreeInv
  <2>3. todo' = <<>> /\ phase' = "done" /\ r.target = N
    BY <1>1, <1>2, <1>9
  <2>4. JobTypes'
    <3>1. results' \in Seq(Told(want)')
      BY <1>5, <1>7
    <3>2. QED
      BY <1>1, <2>1, <2>3, <3>1 DEF TreeInv, JobTypes
  <2>5. FlowShape'
    <3>1. Plan'[1] = Gate /\ Plan'[2] = N /\ Len(Plan') = 2
      BY <1>5, <2>2
    <3>11. results' \in Seq(Told(want)) /\ Len(results') = 2
      BY <1>7, <2>1
    <3>12. DOMAIN results' = 1..Len(results')
      BY <3>11
    <3>13. results' # <<>>
      BY <3>11
    <3>2. DOMAIN results' = 1..2 /\ results' # <<>>
      BY <3>11, <3>12, <3>13
    <3>3. \A i \in 1..2 : results'[i].target = Plan'[i]
      BY <2>1, <2>3, <3>1
    <3>4. \A i \in 1..1 : results'[i].success
      BY <2>1
    <3>5. Len(results') - 1 = 1
      BY <2>1
    <3>6. QED
      BY <2>1, <3>1, <3>2, <3>3, <3>4, <3>5 DEF FlowShape
  <2>6. QED
    BY <2>3, <2>4, <2>5 DEF FlowSteps
<1>10. JobTypes' /\ FlowSteps'
  BY <1>2, <1>8, <1>9 DEF TreeInv, FlowSteps
<1>11. Origin' /\ Recorded' /\ CallOfFlow'
  BY <1>1, <1>2, <1>3 DEF Origin, Recorded, CallOfFlow, Own
<1>12. Faithful(result)'
  BY <1>2 DEF Told, Faithful, r
<1>13. QED
  BY <1>4, <1>10, <1>11, <1>12 DEF TreeInv

-----------------------------------------------------------------------------
(***************************************************************************)
(* Deaths.                                                                 *)
(***************************************************************************)

LEMMA WorkerDiesStep ==
    ASSUME TreeInv, NEW torn \in BOOLEAN, WorkerDies(torn)
    PROVE  TreeInv'
<1> USE DEF Present
<1>1. /\ phase \in {"branching", "flow"}
      /\ phase' = IF attempts < MaxAttempts THEN "queued" ELSE "lost"
      /\ UNCHANGED <<seed, want, quick, promoted, copied, todo, results, attempts>>
      /\ UNCHANGED <<tree, outdated, target, knobs, forced, cut, result>>
      /\ manifest' = IF torn THEN NoRecord ELSE manifest
  BY DEF WorkerDies, Crash, callVars
<1>2. pc' = "idle" /\ doomed' = {}
  BY DEF WorkerDies, Crash, callVars, TreeInv, CallOfFlow, TypeOK
<1>3. TypeOK'
  BY <1>1, <1>2 DEF TreeInv, TypeOK, ContentOK
<1>4. JobTypes'
  <2>1. Told(want)' = Told(want)
    BY <1>1 DEF Told
  <2>2. phase' \in {"queued", "lost"}
    BY <1>1
  <2>3. phase' = "queued" => attempts' < MaxAttempts
    BY <1>1
  <2>4. QED
    BY <1>1, <2>1, <2>2, <2>3 DEF TreeInv, JobTypes
<1>5. phase' \notin {"branching", "flow", "done"}
  BY <1>1
<1>6. Origin' /\ CallOfFlow'
  BY <1>1, <1>2, <1>5 DEF TreeInv, Origin, CallOfFlow, Own, OfSeed
<1>7. Recorded'
  BY <1>1, <1>2, <1>5 DEF TreeInv, Recorded
<1>8. FlowSteps'
  BY <1>5 DEF FlowSteps, FlowShape
<1>9. Faithful(result)'
  BY <1>1 DEF TreeInv, Faithful
<1>10. QED
  BY <1>3, <1>4, <1>6, <1>7, <1>8, <1>9 DEF TreeInv

LEMMA StageDiesStep ==
    ASSUME TreeInv, NEW torn \in BOOLEAN, StageDies(torn)
    PROVE  TreeInv'
<1> USE DEF Present
<1>1. /\ attempts < MaxAttempts /\ attempts' = attempts + 1
      /\ UNCHANGED <<seed, want, quick, phase, promoted, copied, todo, results>>
      /\ UNCHANGED <<tree, outdated, target, knobs, forced, cut, result>>
      /\ manifest' = IF torn THEN NoRecord ELSE manifest
      /\ pc = "running" /\ pc' = "idle" /\ doomed' = {}
      /\ torn => doomed = {}
  BY DEF StageDies, Crash, callVars
<1>2. phase = "flow"
  BY <1>1 DEF TreeInv, CallOfFlow
<1>3. TypeOK'
  BY <1>1 DEF TreeInv, TypeOK, ContentOK
<1>4. JobTypes'
  <2>1. Told(want)' = Told(want)
    BY <1>1 DEF Told
  <2>2. attempts' \in 0..MaxAttempts
    BY <1>1, JobConstants DEF TreeInv, JobTypes
  <2>3. QED
    BY <1>1, <1>2, <2>1, <2>2 DEF TreeInv, JobTypes
<1>5. Origin'
  <2>1. torn => \A u \in DOMAIN tree : Own(u)
    BY <1>1 DEF TreeInv, Origin
  <2>2. QED
    BY <1>1, <2>1 DEF TreeInv, Origin, Own, OfSeed
<1>6. CallOfFlow' /\ Recorded'
  BY <1>1 DEF TreeInv, CallOfFlow, Recorded
<1>7. FlowSteps'
  <2>1. Plan' = Plan
    BY <1>1 DEF Plan
  <2>2. QED
    BY <1>1, <2>1 DEF TreeInv, FlowSteps, FlowShape, GatePassed
<1>8. Faithful(result)'
  BY <1>1 DEF TreeInv, Faithful
<1>9. QED
  BY <1>3, <1>4, <1>5, <1>6, <1>7, <1>8 DEF TreeInv

LEMMA TreeStutter ==
    ASSUME TreeInv, UNCHANGED treeVars
    PROVE  TreeInv'
<1>1. UNCHANGED vars /\ UNCHANGED jobVars
  BY DEF treeVars
<1>2. Told(want)' = Told(want) /\ Plan' = Plan
  BY <1>1 DEF Told, Plan, jobVars
<1>3. TypeOK' /\ Faithful(result)'
  BY <1>1 DEF TreeInv, TypeOK, ContentOK, Faithful, Present, vars
<1>4. JobTypes'
  BY <1>1, <1>2 DEF TreeInv, JobTypes, jobVars
<1>5. CallOfFlow' /\ Recorded' /\ Origin'
  BY <1>1 DEF TreeInv, CallOfFlow, Recorded, Origin, Own, OfSeed, Present,
     vars, jobVars
<1>6. FlowSteps'
  BY <1>1, <1>2 DEF TreeInv, FlowSteps, FlowShape, GatePassed, jobVars
<1>7. QED
  BY <1>3, <1>4, <1>5, <1>6 DEF TreeInv

LEMMA TreeInvStep == TreeInv /\ [TreeNext]_treeVars => TreeInv'
<1> SUFFICES ASSUME TreeInv, [TreeNext]_treeVars PROVE TreeInv'
  OBVIOUS
<1>1. CASE Progress
  BY <1>1, StartStep, CopyFileStep, CopyManifestStep, RunStageStep, UnlinkStep,
     MakeStep, StageReturnsStep DEF Progress, StageStep
<1>2. CASE Promote
  BY <1>2, PromoteTreeStep
<1>3. ASSUME NEW torn \in BOOLEAN, WorkerDies(torn) \/ StageDies(torn)
      PROVE  TreeInv'
  BY <1>3, WorkerDiesStep, StageDiesStep
<1>4. CASE UNCHANGED treeVars
  BY <1>4, TreeStutter
<1>5. QED
  BY <1>1, <1>2, <1>3, <1>4 DEF TreeNext

-----------------------------------------------------------------------------
(***************************************************************************)
(* The theorems.                                                           *)
(***************************************************************************)

\* The invariant behind the theorems below holds in every state.
THEOREM TreeInductive == TreeSpec => []TreeInv
BY TreeInitially, TreeInvStep, PTL DEF TreeSpec

\* Type correctness of the directory and of the task that works in it.
THEOREM TreeTypeCorrect == TreeSpec => []TreeTypeOK
<1>1. TreeInv => TreeTypeOK
  BY DEF TreeInv, JobTypes, TreeTypeOK
<1>2. QED
  BY <1>1, TreeInductive, PTL

\* Every result a candidate's flow reports, over every branch, death, retry
\* and promotion, is what a from-scratch build of its own knobs gives.
THEOREM CandidatesFaithful == TreeSpec => []CandidateFaithful
<1>1. TreeInv => CandidateFaithful
  <2> SUFFICES ASSUME TreeInv, NEW i \in DOMAIN results
               PROVE  results[i].knobs = want /\ Faithful(results[i])
    BY DEF CandidateFaithful
  <2>1. results[i] \in Told(want)
    BY DEF TreeInv, JobTypes
  <2>2. QED
    BY <2>1 DEF Told
<1>2. QED
  BY <1>1, TreeInductive, PTL

\* run_flow reports successes in order and at most one failure, the last.
THEOREM FlowsShaped == TreeSpec => []FlowShape
<1>1. TreeInv => FlowShape
  BY DEF TreeInv, FlowSteps
<1>2. QED
  BY <1>1, TreeInductive, PTL

\* make starts in a directory that holds the candidate's own artifacts only,
\* whatever branching has mixed before.
THEOREM ArtifactsAreOwn == TreeSpec => []OwnArtifacts
<1>1. TreeInv => OwnArtifacts
  BY DEF TreeInv, Origin, Own, OwnArtifacts
<1>2. QED
  BY <1>1, TreeInductive, PTL

-----------------------------------------------------------------------------
(***************************************************************************)
(* What a step may do to the files.                                        *)
(***************************************************************************)

Gated ==
    \A t \in DOMAIN tree' \ Present :
        Prefix(t) > Gate =>
           \/ promoted
           \/ /\ results # <<>>
              /\ results[1].success
              /\ results[1].target = Gate

\* The steps that touch the files are copies, deletions and make's.
LEMMA WhoTouchesTree ==
    ASSUME TreeNext
    PROVE  \/ tree' = tree
           \/ \E t \in Stages : CopyFile(t)
           \/ \E t \in Targets : Unlink(t) /\ UNCHANGED jobVars
           \/ \E t \in Targets : Make(t) /\ UNCHANGED jobVars
<1>1. Start \/ CopyManifest \/ Promote => tree' = tree
  BY DEF Start, CopyManifest, Promote, vars
<1>2. RunStage => tree' = tree
  BY DEF RunStage, Call
<1>3. ASSUME NEW rc \in {"ok", "error", "killed"}, StageReturns(rc)
      PROVE  tree' = tree
  BY <1>3 DEF StageReturns, Return
<1>4. ASSUME NEW torn \in BOOLEAN, WorkerDies(torn) \/ StageDies(torn)
      PROVE  tree' = tree
  BY <1>4 DEF WorkerDies, StageDies, Crash
<1>5. QED
  BY <1>1, <1>2, <1>3, <1>4 DEF TreeNext, Progress, StageStep

\* Nothing behind the gate is built before the gate has passed: for every gate
\* that is not before the stage branching ends with, as with the code's
\* "place" and "cts".
THEOREM GateAlwaysHolds ==
    ASSUME Through <= Gate
    PROVE  TreeSpec => GateHolds
<1> USE DEF Present
<1>1. ASSUME TreeInv, TreeNext PROVE Gated
  <2> USE <1>1
  <2>0. Gate \in Nat /\ N \in Nat /\ Gate < N /\ Through \in Nat
    BY JobConstants, TreeAssumption DEF TreeInv, Stages
  <2>1. CASE tree' = tree
    BY <2>1 DEF Gated
  <2>2. ASSUME NEW t \in Stages, CopyFile(t) PROVE Gated
    <3>1. DOMAIN tree' = DOMAIN tree \cup {t} /\ Prefix(t) <= Through
      BY <2>2 DEF CopyFile, ToCopy
    <3>2. Prefix(t) \in Nat
      BY <2>0 DEF Prefix, Stages
    <3>3. ~ (Prefix(t) > Gate)
      BY <2>0, <3>1, <3>2
    <3>4. QED
      BY <3>1, <3>3 DEF Gated
  <2>3. ASSUME NEW t \in Targets, Unlink(t) PROVE Gated
    BY <2>3 DEF Unlink, Gated
  <2>4. ASSUME NEW t \in Targets, Make(t) PROVE Gated
    <3>1. /\ DOMAIN tree' = DOMAIN tree \cup {t} /\ pc = "running"
          /\ t \in Closure(target)
      BY <2>4 DEF Make
    <3>2. phase = "flow" /\ target = Head(todo)
      BY <3>1 DEF TreeInv, CallOfFlow
    <3> SUFFICES ASSUME Prefix(t) > Gate, ~ promoted
                 PROVE  GatePassed
      BY <3>1 DEF Gated, GatePassed
    <3>3. target # Gate
      <4> SUFFICES ASSUME target = Gate PROVE FALSE
        OBVIOUS
      <4>1. Prefix(t) <= Prefix(Gate) /\ Prefix(t) \in Nat
        BY <3>1, JobConstants, PrefixMonotone DEF TreeInv, Stages
      <4>2. Prefix(Gate) = Gate
        BY <2>0 DEF Prefix
      <4>3. QED
        BY <2>0, <4>1, <4>2
    <3>4. Plan \in {<<Gate>>, <<Gate, N>>}
      BY DEF Plan
    <3>5. todo = Plan => Head(todo) = Gate
      BY <3>4
    <3>6. QED
      BY <3>2, <3>3, <3>5 DEF TreeInv, FlowSteps
  <2>5. QED
    BY <2>1, <2>2, <2>3, <2>4, WhoTouchesTree
<1>2. TreeInv /\ [TreeNext]_treeVars => [Gated]_treeVars
  BY <1>1
<1>3. [][Gated]_treeVars => GateHolds
  <2>1. [Gated]_treeVars =>
          [\A t \in DOMAIN tree' \ Present :
              Prefix(t) > Gate =>
                 \/ promoted
                 \/ /\ results # <<>>
                    /\ results[1].success
                    /\ results[1].target = Gate]_treeVars
    BY DEF Gated
  <2>2. QED
    BY <2>1, PTL DEF GateHolds
<1>4. QED
  BY <1>2, <1>3, TreeInductive, PTL DEF TreeSpec

Resumes ==
    promoted /\ manifest # NoRecord =>
        \A t \in Present : t \in DOMAIN tree' /\ tree'[t] = tree[t]

\* A promotion resumes from the quick build: worker deaths included, it loses
\* no checkpoint as long as the manifest can be read.
THEOREM PromotionsResume == TreeSpec => PromotionResumes
<1> USE DEF Present
<1>1. ASSUME TreeInv, TreeNext PROVE Resumes
  <2> USE <1>1
  <2>1. CASE tree' = tree
    BY <2>1 DEF Resumes
  <2>2. ASSUME NEW t \in Stages, CopyFile(t) PROVE Resumes
    <3>1. ~ promoted
      BY <2>2 DEF CopyFile, TreeInv, FlowSteps
    <3>2. QED
      BY <3>1 DEF Resumes
  <2>3. ASSUME NEW t \in Targets, Unlink(t) PROVE Resumes
    <3>1. doomed # {}
      BY <2>3 DEF Unlink
    <3>2. QED
      BY <3>1 DEF Resumes, TreeInv, Recorded
  <2>4. ASSUME NEW t \in Targets, Make(t) PROVE Resumes
    BY <2>4, MakeOwn DEF Resumes
  <2>5. QED
    BY <2>1, <2>2, <2>3, <2>4, WhoTouchesTree
<1>2. TreeInv /\ [TreeNext]_treeVars => [Resumes]_treeVars
  BY <1>1
<1>3. [][Resumes]_treeVars => PromotionResumes
  <2>1. [Resumes]_treeVars =>
          [promoted /\ manifest # NoRecord =>
              \A t \in Present : t \in DOMAIN tree' /\ tree'[t] = tree[t]]_treeVars
    BY DEF Resumes
  <2>2. QED
    BY <2>1, PTL DEF PromotionResumes
<1>4. QED
  BY <1>2, <1>3, TreeInductive, PTL DEF TreeSpec

-----------------------------------------------------------------------------
(***************************************************************************)
(* What the driver sees of all this: a task that waits, runs and ends with *)
(* an outcome of run_flow's (BuildTask).                                   *)
(***************************************************************************)

\* A flow that ends has run its gate, or its gate and the last stage, or the
\* last stage alone, as the plan says.
LEMMA ReportsOutcome ==
    ASSUME TreeInv, NEW rc \in {"ok", "error", "killed"}, StageReturns(rc),
           phase' = "done"
    PROVE  Report' \in Job!Outcomes(quick, promoted)
<1> DEFINE r == result'
           name(t) == IF t = Gate THEN "gate" ELSE "finish"
           told(x) == [stage |-> name(x.target), success |-> x.success]
<1>1. /\ results' = Append(results, r)
      /\ todo' = IF r.success THEN Tail(todo) ELSE <<>>
      /\ r.target = Head(todo) /\ r.success \in BOOLEAN
      /\ phase = "flow" /\ todo' = <<>>
  BY StageAnswers DEF StageReturns
<1>2. Gate # N
  BY JobConstants DEF TreeInv
<1>3. Report' = [i \in DOMAIN results' |-> told(results'[i])]
  BY DEF Report
<1> HIDE DEF r
<1>4. CASE todo = Plan /\ results = <<>>
  <2>1. results' = <<r>>
    BY <1>1, <1>4
  <2> HIDE DEF told
  <2>2. Report' = <<told(r)>>
    BY <1>3, <2>1
  <2>3. r.target = Plan[1]
    BY <1>1, <1>4, PlanTail DEF TreeInv
  <2>4. quick \/ promoted => Plan = IF promoted THEN <<N>> ELSE <<Gate>>
    BY DEF Plan
  <2>5. ~ quick /\ ~ promoted => Plan = <<Gate, N>> /\ ~ r.success
    <3>1. Tail(<<Gate, N>>) # <<>>
      OBVIOUS
    <3>2. QED
      BY <1>1, <1>4, <3>1 DEF Plan
  <2>6. Plan[1] = IF promoted THEN N ELSE Gate
    BY DEF Plan
  <2>7. told(r) = [stage |-> IF promoted THEN "finish" ELSE "gate",
                   success |-> r.success]
    BY <1>2, <2>3, <2>6 DEF told
  <2>8. QED
    BY <1>1, <2>2, <2>5, <2>7 DEF Job!Outcomes
<1>5. CASE ~ quick /\ todo = <<N>> /\ GatePassed
  <2>1. /\ results \in Seq(Told(want)) /\ Len(results) = 1 /\ ~ promoted
        /\ results[1].success /\ results[1].target = Gate
    BY <1>5 DEF TreeInv, JobTypes, GatePassed
  <2>2. results = <<results[1]>> /\ results[1].success = TRUE
    BY <2>1 DEF Told
  <2>3. results' = <<results[1], r>>
    <3>1. results \in Seq(Told(want)) /\ r \in Told(want)
      BY <2>1, StageAnswers DEF StageReturns, r
    <3>2. /\ results' \in Seq(Told(want)) /\ Len(results') = 2
          /\ results'[1] = results[1] /\ results'[2] = r
      <4>1. results' = Append(results, r)
        BY <1>1
      <4>2. /\ results' \in Seq(Told(want)) /\ Len(results') = Len(results) + 1
            /\ results'[Len(results) + 1] = r
            /\ \A i \in 1..Len(results) : results'[i] = results[i]
        BY <3>1, <4>1
      <4>3. QED
        BY <2>1, <4>2
    <3>3. ASSUME NEW s \in Seq(Told(want)), Len(s) = 2 PROVE s = <<s[1], s[2]>>
      BY <3>3
    <3>4. QED
      BY <3>2, <3>3
  <2>4. r.target = N
    BY <1>1, <1>5
  <2>5. told(results[1]) = [stage |-> "gate", success |-> TRUE]
    BY <2>1, <2>2
  <2>6. told(r) = [stage |-> "finish", success |-> r.success]
    BY <1>2, <2>4
  <2> HIDE DEF told
  <2>7. Report' = <<told(results[1]), told(r)>>
    BY <1>3, <2>3
  <2>8. QED
    BY <1>1, <1>5, <2>1, <2>5, <2>6, <2>7 DEF Job!Outcomes
<1>6. QED
  BY <1>1, <1>4, <1>5 DEF TreeInv, FlowSteps

\* Every step of the directory is a step of the task or none.
LEMMA JobStep ==
    ASSUME TreeInv, [TreeNext]_treeVars
    PROVE  [Job!Next]_Job!taskVars
<1> USE DEF Job!taskVars
<1>1. attempts \in 0..MaxAttempts /\ MaxAttempts \in Nat \ {0}
  BY JobConstants DEF TreeInv, JobTypes
<1>2. CASE Start
  <2>1. Report = <<>> /\ Report' = <<>> /\ JobState' = "running"
    BY <1>1, <1>2 DEF Start, Report, JobState
  <2>2. JobState \in {"waiting", "running"}
    BY <1>2 DEF Start, JobState
  <2>3. QED
    BY <1>2, <2>1, <2>2 DEF Start, Job!Next, Job!Place
<1>3. ASSUME phase \in {"branching", "flow"}, phase' \in {"branching", "flow"},
             UNCHANGED <<quick, promoted>>
      PROVE  [Job!Next]_Job!taskVars
  BY <1>3 DEF Report, JobState
<1>4. ASSUME NEW t \in Stages, CopyFile(t) PROVE [Job!Next]_Job!taskVars
  BY <1>3, <1>4 DEF CopyFile
<1>5. CASE CopyManifest
  BY <1>3, <1>5 DEF CopyManifest
<1>6. CASE RunStage
  BY <1>3, <1>6 DEF RunStage, jobVars
<1>7. CASE StageStep
  <2>1. phase = "flow" /\ UNCHANGED jobVars
    BY <1>7 DEF StageStep, Unlink, Make, TreeInv, CallOfFlow
  <2>2. QED
    BY <1>3, <2>1 DEF jobVars
<1>8. ASSUME NEW rc \in {"ok", "error", "killed"}, StageReturns(rc)
      PROVE  [Job!Next]_Job!taskVars
  <2>1. phase = "flow" /\ phase' \in {"flow", "done"} /\ UNCHANGED <<quick, promoted>>
    BY <1>8, StageAnswers DEF StageReturns
  <2>2. CASE phase' = "flow"
    BY <1>3, <2>1, <2>2
  <2>3. CASE phase' = "done"
    <3>1. Report' \in Job!Outcomes(quick, promoted)
      BY <1>8, <2>3, ReportsOutcome
    <3>2. JobState = "running" /\ JobState' = "done"
      BY <2>1, <2>3 DEF JobState
    <3>3. QED
      BY <2>1, <3>1, <3>2 DEF Job!Next, Job!Finish
  <2>4. QED
    BY <2>1, <2>2, <2>3
<1>9. ASSUME NEW torn \in BOOLEAN, WorkerDies(torn)
      PROVE  [Job!Next]_Job!taskVars
  <2>1. /\ phase \in {"branching", "flow"} /\ phase' \in {"queued", "lost"}
        /\ UNCHANGED <<quick, promoted, attempts>> /\ attempts # 0
    BY <1>9 DEF WorkerDies, TreeInv, JobTypes
  <2>2. Report = <<>> /\ Report' = <<>> /\ JobState = "running"
    BY <2>1 DEF Report, JobState
  <2>3. JobState' \in {"running", "done"}
    BY <2>1 DEF JobState
  <2>4. <<>> \in Job!Outcomes(quick, promoted)
    BY DEF Job!Outcomes
  <2>5. QED
    BY <2>1, <2>2, <2>3, <2>4 DEF Job!Next, Job!Finish
<1>10. ASSUME NEW torn \in BOOLEAN, StageDies(torn)
       PROVE  [Job!Next]_Job!taskVars
  <2>1. phase = "flow" /\ UNCHANGED <<phase, quick, promoted>>
    BY <1>10 DEF StageDies, Crash, TreeInv, CallOfFlow
  <2>2. QED
    BY <1>3, <2>1
<1>11. CASE Promote
  <2>1. /\ phase = "done" /\ quick /\ ~ promoted /\ results[Len(results)].success
        /\ phase' = "queued" /\ promoted' = TRUE /\ attempts' = 0
        /\ UNCHANGED <<quick, results>>
    BY <1>11 DEF Promote
  <2>2. results \in Seq(Told(want)) /\ results # <<>>
    BY <2>1 DEF TreeInv, JobTypes, FlowSteps, FlowShape
  <2>3. Len(results) \in Nat \ {0} /\ DOMAIN results = 1..Len(results)
    BY <2>2
  <2>4. DOMAIN Report = 1..Len(results) /\ Report = [i \in 1..Len(results) |-> Report[i]]
    BY <2>1, <2>3 DEF Report
  <2>5. Len(Report) = Len(results) /\ Report # <<>>
    BY <2>3, <2>4
  <2>6. Report[Len(Report)].success
    BY <2>1, <2>3, <2>5 DEF Report
  <2>7. Report' = <<>> /\ JobState = "done" /\ JobState' = "waiting"
    BY <2>1 DEF Report, JobState
  <2>8. QED
    BY <2>1, <2>5, <2>6, <2>7 DEF Job!Next, Job!Promote
<1>12. CASE UNCHANGED treeVars
  BY <1>12 DEF treeVars, jobVars, Report, JobState
<1>13. QED
  BY <1>2, <1>4, <1>5, <1>6, <1>7, <1>8, <1>9, <1>10, <1>11, <1>12
     DEF TreeNext, Progress

\* The whole of a candidate's work, with its directory, branching, deaths and
\* retries, is to the driver one task with one of run_flow's outcomes: what
\* the agent tool's model assumes of it.
THEOREM CandidateIsATask == TreeSpec => ImplementsTask
<1>1. TreeInit => Job!Init
  BY DEF TreeInit, Job!Init, Report, JobState
<1>2. TreeInv /\ [TreeNext]_treeVars => [Job!Next]_Job!taskVars
  BY JobStep
<1>3. QED
  BY <1>1, <1>2, TreeInductive, PTL DEF TreeSpec, ImplementsTask, Job!Spec

-----------------------------------------------------------------------------
(***************************************************************************)
(* Every step takes something off what is left (Descent).                  *)
(***************************************************************************)

\* What makes a tuple smaller, place by place.
LEMMA Shrinks ==
    ASSUME NEW a, NEW b, DOMAIN a = 1..8, NEW i \in 1..8,
           a[i] \subseteq b[i], a[i] # b[i],
           \A j \in 1..8 : j < i => a[j] = b[j]
    PROVE  Less(a, b)
BY DEF Less

\* The first numbers of a shorter list are fewer.
LEMMA Shorter ==
    ASSUME NEW m \in Nat, NEW n \in Nat, m < n
    PROVE  1..m \subseteq 1..n /\ 1..m # 1..n
<1>1. n \in 1..n /\ n \notin 1..m
  OBVIOUS
<1>2. QED
  BY <1>1

\* The places of Left, and how far a phase is from the end.
Ahead(p) == [branching |-> 3, flow |-> 2, queued |-> 1, done |-> 0, lost |-> 0][p]

InPlace ==
    /\ DOMAIN Left = 1..8
    /\ Left[1] = IF promoted THEN {} ELSE {"promotion"}
    /\ Left[2] = (attempts + 1)..MaxAttempts
    /\ Left[3] = 1..Ahead(phase)
    /\ Left[4] = 1..Len(todo)
    /\ Left[5] = IF pc = "idle" THEN {"call"} ELSE {}
    /\ Left[6] = doomed
    /\ Left[7] = ToCopy
    /\ Left[8] = {t \in Closure(target) : ~ (Closure(t) \subseteq UpToDate)}

LEMMA Places == InPlace /\ InPlace'
BY DEF InPlace, Left, Ahead

LEMMA PhasesAhead ==
    /\ Ahead("branching") = 3 /\ Ahead("flow") = 2 /\ Ahead("queued") = 1
    /\ Ahead("done") = 0 /\ Ahead("lost") = 0
BY DEF Ahead

\* One start less.
LEMMA StartTaken ==
    ASSUME TreeInv, attempts < MaxAttempts, attempts' = attempts + 1,
           promoted' = promoted
    PROVE  Less(Left', Left)
<1>1. attempts \in Nat /\ MaxAttempts \in Nat
  BY JobConstants DEF TreeInv, JobTypes
<1>2. /\ attempts + 1 \in (attempts + 1)..MaxAttempts
      /\ attempts + 1 \notin (attempts' + 1)..MaxAttempts
      /\ (attempts' + 1)..MaxAttempts \subseteq (attempts + 1)..MaxAttempts
  BY <1>1
<1>3. Left'[2] \subseteq Left[2] /\ Left'[2] # Left[2]
  BY <1>2, Places DEF InPlace
<1>4. \A j \in 1..8 : j < 2 => Left'[j] = Left[j]
  <2>1. Left'[1] = Left[1]
    BY Places DEF InPlace
  <2>2. QED
    BY <2>1
<1>5. DOMAIN Left' = 1..8
  BY Places DEF InPlace
<1>6. QED
  BY <1>3, <1>4, <1>5, Shrinks

\* Closer to the end, at the same start.
LEMMA PhaseTaken ==
    ASSUME UNCHANGED <<promoted, attempts>>,
           Ahead(phase) \in Nat, Ahead(phase') \in Nat, Ahead(phase') < Ahead(phase)
    PROVE  Less(Left', Left)
<1>1. Left'[3] \subseteq Left[3] /\ Left'[3] # Left[3]
  BY Places, Shorter DEF InPlace
<1>2. \A j \in 1..8 : j < 3 => Left'[j] = Left[j]
  <2>1. Left'[1] = Left[1] /\ Left'[2] = Left[2]
    BY Places DEF InPlace
  <2>2. QED
    BY <2>1
<1>3. DOMAIN Left' = 1..8
  BY Places DEF InPlace
<1>4. QED
  BY <1>1, <1>2, <1>3, Shrinks

\* What make has built at last is not to be built again, and what it makes
\* outdated was to be built anyway.
LEMMA BuiltOnce ==
    ASSUME TreeInv, NEW t \in Targets, Make(t)
    PROVE  LET left == {u \in Closure(target) : ~ (Closure(u) \subseteq UpToDate)}
           IN  left' \subseteq left /\ t \in left /\ t \notin left'
<1> DEFINE left == {u \in Closure(target) : ~ (Closure(u) \subseteq UpToDate)}
<1>1. /\ t \in Closure(target) \ UpToDate /\ Closure(t) \ {t} \subseteq UpToDate
      /\ DOMAIN tree' = Present \cup {t} /\ target' = target
      /\ outdated' = (outdated \ {t}) \cup {u \in Present : t \in Upstream(u)}
  BY DEF Make, Upstream, callVars
<1>2. target \in Targets /\ N \in Nat \ {0}
  BY NAssumption DEF TreeInv, TypeOK
<1>3. \A u \in Targets : t \in Closure(u) => Closure(t) \subseteq Closure(u)
  BY <1>2 DEF Closure, Targets
<1>4. \A u \in Closure(t) : u # t => t \notin Closure(u)
  BY <1>2 DEF Closure, Targets
<1>5. \A u \in Closure(target) : u \in Targets
  BY DEF Closure
<1>6. t \in left
  BY <1>1, <1>2, UpstreamIsClosure
<1>7. UpToDate' = (UpToDate \cup {t}) \ {u \in Present : t \in Upstream(u)}
  <2>1. t \notin Upstream(t)
    BY DEF Upstream
  <2>2. QED
    BY <1>1, <2>1 DEF UpToDate, Present
<1>8. t \notin left'
  <2>1. ASSUME NEW u \in Closure(t) PROVE u \in UpToDate'
    BY <1>1, <1>4, <1>7, <2>1 DEF Upstream
  <2>2. QED
    BY <2>1
<1>9. left' \subseteq left
  <2> SUFFICES ASSUME NEW u \in Closure(target), Closure(u) \subseteq UpToDate
               PROVE  Closure(u) \subseteq UpToDate'
    BY <1>1
  <2>1. t \notin Closure(u)
    BY <1>1
  <2>2. ASSUME NEW v \in Closure(u) PROVE t \notin Upstream(v)
    <3>1. Closure(v) \subseteq Closure(u)
      BY <1>2, <1>5, <2>2 DEF Closure, Targets
    <3>2. QED
      BY <2>1, <3>1 DEF Upstream
  <2>3. QED
    BY <1>7, <2>2
<1>10. QED
  BY <1>6, <1>8, <1>9

LEMMA StepAdvances == TreeInv /\ TreeNext => Less(Left', Left)
<1> SUFFICES ASSUME TreeInv, TreeNext PROVE Less(Left', Left)
  OBVIOUS
<1>1. CASE Start
  <2>1. attempts < MaxAttempts /\ attempts' = attempts + 1 /\ promoted' = promoted
    BY <1>1 DEF Start, TreeInv, JobTypes
  <2>2. QED
    BY <2>1, StartTaken
<1>2. ASSUME NEW t \in Stages, CopyFile(t) PROVE Less(Left', Left)
  <2>1. /\ UNCHANGED <<promoted, attempts, phase, todo, pc, doomed, seed>>
        /\ t \in ToCopy /\ copied' = copied \cup {t}
    BY <1>2 DEF CopyFile
  <2>2. ToCopy' = ToCopy \ {t}
    BY <2>1 DEF ToCopy
  <2>3. Left'[7] \subseteq Left[7] /\ Left'[7] # Left[7]
    BY <2>1, <2>2, Places DEF InPlace
  <2>4. \A j \in 1..8 : j < 7 => Left'[j] = Left[j]
    <3>1. /\ Left'[1] = Left[1] /\ Left'[2] = Left[2] /\ Left'[3] = Left[3]
          /\ Left'[4] = Left[4] /\ Left'[5] = Left[5] /\ Left'[6] = Left[6]
      BY <2>1, Places DEF InPlace
    <3>2. QED
      BY <3>1
  <2>5. DOMAIN Left' = 1..8
    BY Places DEF InPlace
  <2>6. QED
    BY <2>3, <2>4, <2>5, Shrinks
<1>3. CASE CopyManifest
  <2>1. /\ phase = "branching" /\ phase' = "flow" /\ UNCHANGED <<promoted, attempts>>
    BY <1>3 DEF CopyManifest
  <2>2. QED
    BY <2>1, PhaseTaken, PhasesAhead
<1>4. CASE RunStage
  <2>1. /\ pc = "idle" /\ pc' = "running"
        /\ UNCHANGED <<promoted, attempts, phase, todo>>
    BY <1>4 DEF RunStage, Call, jobVars
  <2>2. Left'[5] = {} /\ Left[5] = {"call"}
    BY <2>1, Places DEF InPlace
  <2>3. \A j \in 1..8 : j < 5 => Left'[j] = Left[j]
    <3>1. /\ Left'[1] = Left[1] /\ Left'[2] = Left[2] /\ Left'[3] = Left[3]
          /\ Left'[4] = Left[4]
      BY <2>1, Places DEF InPlace
    <3>2. QED
      BY <3>1
  <2>4. DOMAIN Left' = 1..8
    BY Places DEF InPlace
  <2>5. QED
    BY <2>2, <2>3, <2>4, Shrinks
<1>5. ASSUME NEW t \in Targets, Unlink(t), UNCHANGED jobVars PROVE Less(Left', Left)
  <2>1. /\ t \in doomed /\ doomed' = doomed \ {t}
        /\ UNCHANGED <<promoted, attempts, phase, todo, pc>>
    BY <1>5 DEF Unlink, jobVars
  <2>2. Left'[6] \subseteq Left[6] /\ Left'[6] # Left[6]
    BY <2>1, Places DEF InPlace
  <2>3. \A j \in 1..8 : j < 6 => Left'[j] = Left[j]
    <3>1. /\ Left'[1] = Left[1] /\ Left'[2] = Left[2] /\ Left'[3] = Left[3]
          /\ Left'[4] = Left[4] /\ Left'[5] = Left[5]
      BY <2>1, Places DEF InPlace
    <3>2. QED
      BY <3>1
  <2>4. DOMAIN Left' = 1..8
    BY Places DEF InPlace
  <2>5. QED
    BY <2>2, <2>3, <2>4, Shrinks
<1>6. ASSUME NEW t \in Targets, Make(t), UNCHANGED jobVars PROVE Less(Left', Left)
  <2>1. /\ UNCHANGED <<promoted, attempts, phase, todo, pc, doomed>> /\ ToCopy' = ToCopy
    BY <1>6 DEF Make, jobVars, ToCopy
  <2>2. Left'[8] \subseteq Left[8] /\ Left'[8] # Left[8]
    BY <1>6, BuiltOnce, Places DEF InPlace
  <2>3. \A j \in 1..8 : j < 8 => Left'[j] = Left[j]
    <3>1. /\ Left'[1] = Left[1] /\ Left'[2] = Left[2] /\ Left'[3] = Left[3]
          /\ Left'[4] = Left[4] /\ Left'[5] = Left[5] /\ Left'[6] = Left[6]
          /\ Left'[7] = Left[7]
      BY <2>1, Places DEF InPlace
    <3>2. QED
      BY <3>1
  <2>4. DOMAIN Left' = 1..8
    BY Places DEF InPlace
  <2>5. QED
    BY <2>2, <2>3, <2>4, Shrinks
<1>7. ASSUME NEW rc \in {"ok", "error", "killed"}, StageReturns(rc)
      PROVE  Less(Left', Left)
  <2>1. /\ phase = "flow" /\ phase' = IF todo' = <<>> THEN "done" ELSE "flow"
        /\ todo' \in {Tail(todo), <<>>} /\ UNCHANGED <<promoted, attempts>>
    BY <1>7, StageAnswers DEF StageReturns
  <2>2. CASE todo' = <<>>
    BY <2>1, <2>2, PhaseTaken, PhasesAhead
  <2>3. CASE todo' # <<>>
    <3>1. todo' = Tail(todo) /\ phase' = phase
      BY <2>1, <2>3
    <3>2. todo = <<Gate, N>> /\ todo' = <<N>>
      <4>1. todo = Plan \/ todo = <<N>>
        BY <2>1 DEF TreeInv, FlowSteps
      <4>2. Tail(<<N>>) = <<>>
        OBVIOUS
      <4>3. QED
        BY <2>3, <3>1, <4>1, <4>2, PlanTail DEF TreeInv
    <3>3. Len(todo) = 2 /\ Len(todo') = 1
      BY <3>2
    <3>4. Left'[4] \subseteq Left[4] /\ Left'[4] # Left[4]
      BY <3>3, Places, Shorter DEF InPlace
    <3>5. \A j \in 1..8 : j < 4 => Left'[j] = Left[j]
      <4>1. /\ Left'[1] = Left[1] /\ Left'[2] = Left[2] /\ Left'[3] = Left[3]
        BY <2>1, <3>1, Places DEF InPlace
      <4>2. QED
        BY <4>1
    <3>6. DOMAIN Left' = 1..8
      BY Places DEF InPlace
    <3>7. QED
      BY <3>4, <3>5, <3>6, Shrinks
  <2>4. QED
    BY <2>2, <2>3
<1>8. ASSUME NEW torn \in BOOLEAN, WorkerDies(torn) PROVE Less(Left', Left)
  <2>1. /\ phase \in {"branching", "flow"} /\ phase' \in {"queued", "lost"}
        /\ UNCHANGED <<promoted, attempts>>
    BY <1>8 DEF WorkerDies
  <2>2. QED
    BY <2>1, PhaseTaken, PhasesAhead
<1>9. ASSUME NEW torn \in BOOLEAN, StageDies(torn) PROVE Less(Left', Left)
  BY <1>9, StartTaken DEF StageDies
<1>10. CASE Promote
  <2>1. Left'[1] = {} /\ Left[1] = {"promotion"}
    BY <1>10, Places DEF Promote, InPlace
  <2>2. \A j \in 1..8 : j < 1 => Left'[j] = Left[j]
    OBVIOUS
  <2>3. DOMAIN Left' = 1..8
    BY Places DEF InPlace
  <2>4. QED
    BY <2>1, <2>2, <2>3, Shrinks
<1>11. QED
  BY <1>1, <1>2, <1>3, <1>4, <1>5, <1>6, <1>7, <1>8, <1>9, <1>10
     DEF TreeNext, Progress, StageStep

\* Whatever dies and is retried, and whatever make finds outdated, a
\* candidate's work goes forward with every step and cannot go on for ever.
THEOREM TaskAlwaysAdvances == TreeSpec => TaskAdvances
<1>1. TreeInv /\ [TreeNext]_treeVars => [Less(Left', Left)]_treeVars
  BY StepAdvances
<1>2. QED
  BY <1>1, TreeInductive, PTL DEF TreeSpec, TaskAdvances
=============================================================================
