--------------------------- MODULE HandoverProofs ---------------------------
(***************************************************************************)
(* Proofs about Handover: every figure, reason and artifact read back from *)
(* a directory belongs to the knobs it is read for, for any number of      *)
(* stages, sub-steps and figures, and any knobs.                           *)
(***************************************************************************)
EXTENDS Handover, WorkHomeProofs, FiniteSetTheorems

-----------------------------------------------------------------------------
(***************************************************************************)
(* The inductive invariant.                                                *)
(***************************************************************************)

\* The knobs whose flow the step files in the directory are of: those of the
\* running call, between calls those of the manifest.
Origin == IF pc = "running" THEN knobs ELSE manifest

\* Every log and every JSON in the directory was written on what these knobs
\* build, and without a manifest there is none.
StepFilesOwn ==
    /\ pc = "idle" /\ manifest = NoRecord => DOMAIN logs = {} /\ DOMAIN jsons = {}
    /\ \A t \in DOMAIN logs : t \in Targets /\ logs[t].content = Fresh(Origin, t)
    /\ \A j \in DOMAIN jsons :
          j \in Stages \X (1..Parts) /\ jsons[j] = Fresh(Origin, j[1])

\* Being written later is a strict order of the logs.
Ordered(l) ==
    \A t \in DOMAIN l :
        /\ l[t].newer \subseteq DOMAIN l \ {t}
        /\ \A u \in l[t].newer : l[u].newer \subseteq l[t].newer

\* A stage whose checkpoint is there, and stays, has reported all its parts.
PartsReported ==
    \A t \in (Present \ doomed) \cap Stages, n \in 1..Parts : <<t, n>> \in DOMAIN jsons

\* A call begins by withdrawing what was handed over from the tree before.
Withdrawn == pc = "running" => clock = NoClock /\ handed = None

HInv ==
    /\ IInv
    /\ StepFilesOwn
    /\ Ordered(logs)
    /\ PartsReported
    /\ Withdrawn
    /\ FiguresOwn
    /\ BlameOwn
    /\ HandedOwn

-----------------------------------------------------------------------------
(***************************************************************************)
(* Picking the newest log.                                                 *)
(***************************************************************************)

\* Of some logs one is the newest.
LEMMA NewestExists ==
    ASSUME NEW l, Ordered(l), DOMAIN l \subseteq Targets,
           NEW S, S \subseteq DOMAIN l, S # {}
    PROVE  Newest(l, S) \in S
<1> DEFINE later(t) == l[t].newer \cap S
           sizes == {Cardinality(later(t)) : t \in S}
<1>1. IsFiniteSet(Targets)
  BY NAssumption, FS_Interval DEF Targets
<1>2. \A t \in S : IsFiniteSet(later(t))
  <2> TAKE t \in S
  <2>1. later(t) \subseteq Targets
    OBVIOUS
  <2>2. QED
    BY <1>1, <2>1, FS_Subset
<1>3. \A t \in S : Cardinality(later(t)) \in Nat
  BY <1>2, FS_CardinalityType
<1>4. sizes \subseteq Nat /\ sizes # {}
  BY <1>3
<1>5. PICK t \in S : \A u \in S : Cardinality(later(t)) <= Cardinality(later(u))
  <2> HIDE DEF sizes
  <2>1. PICK least \in sizes : \A size \in sizes : least <= size
    BY <1>4, LeastNatural
  <2> USE DEF sizes
  <2>2. PICK t \in S : least = Cardinality(later(t))
    OBVIOUS
  <2>3. \A u \in S : Cardinality(later(u)) \in sizes
    OBVIOUS
  <2>4. QED
    BY <2>1, <2>2, <2>3
<1>6. later(t) = {}
  <2> SUFFICES ASSUME NEW u \in later(t) PROVE FALSE
    OBVIOUS
  <2>1. u \in S /\ u \in l[t].newer /\ t \in DOMAIN l /\ u \in DOMAIN l
    OBVIOUS
  <2>2. later(u) \subseteq later(t) /\ u \notin later(u)
    BY <2>1 DEF Ordered
  <2>3. later(u) # later(t)
    BY <2>2
  <2>4. Cardinality(later(u)) < Cardinality(later(t))
    <3> HIDE DEF later
    <3>1. /\ Cardinality(later(u)) <= Cardinality(later(t))
          /\ Cardinality(later(u)) # Cardinality(later(t))
      BY <1>2, <2>1, <2>2, <2>3, FS_Subset
    <3>2. QED
      BY <1>3, <2>1, <3>1
  <2>5. QED
    BY <1>3, <1>5, <2>1, <2>4
<1>7. QED
  BY <1>6 DEF Newest

\* A log that is blamed is one of those considered.
LEMMA BlamedLog ==
    ASSUME NEW l, Ordered(l), DOMAIN l \subseteq Targets,
           NEW S, S \subseteq DOMAIN l, NEW code, NEW c,
           \A t \in DOMAIN l : l[t].content = Fresh(c, t)
    PROVE  Blame(l, S, code).content # None =>
              Blame(l, S, code).content = Fresh(c, Blame(l, S, code).step)
<1>1. CASE S = {}
  BY <1>1 DEF Blame
<1>2. CASE S # {}
  BY <1>2, NewestExists DEF Blame
<1>3. QED
  BY <1>1, <1>2

\* Whatever reason a failed call is given, it is from a log of these.
LEMMA FailureFromLogs ==
    ASSUME NEW l, Ordered(l), DOMAIN l \subseteq Targets, NEW rc, NEW c,
           \A t \in DOMAIN l : l[t].content = Fresh(c, t)
    PROVE  LET f == FailureOf(rc, l)
           IN  f # None /\ f.content # None => f.content = Fresh(c, f.step)
<1>1. Errors(l) \subseteq DOMAIN l
  BY DEF Errors, LastThree
<1>2. ASSUME NEW S, S \subseteq DOMAIN l, NEW code, FailureOf(rc, l) = Blame(l, S, code)
      PROVE  FailureOf(rc, l).content # None =>
                FailureOf(rc, l).content = Fresh(c, FailureOf(rc, l).step)
  <2>1. Blame(l, S, code).content # None =>
           Blame(l, S, code).content = Fresh(c, Blame(l, S, code).step)
    BY <1>2, BlamedLog
  <2>2. QED
    BY <1>2, <2>1
<1>3. \/ FailureOf(rc, l) = Blame(l, Errors(l), l[Newest(l, Errors(l))].says)
      \/ FailureOf(rc, l) = Blame(l, DOMAIN l, "TIMEOUT")
      \/ FailureOf(rc, l) = Blame(l, {}, "signoff")
      \/ FailureOf(rc, l) = None
  BY DEF FailureOf
<1>4. QED
  BY <1>1, <1>2, <1>3

-----------------------------------------------------------------------------
(***************************************************************************)
(* One step at a time.                                                     *)
(***************************************************************************)

\* An empty directory.
LEMMA HInitInv == HInit => HInv
<1> SUFFICES ASSUME HInit PROVE HInv
  OBVIOUS
<1>1. IInv
  BY InitInv DEF HInit
<1>2. DOMAIN logs = {} /\ DOMAIN jsons = {} /\ Present = {}
  BY DEF HInit, Init, Present
<1>3. StepFilesOwn /\ Ordered(logs) /\ PartsReported
  BY <1>2 DEF StepFilesOwn, Ordered, PartsReported
<1>4. Withdrawn /\ FiguresOwn /\ BlameOwn /\ HandedOwn
  BY DEF HInit, Init, Withdrawn, FiguresOwn, BlameOwn, HandedOwn, Untold, NoClock
<1>5. QED
  BY <1>1, <1>3, <1>4 DEF HInv

\* A call deletes the logs and JSONs that the knobs it changes could show in.
LEMMA HCallInv ==
    ASSUME HInv, NEW t \in Asked, NEW c \in Requests, NEW force \in BOOLEAN,
           HCall(t, c, force)
    PROVE  HInv'
<1>0. t \in Targets /\ c \in Configs /\ Call(t, c, force)
  BY HandoverAssumption, RequestsAssumption DEF HCall
<1>1. IInv'
  BY <1>0, CallInv DEF HInv
<1>2. /\ pc = "idle" /\ pc' = "running" /\ knobs' = c
      /\ cut' = InvalidateFrom(manifest, c, force)
      /\ UNCHANGED <<tree, manifest>>
  BY <1>0 DEF Call
<1>3. cut' \in Int
  BY <1>1 DEF IInv, TypeOK
<1>4. ASSUME NEW u \in Targets, Spared(u), manifest # NoRecord
      PROVE  Fresh(manifest, u) = Fresh(c, u)
  <2>1. manifest \in Configs
    BY <1>4 DEF HInv, IInv, TypeOK
  <2>2. Prefix(u) \in Int
    BY PrefixMonotone, UpstreamIsClosure DEF Stages
  <2>3. cut' # 0 => ~ (cut' <= Prefix(u))
    BY <1>3, <1>4, <2>2 DEF Spared
  <2>4. QED
    BY <1>0, <1>2, <2>1, <2>3, SparedIsFresh
<1>5. StepFilesOwn'
  <2>1. ASSUME NEW u \in DOMAIN logs' 
        PROVE  u \in Targets /\ logs'[u].content = Fresh(c, u)
    <3>1. u \in DOMAIN logs /\ Spared(u) /\ logs'[u].content = logs[u].content
      BY <2>1 DEF HCall, Log
    <3>2. manifest # NoRecord /\ u \in Targets /\ logs[u].content = Fresh(manifest, u)
      BY <1>2, <3>1 DEF HInv, StepFilesOwn, Origin
    <3>3. QED
      BY <1>4, <3>1, <3>2
  <2>2. ASSUME NEW j \in DOMAIN jsons'
        PROVE  j \in Stages \X (1..Parts) /\ jsons'[j] = Fresh(c, j[1])
    <3>1. j \in DOMAIN jsons /\ Spared(j[1]) /\ jsons'[j] = jsons[j]
      BY <2>2 DEF HCall
    <3>2. /\ manifest # NoRecord /\ j \in Stages \X (1..Parts)
          /\ jsons[j] = Fresh(manifest, j[1])
      BY <1>2, <3>1 DEF HInv, StepFilesOwn, Origin
    <3>3. j[1] \in Targets
      BY <3>2, NAssumption DEF Stages, Targets
    <3>4. QED
      BY <1>4, <3>1, <3>2, <3>3
  <2>3. QED
    BY <1>2, <2>1, <2>2 DEF StepFilesOwn, Origin
<1>6. Ordered(logs')
  BY DEF HCall, Log, HInv, Ordered
<1>7. PartsReported'
  <2> SUFFICES ASSUME NEW u \in Present \ doomed', u \in Stages, NEW n \in 1..Parts
               PROVE  <<u, n>> \in DOMAIN jsons'
    BY <1>2 DEF PartsReported, Present
  <2>1. u \notin doomed /\ <<u, n>> \in DOMAIN jsons
    BY <1>2 DEF HInv, IInv, Invalidation, PartsReported
  <2>2. Spared(u)
    <3>1. Prefix(u) \in Int
      BY PrefixMonotone, UpstreamIsClosure DEF Stages, HInv, IInv, TypeOK
    <3>2. QED
      BY <1>0, <1>3, <3>1 DEF Call, Spared, NumberedFrom
  <2>3. QED
    BY <2>1, <2>2 DEF HCall
<1>8. Withdrawn' /\ FiguresOwn' /\ BlameOwn' /\ HandedOwn'
  BY DEF HCall, Untold, NoClock, Withdrawn, FiguresOwn, BlameOwn, HandedOwn
<1>9. QED
  BY <1>1, <1>5, <1>6, <1>7, <1>8 DEF HInv

\* Deleting a checkpoint touches nothing that is read back.
LEMMA HUnlinkInv ==
    ASSUME HInv, NEW t \in Targets, HUnlink(t)
    PROVE  HInv'
<1>1. Unlink(t) /\ UNCHANGED handVars
  BY DEF HUnlink
<1>2. /\ pc = "running" /\ UNCHANGED <<pc, knobs, manifest>>
      /\ Present' = Present \ {t} /\ doomed' = doomed \ {t}
  BY <1>1 DEF Unlink, callVars, Present
<1>3. IInv'
  BY <1>1, UnlinkInv DEF HInv
<1>4. StepFilesOwn' /\ Ordered(logs')
  BY <1>1, <1>2 DEF HInv, StepFilesOwn, Origin, Ordered, handVars
<1>5. PartsReported'
  BY <1>1, <1>2 DEF HInv, PartsReported, handVars
<1>6. Withdrawn' /\ FiguresOwn' /\ BlameOwn' /\ HandedOwn'
  BY <1>1, <1>2 DEF HInv, Withdrawn, FiguresOwn, BlameOwn, HandedOwn, handVars, NoClock
<1>7. QED
  BY <1>3, <1>4, <1>5, <1>6 DEF HInv

\* A step that may run works on what the call's knobs build.
LEMMA WorkIsFresh ==
    ASSUME HInv, pc = "running", doomed = {}, NEW t \in Targets,
           Upstream(t) \subseteq UpToDate
    PROVE  Work(t) = Fresh(knobs, t)
<1>1. t # 1 => Needs(t) \in Present
  BY UpstreamIsClosure DEF UpToDate
<1>2. t # 1 => tree[Needs(t)] = Fresh(knobs, Needs(t))
  BY <1>1 DEF HInv, IInv, KeptIsFresh
<1>3. QED
  BY <1>2, ResumeIsFresh DEF Work

\* So do its log and its JSONs, however many parts it gets to.
LEMMA StepFilesAdded ==
    ASSUME HInv, pc = "running", NEW t \in Targets, Work(t) = Fresh(knobs, t),
           NEW text, NEW n \in 0..Parts
    PROVE  /\ Ordered(Logged(t, text))
           /\ \A u \in DOMAIN Logged(t, text) :
                 u \in Targets /\ Logged(t, text)[u].content = Fresh(knobs, u)
           /\ \A j \in DOMAIN Reported(t, n) :
                 /\ j \in Stages \X (1..Parts)
                 /\ Reported(t, n)[j] = Fresh(knobs, j[1])
           /\ DOMAIN jsons \subseteq DOMAIN Reported(t, n)
           /\ t \in Stages => \A i \in 1..n : <<t, i>> \in DOMAIN Reported(t, n)
<1>1. Ordered(Logged(t, text))
  <2> DEFINE l == Logged(t, text)
  <2>1. /\ DOMAIN l = DOMAIN logs \cup {t}
        /\ l[t].newer = {}
        /\ \A u \in DOMAIN logs : u # t => l[u].newer = logs[u].newer \cup {t}
    BY DEF Logged, Log
  <2>2. ASSUME NEW u \in DOMAIN logs, u # t
        PROVE  /\ logs[u].newer \subseteq DOMAIN logs \ {u}
               /\ \A v \in logs[u].newer : v \in DOMAIN logs /\ logs[v].newer \subseteq logs[u].newer
    BY DEF HInv, Ordered
  <2> HIDE DEF l
  <2>3. \A u \in DOMAIN l : l[u].newer \subseteq DOMAIN l \ {u}
    BY <2>1, <2>2
  <2>4. ASSUME NEW u \in DOMAIN l, NEW v \in l[u].newer
        PROVE  l[v].newer \subseteq l[u].newer
    <3>1. u \in DOMAIN logs /\ u # t
      BY <2>1, <2>4
    <3>2. v = t \/ (v # t /\ v \in logs[u].newer)
      BY <2>1, <3>1
    <3>3. CASE v = t
      BY <2>1, <3>3
    <3>4. CASE v # t /\ v \in logs[u].newer
      BY <2>1, <2>2, <3>1, <3>4
    <3>5. QED
      BY <3>2, <3>3, <3>4
  <2>5. QED
    BY <2>3, <2>4 DEF Ordered, l
<1>2. \A u \in DOMAIN Logged(t, text) :
         u \in Targets /\ Logged(t, text)[u].content = Fresh(knobs, u)
  BY DEF Logged, Log, HInv, StepFilesOwn, Origin
<1>3. n \in Nat /\ n <= Parts
  BY HandoverAssumption
<1>4. \A j \in DOMAIN Reported(t, n) :
         /\ j \in Stages \X (1..Parts)
         /\ Reported(t, n)[j] = Fresh(knobs, j[1])
  <2> TAKE j \in DOMAIN Reported(t, n)
  <2> DEFINE new == IF t \in Stages THEN {t} \X (1..n) ELSE {}
  <2>1. Reported(t, n)[j] = IF j \in new THEN Work(t) ELSE jsons[j]
    BY DEF Reported
  <2>2. CASE j \in new
    <3>1. t \in Stages /\ j \in {t} \X (1..n)
      BY <2>2
    <3>2. j \in {t} \X (1..Parts) /\ j[1] = t
      BY <1>3, <3>1, HandoverAssumption
    <3>3. QED
      BY <2>1, <2>2, <3>1, <3>2
  <2>3. CASE j \notin new
    <3>1. j \in DOMAIN jsons
      BY <2>3 DEF Reported
    <3>2. QED
      BY <2>1, <2>3, <3>1 DEF HInv, StepFilesOwn, Origin
  <2>4. QED
    BY <2>2, <2>3
<1>5. DOMAIN jsons \subseteq DOMAIN Reported(t, n)
  BY DEF Reported
<1>6. t \in Stages => \A i \in 1..n : <<t, i>> \in DOMAIN Reported(t, n)
  BY DEF Reported
<1>7. QED
  BY <1>1, <1>2, <1>4, <1>5, <1>6

\* A target that is built leaves its own log and all its JSONs.
LEMMA HMakeInv ==
    ASSUME HInv, NEW t \in Targets, HMake(t)
    PROVE  HInv'
<1>1. /\ Make(t) /\ logs' = Logged(t, None) /\ jsons' = Reported(t, Parts)
      /\ UNCHANGED <<told, emitVars>>
  BY DEF HMake
<1>2. /\ pc = "running" /\ doomed = {} /\ doomed' = {}
      /\ UNCHANGED <<pc, knobs, manifest>>
      /\ Present' = Present \cup {t}
      /\ Upstream(t) \subseteq UpToDate
  BY <1>1 DEF Make, callVars, Present
<1>3. IInv'
  BY <1>1, MakeInv DEF HInv
<1>4. Parts \in 0..Parts
  BY HandoverAssumption
<1>5. /\ Ordered(logs')
      /\ \A u \in DOMAIN logs' : u \in Targets /\ logs'[u].content = Fresh(knobs, u)
      /\ \A j \in DOMAIN jsons' :
            j \in Stages \X (1..Parts) /\ jsons'[j] = Fresh(knobs, j[1])
      /\ DOMAIN jsons \subseteq DOMAIN jsons'
      /\ t \in Stages => \A i \in 1..Parts : <<t, i>> \in DOMAIN jsons'
  BY <1>1, <1>2, <1>4, WorkIsFresh, StepFilesAdded
<1>6. StepFilesOwn'
  BY <1>2, <1>5 DEF StepFilesOwn, Origin
<1>7. PartsReported'
  BY <1>2, <1>5 DEF HInv, PartsReported
<1>8. Withdrawn' /\ FiguresOwn' /\ BlameOwn' /\ HandedOwn'
  BY <1>1, <1>2 DEF HInv, Withdrawn, FiguresOwn, BlameOwn, HandedOwn, emitVars, NoClock
<1>9. QED
  BY <1>3, <1>5, <1>6, <1>7, <1>8 DEF HInv

\* A summary is made of what the JSONs report.
LEMMA SummaryFromJsons ==
    ASSUME NEW js, NEW c,
           \A j \in DOMAIN js : j \in Stages \X (1..Parts) /\ js[j] = Fresh(c, j[1])
    PROVE  \A x \in SummaryOf(js) : \E t \in Stages : x = Fresh(c, t)
<1> SUFFICES ASSUME NEW x \in SummaryOf(js) PROVE \E t \in Stages : x = Fresh(c, t)
  OBVIOUS
<1>1. PICK j \in DOMAIN js : x = js[j]
  BY DEF SummaryOf
<1>2. j[1] \in Stages /\ x = Fresh(c, j[1])
  BY <1>1
<1>3. QED
  BY <1>2

\* What a call reports is read from its own step files, whether it succeeded,
\* failed or was killed.
LEMMA HReturnInv ==
    ASSUME HInv, NEW rc \in {"ok", "error", "killed"}, HReturn(rc)
    PROVE  HInv'
<1>1. /\ Return(rc) /\ Unfinished(rc)
      /\ told' = [knobs |-> knobs, summary |-> SummaryOf(jsons'),
                  failure |-> FailureOf(rc, logs')]
      /\ UNCHANGED emitVars
  BY DEF HReturn
<1>2. /\ pc = "running" /\ pc' = "idle" /\ manifest' = knobs
      /\ doomed = {} /\ doomed' = {} /\ Present' = Present
  BY <1>1 DEF Return, callVars, Present
<1>3. IInv'
  BY <1>1, ReturnInv DEF HInv
<1>4. target \in Targets /\ knobs # NoRecord
  BY RequestsAssumption DEF HInv, IInv, TypeOK
<1>5. /\ Ordered(logs')
      /\ \A u \in DOMAIN logs' : u \in Targets /\ logs'[u].content = Fresh(knobs, u)
      /\ \A j \in DOMAIN jsons' :
            j \in Stages \X (1..Parts) /\ jsons'[j] = Fresh(knobs, j[1])
      /\ DOMAIN jsons \subseteq DOMAIN jsons'
  <2>1. CASE UNCHANGED <<logs, jsons>>
    BY <1>2, <2>1 DEF HInv, StepFilesOwn, Origin
  <2>2. CASE ~ UNCHANGED <<logs, jsons>>
    <3>1. PICK t \in Closure(target) \ UpToDate, n \in 0..(Parts - 1) :
             /\ Upstream(t) \subseteq UpToDate
             /\ jsons' = Reported(t, n)
             /\ \E text \in {"tool", "tcl", None} : logs' = Logged(t, text)
      BY <1>1, <2>2 DEF Unfinished
    <3>2. PICK text : logs' = Logged(t, text)
      BY <3>1
    <3>3. t \in Targets
      BY <1>4, UpstreamIsClosure
    <3>4. n \in 0..Parts
      BY HandoverAssumption
    <3>5. Work(t) = Fresh(knobs, t)
      BY <1>2, <3>1, <3>3, WorkIsFresh
    <3>6. QED
      BY <1>2, <3>1, <3>2, <3>3, <3>4, <3>5, StepFilesAdded
  <2>3. QED
    BY <2>1, <2>2
<1>6. StepFilesOwn'
  BY <1>2, <1>4, <1>5 DEF StepFilesOwn, Origin
<1>7. PartsReported'
  BY <1>2, <1>5 DEF HInv, PartsReported
<1>8. clock' = NoClock /\ handed' = None
  BY <1>1, <1>2 DEF HInv, Withdrawn, emitVars
<1>9. FiguresOwn'
  <2>a. \A j \in DOMAIN jsons' : j \in Stages \X (1..Parts) /\ jsons'[j] = Fresh(knobs, j[1])
    BY <1>5
  <2>1. \A x \in SummaryOf(jsons') : \E t \in Stages : x = Fresh(knobs, t)
    BY <2>a, SummaryFromJsons
  <2>2. QED
    BY <1>1, <1>2, <1>8, <2>1 DEF FiguresOwn, NoClock
<1>10. BlameOwn'
  <2>1. DOMAIN logs' \subseteq Targets /\ \A u \in DOMAIN logs' : logs'[u].content = Fresh(knobs, u)
    BY <1>5
  <2>2. FailureOf(rc, logs') # None /\ FailureOf(rc, logs').content # None =>
           FailureOf(rc, logs').content = Fresh(knobs, FailureOf(rc, logs').step)
    BY <1>5, <2>1, FailureFromLogs
  <2>3. told'.failure = FailureOf(rc, logs') /\ told'.knobs = knobs
    BY <1>1
  <2>4. QED
    BY <2>2, <2>3 DEF BlameOwn
<1>11. Withdrawn' /\ HandedOwn'
  BY <1>2, <1>8 DEF Withdrawn, HandedOwn
<1>12. QED
  BY <1>3, <1>5, <1>6, <1>7, <1>9, <1>10, <1>11 DEF HInv

\* read_metrics reads the same files without a call; a directory without a
\* manifest has none to read.
LEMMA ReadMetricsInv ==
    ASSUME HInv, ReadMetrics
    PROVE  HInv'
<1>1. /\ pc = "idle" /\ UNCHANGED <<vars, logs, jsons, emitVars>>
      /\ told' = [knobs |-> NoKnobs, summary |-> SummaryOf(jsons), failure |-> None]
  BY DEF ReadMetrics
<1>2. IInv'
  BY <1>1, StepInv DEF HInv
<1>3. StepFilesOwn' /\ Ordered(logs') /\ PartsReported' /\ Withdrawn' /\ HandedOwn'
  BY <1>1 DEF HInv, StepFilesOwn, Origin, Ordered, PartsReported, Withdrawn, HandedOwn,
              NoClock, emitVars, vars, Present
<1>4. FiguresOwn'
  <2> DEFINE js == jsons
             c == manifest
  <2>a. \A j \in DOMAIN js : j \in Stages \X (1..Parts) /\ js[j] = Fresh(c, j[1])
    BY <1>1 DEF HInv, StepFilesOwn, Origin
  <2> HIDE DEF js, c
  <2>b. \A x \in SummaryOf(js) : \E t \in Stages : x = Fresh(c, t)
    BY <2>a, SummaryFromJsons
  <2>1. \A x \in SummaryOf(jsons) : \E t \in Stages : x = Fresh(manifest, t)
    BY <2>b DEF js, c
  <2>2. QED
    BY <1>1, <2>1 DEF HInv, FiguresOwn, emitVars, vars
<1>5. BlameOwn'
  BY <1>1 DEF BlameOwn
<1>6. QED
  BY <1>2, <1>3, <1>4, <1>5 DEF HInv

\* The JSON that slacks are compared with is the last of the checkpoint's that
\* has one, so they agree exactly when they are within the tolerance of it.
LEMMA AgreesWithCheckpoint ==
    ASSUME HInv, pc = "idle", Observed \in Present, NEW file
    PROVE  LET own(n)    == Slack(<<Observed, n>>, tree[Observed])
               reporting == {n \in 1..Parts : own(n) # None}
           IN  Agrees(file) <=>
                  \A n \in reporting :
                     (\A m \in reporting : m <= n) =>
                        file.worst # None /\ Tolerated(file.worst, own(n))
<1> DEFINE own(n)    == Slack(<<Observed, n>>, tree[Observed])
           reporting == {n \in 1..Parts : own(n) # None}
           last(n)   == n \in reporting /\ \A m \in reporting : m <= n
<1>1. /\ Observed \in Stages /\ Observed \in Int /\ doomed = {}
      /\ Parts \in Nat /\ 1 \in 1..Parts
  BY HandoverAssumption DEF HInv, IInv, Invalidation, Stages
<1>2. \A n \in 1..Parts : <<Observed, n>> \in DOMAIN jsons
  BY <1>1 DEF HInv, PartsReported
<1>3. \A n \in 1..Parts : jsons[<<Observed, n>>] = tree[Observed]
  <2> TAKE n \in 1..Parts
  <2>1. jsons[<<Observed, n>>] = Fresh(manifest, Observed) /\ manifest # NoRecord
    BY <1>2 DEF HInv, StepFilesOwn, Origin
  <2>2. QED
    BY <2>1 DEF HInv, IInv, ManifestHonest
<1>4. \A j \in DOMAIN jsons :
         j \in Stages \X (1..Parts) /\ j = <<j[1], j[2]>> /\ j[2] \in 1..Parts
  BY DEF HInv, StepFilesOwn
<1>5. \A j \in DOMAIN jsons :
         j[1] = Observed => (j \in Reporting <=> j[2] \in reporting)
  <2> TAKE j \in DOMAIN jsons
  <2> HAVE j[1] = Observed
  <2>1. j[2] \in 1..Parts /\ j = <<Observed, j[2]>>
    BY <1>4
  <2>2. jsons[j] = tree[Observed]
    BY <1>3, <2>1
  <2>3. QED
    BY <2>1, <2>2 DEF Reporting
<1>6. \A n \in reporting : n \in 1..Parts /\ <<Observed, n>> \in Reporting
  BY <1>2, <1>3 DEF Reporting
<1> DEFINE pool == {k \in Reporting : k[1] = Observed}
<1>7. \A j : Compared(j) <=>
         j \in pool /\ \A k \in pool : k[1] < j[1] \/ (k[1] = j[1] /\ k[2] <= j[2])
  <2>1. {k \in DOMAIN jsons : k[1] = Observed} # {}
    <3>1. <<Observed, 1>> \in DOMAIN jsons /\ <<Observed, 1>>[1] = Observed
      BY <1>1, <1>2
    <3>2. QED
      BY <3>1, Zenon
  <2>2. Reporting \subseteq DOMAIN jsons
    BY DEF Reporting
  <2>3. QED
    BY <2>1, <2>2 DEF Compared
<1>8. \A j \in DOMAIN jsons : Compared(j) <=> j[1] = Observed /\ last(j[2])
  <2> TAKE j \in DOMAIN jsons
  <2>1. ASSUME Compared(j) PROVE j[1] = Observed /\ last(j[2])
    <3>1. j \in pool /\ j[1] = Observed
      BY <1>7, <2>1
    <3>2. j[2] \in reporting
      BY <1>5, <3>1
    <3>3. ASSUME NEW m \in reporting PROVE m <= j[2]
      <4>1. <<Observed, m>> \in pool
        BY <1>6
      <4> DEFINE k == <<Observed, m>>
      <4>2. k[1] < j[1] \/ (k[1] = j[1] /\ k[2] <= j[2])
        BY <1>7, <2>1, <4>1
      <4>3. QED
        BY <1>1, <3>1, <4>2
    <3>4. QED
      BY <3>1, <3>2, <3>3
  <2>2. ASSUME j[1] = Observed, last(j[2]) PROVE Compared(j)
    <3>1. j \in pool
      BY <1>5, <2>2
    <3>2. ASSUME NEW k \in pool PROVE k[1] = j[1] /\ k[2] <= j[2]
      <4>1. k \in DOMAIN jsons /\ k[1] = Observed /\ k \in Reporting
        BY DEF Reporting
      <4>2. QED
        BY <1>5, <2>2, <4>1
    <3>3. QED
      BY <1>7, <3>1, <3>2
  <2>3. QED
    BY <2>1, <2>2
<1> DEFINE close(n) == file.worst # None /\ Tolerated(file.worst, own(n))
<1>9. \A j \in DOMAIN jsons :
         j[1] = Observed => Slack(j, jsons[j]) = own(j[2])
  <2> TAKE j \in DOMAIN jsons
  <2> HAVE j[1] = Observed
  <2>1. j[2] \in 1..Parts /\ j = <<Observed, j[2]>>
    BY <1>4
  <2>2. QED
    BY <1>3, <2>1
<1>10. ASSUME Agrees(file), NEW n \in reporting, last(n) PROVE close(n)
  <2> DEFINE j == <<Observed, n>>
  <2>1. j \in DOMAIN jsons /\ j[1] = Observed /\ j[2] = n
    BY <1>2, <1>6
  <2>2. Compared(j)
    BY <1>8, <1>10, <2>1
  <2>3. Slack(j, jsons[j]) = own(n)
    BY <1>9, <2>1
  <2> HIDE DEF own
  <2>4. QED
    BY <1>10, <2>1, <2>2, <2>3 DEF Agrees
<1>11. ASSUME \A n \in reporting : last(n) => close(n) PROVE Agrees(file)
  <2> SUFFICES ASSUME NEW j \in DOMAIN jsons, Compared(j)
               PROVE  file.worst # None /\ Tolerated(file.worst, Slack(j, jsons[j]))
    BY DEF Agrees
  <2>1. j[1] = Observed /\ last(j[2])
    BY <1>8
  <2>2. close(j[2])
    BY <1>11, <2>1
  <2>3. Slack(j, jsons[j]) = own(j[2])
    BY <1>9, <2>1
  <2> HIDE DEF own
  <2>4. QED
    BY <2>2, <2>3
<1>12. Agrees(file) <=> \A n \in reporting : last(n) => close(n)
  BY <1>10, <1>11
<1>13. QED
  BY <1>12

\* A session that ends well has written the DEF of the checkpoint.
LEMMA WholeDef ==
    ASSUME NEW files \in Written("ok")
    PROVE  files["def"] = tree[Observed]
BY DEF Written

\* A tool session hands over what agrees with the checkpoint, whatever it found
\* in the files and however it ended.
LEMMA EmitInv ==
    ASSUME HInv, Emit
    PROVE  HInv'
<1>1. /\ pc = "idle" /\ Observed \in Present
      /\ UNCHANGED <<vars, logs, jsons, told, clock>>
      /\ emitted' \in Written(session')
      /\ handed' = {a \in Artifacts : /\ emitted'[a] # None
                                      /\ a = "timing_rpt" => Agrees(emitted'[a])}
  BY DEF Emit
<1>2. IInv'
  BY <1>1, StepInv DEF HInv
<1>3. StepFilesOwn' /\ Ordered(logs') /\ PartsReported' /\ Withdrawn' /\ FiguresOwn' /\ BlameOwn'
  BY <1>1 DEF HInv, StepFilesOwn, Origin, Ordered, PartsReported, Withdrawn, FiguresOwn,
              BlameOwn, NoClock, vars, Present
<1>4. HandedOwn'
  <2> DEFINE slacks == emitted'["timing_rpt"]
             own(n)    == Slack(<<Observed, n>>, tree[Observed])
             reporting == {n \in 1..Parts : own(n) # None}
  <2>1. Agrees(slacks) <=>
           \A n \in reporting :
              (\A m \in reporting : m <= n) =>
                 slacks.worst # None /\ Tolerated(slacks.worst, own(n))
    BY <1>1, AgreesWithCheckpoint
  <2>2. "timing_rpt" \in handed' <=> slacks # None /\ Agrees(slacks)
    BY <1>1 DEF Artifacts
  <2>3. session' = "ok" => emitted'["def"] = tree[Observed]
    BY <1>1, WholeDef
  <2>4. tree' = tree
    BY <1>1 DEF vars
  <2>5. QED
    BY <2>1, <2>2, <2>3, <2>4 DEF HandedOwn
<1>5. QED
  BY <1>2, <1>3, <1>4 DEF HInv

\* Without the checkpoint, or after a session that hung, nothing is handed over.
LEMMA EmitNoneInv ==
    ASSUME HInv, EmitNothing \/ EmitTimesOut
    PROVE  HInv'
<1>1. /\ pc = "idle" /\ UNCHANGED <<vars, logs, jsons, told, clock>>
      /\ handed' = None \/ Observed \notin Present
  BY DEF EmitNothing, EmitTimesOut
<1>2. IInv'
  BY <1>1, StepInv DEF HInv
<1>3. StepFilesOwn' /\ Ordered(logs') /\ PartsReported' /\ Withdrawn' /\ FiguresOwn' /\ BlameOwn'
  BY <1>1 DEF HInv, StepFilesOwn, Origin, Ordered, PartsReported, Withdrawn, FiguresOwn,
              BlameOwn, NoClock, vars, Present
<1>4. HandedOwn'
  BY <1>1 DEF HandedOwn, vars, Present
<1>5. QED
  BY <1>2, <1>3, <1>4 DEF HInv

\* Both factors of the clock power are read while the manifest stands.
LEMMA MeasureClockInv ==
    ASSUME HInv, MeasureClock
    PROVE  HInv'
<1>1. /\ pc = "idle" /\ Routed \in Present
      /\ UNCHANGED <<vars, logs, jsons, told, emitted, handed, session>>
  BY DEF MeasureClock
<1>2. PICK share \in {None, tree[Routed]} :
         clock' = [share |-> share,
                   total |-> IF share = None \/ <<N, Parts>> \notin DOMAIN jsons
                             THEN None ELSE jsons[<<N, Parts>>]]
  BY DEF MeasureClock
<1>3. IInv'
  BY <1>1, StepInv DEF HInv
<1>4. StepFilesOwn' /\ Ordered(logs') /\ PartsReported' /\ Withdrawn' /\ HandedOwn' /\ BlameOwn'
  BY <1>1 DEF HInv, StepFilesOwn, Origin, Ordered, PartsReported, Withdrawn, HandedOwn,
              BlameOwn, vars, Present
<1>5. FiguresOwn'
  <2>1. tree[Routed] = Fresh(manifest, Routed)
    BY <1>1 DEF HInv, IInv, ManifestHonest
  <2>2. <<N, Parts>> \in DOMAIN jsons => jsons[<<N, Parts>>] = Fresh(manifest, N)
    BY <1>1 DEF HInv, StepFilesOwn, Origin
  <2>3. UNCHANGED <<manifest, told>>
    BY <1>1 DEF vars
  <2>4. QED
    BY <1>2, <2>1, <2>2, <2>3 DEF HInv, FiguresOwn
<1>6. QED
  BY <1>3, <1>4, <1>5 DEF HInv

\* Every step keeps the invariant.
LEMMA HStepInv == HInv /\ [HNext]_hVars => HInv'
<1> SUFFICES ASSUME HInv, [HNext]_hVars PROVE HInv'
  OBVIOUS
<1>1. CASE \E t \in Asked, c \in Requests, force \in BOOLEAN : HCall(t, c, force)
  BY <1>1, HCallInv
<1>2. CASE \E t \in Targets : HUnlink(t)
  BY <1>2, HUnlinkInv
<1>3. CASE \E t \in Targets : HMake(t)
  BY <1>3, HMakeInv
<1>4. CASE \E rc \in {"ok", "error", "killed"} : HReturn(rc)
  BY <1>4, HReturnInv
<1>5. CASE ReadMetrics
  BY <1>5, ReadMetricsInv
<1>6. CASE Emit
  BY <1>6, EmitInv
<1>7. CASE EmitNothing \/ EmitTimesOut
  BY <1>7, EmitNoneInv
<1>8. CASE MeasureClock
  BY <1>8, MeasureClockInv
<1>9. CASE UNCHANGED hVars
  <2>1. IInv'
    BY <1>9, StepInv DEF HInv, hVars
  <2>2. QED
    BY <1>9, <2>1 DEF HInv, StepFilesOwn, Origin, Ordered, PartsReported, Withdrawn,
       FiguresOwn, BlameOwn, HandedOwn, NoClock, hVars, handVars, vars, Present
<1>10. QED
  BY <1>1, <1>2, <1>3, <1>4, <1>5, <1>6, <1>7, <1>8, <1>9 DEF HNext

-----------------------------------------------------------------------------
(***************************************************************************)
(* What follows.                                                           *)
(***************************************************************************)

\* The invariant of the directory with its step files and hand-over files.
THEOREM HInductive == HSpec => []HInv
BY HInitInv, HStepInv, PTL DEF HSpec

\* Every figure a caller is told, by run_stage, read_metrics or measure_clock,
\* is of the configuration that the manifest names.
THEOREM FiguresAreOwn == HSpec => []FiguresOwn
<1>1. HInv => FiguresOwn
  BY DEF HInv
<1>2. QED
  BY <1>1, HInductive, PTL

\* No failure is explained by the log of another configuration.
THEOREM BlameIsOwn == HSpec => []BlameOwn
<1>1. HInv => BlameOwn
  BY DEF HInv
<1>2. QED
  BY <1>1, HInductive, PTL

\* Slacks are handed over if and only if they are within the tolerance of what
\* was reported of the checkpoint, or nothing was.
THEOREM HandedIsOwn == HSpec => []HandedOwn
<1>1. HInv => HandedOwn
  BY DEF HInv
<1>2. QED
  BY <1>1, HInductive, PTL
=============================================================================
