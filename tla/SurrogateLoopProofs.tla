------------------------ MODULE SurrogateLoopProofs ------------------------
(***************************************************************************)
(* Proofs about SurrogateLoop, for any number of turns, proposals and      *)
(* promotions, any policy and any cluster: whatever the model answers,     *)
(* whichever results rank first and wherever the driver dies.              *)
(***************************************************************************)
EXTENDS SurrogateLoop, AgentToolProofs

-----------------------------------------------------------------------------
(***************************************************************************)
(* The inductive invariant.                                                *)
(***************************************************************************)

Members(s) == {s[i] : i \in DOMAIN s}

Distinct(s) == \A i, j \in DOMAIN s : s[i] = s[j] => i = j

\* ids are candidates of this run, no more than the reply had deltas; wait is
\* what is left of them.
Lists ==
    /\ phase \in {"ask", "build", "drain", "choose", "promote", "finish", "over"}
    /\ turn \in 0..Turns
    /\ phase \notin {"ask", "over"} => turn > 0
    /\ said \subseteq Deltas /\ IsFiniteSet(said)
    /\ ids \in Seq(Nat) /\ Distinct(ids) /\ Len(ids) <= PerTurn
    /\ wait \in Seq(Nat) /\ Distinct(wait) /\ Len(wait) <= PerTurn
    /\ Members(wait) \subseteq Members(ids)
    /\ phase = "build" => Len(ids) <= Cardinality(said) /\ wait = <<>>
    /\ \A c \in Members(ids) : c \in DOMAIN rows /\ rows[c].run = run

\* What is in flight in each phase, and what for.
Flying ==
    /\ phase \in {"ask", "choose", "over"} => DOMAIN tasks = {}
    /\ phase = "build" => DOMAIN tasks = Members(ids)
    /\ phase \in {"drain", "finish"} => DOMAIN tasks = Members(wait)
    /\ phase = "promote" => DOMAIN tasks = Members(ids) \ Members(wait)
    /\ \A id \in DOMAIN tasks :
          /\ phase \in {"build", "drain"} => ~ tasks[id].promoted
          /\ phase \in {"promote", "finish"} => tasks[id].promoted
          /\ tasks[id].promoted => tasks[id].seed = 0
          /\ tasks[id].promoted \/ tasks[id].state = "done" \/ rows[id].spent = 0

\* Only a quick evaluation is promoted, and only what it built.
Promoting ==
    /\ phase \in {"choose", "promote", "finish"} => quick
    /\ phase \in {"promote", "finish"} => Len(ids) <= TopK
    /\ phase = "promote" => \A c \in Members(wait) : rows[c].status = "built"

\* The candidates of this run that had a full build; those among them that
\* this turn is not promoting.
Full == {i \in DOMAIN rows : rows[i].run = run /\ rows[i].spent > 1}

FullBefore == Full \ Members(ids)

\* The turns before this one have promoted TopK candidates each at most.
Budget ==
    quick =>
        /\ phase \in {"ask", "over"} => Cardinality(Full) <= TopK * turn
        /\ phase \in {"build", "drain", "choose"} =>
              Cardinality(Full) <= TopK * (turn - 1)
        /\ phase \in {"promote", "finish"} =>
              Cardinality(FullBefore) <= TopK * (turn - 1)

LoopInv ==
    /\ ToolInv
    /\ Lists
    /\ Flying
    /\ SeedQuiet
    /\ Promoting
    /\ Budget

-----------------------------------------------------------------------------
(***************************************************************************)
(* Lists of candidates.                                                    *)
(***************************************************************************)

\* A candidate that is not in the list yet is added at its end.
LEMMA Listed ==
    ASSUME NEW s \in Seq(Nat), Distinct(s), NEW n \in Nat, n \notin Members(s)
    PROVE  /\ Append(s, n) \in Seq(Nat) /\ Distinct(Append(s, n))
           /\ Len(Append(s, n)) = Len(s) + 1
           /\ Members(Append(s, n)) = Members(s) \cup {n}
<1>1. /\ Append(s, n) \in Seq(Nat) /\ Len(Append(s, n)) = Len(s) + 1
      /\ DOMAIN Append(s, n) = DOMAIN s \cup {Len(s) + 1}
      /\ \A i \in DOMAIN s : Append(s, n)[i] = s[i]
      /\ Append(s, n)[Len(s) + 1] = n
  BY RowAdded
<1>2. \A i \in DOMAIN s : s[i] # n
  BY DEF Members
<1>3. Distinct(Append(s, n))
  BY <1>1, <1>2 DEF Distinct
<1>4. Members(Append(s, n)) = Members(s) \cup {n}
  BY <1>1 DEF Members
<1>5. QED
  BY <1>1, <1>3, <1>4

\* The first of a list is taken off; it does not occur again.
LEMMA TakenOff ==
    ASSUME NEW s \in Seq(Nat), Distinct(s), s # <<>>
    PROVE  /\ Head(s) \in Members(s)
           /\ Tail(s) \in Seq(Nat) /\ Distinct(Tail(s))
           /\ Len(Tail(s)) <= Len(s)
           /\ Members(Tail(s)) = Members(s) \ {Head(s)}
<1>1. /\ Len(s) \in Nat \ {0} /\ DOMAIN s = 1..Len(s)
      /\ Tail(s) \in Seq(Nat) /\ Len(Tail(s)) = Len(s) - 1
      /\ DOMAIN Tail(s) = 1..(Len(s) - 1)
      /\ \A i \in 1..(Len(s) - 1) : Tail(s)[i] = s[i + 1]
      /\ Head(s) = s[1]
  OBVIOUS
<1>2. Head(s) \in Members(s)
  BY <1>1 DEF Members
<1>3. Distinct(Tail(s))
  BY <1>1 DEF Distinct
<1>4. Members(Tail(s)) \subseteq Members(s) \ {Head(s)}
  BY <1>1 DEF Members, Distinct
<1>5. Members(s) \ {Head(s)} \subseteq Members(Tail(s))
  <2> SUFFICES ASSUME NEW i \in DOMAIN s, s[i] # s[1]
               PROVE  s[i] \in Members(Tail(s))
    BY <1>1 DEF Members
  <2>1. i - 1 \in 1..(Len(s) - 1) /\ (i - 1) + 1 = i
    BY <1>1
  <2>2. Tail(s)[i - 1] = s[i]
    BY <1>1, <2>1
  <2>3. QED
    BY <1>1, <2>1, <2>2 DEF Members
<1>6. QED
  BY <1>1, <1>2, <1>3, <1>4, <1>5

\* A list has no more members than places, and as many when they differ.
LEMMA Places ==
    ASSUME NEW s \in Seq(Nat)
    PROVE  /\ IsFiniteSet(Members(s)) /\ Cardinality(Members(s)) \in Nat
           /\ Cardinality(Members(s)) <= Len(s)
           /\ Distinct(s) => Cardinality(Members(s)) = Len(s)
<1>1. Len(s) \in Nat /\ DOMAIN s = 1..Len(s)
  OBVIOUS
<1>2. IsFiniteSet(1..Len(s)) /\ Cardinality(1..Len(s)) = Len(s)
  <2>1. 1 \in Int /\ Len(s) \in Int
    BY <1>1
  <2>2. /\ IsFiniteSet(1..Len(s))
        /\ Cardinality(1..Len(s)) = IF 1 > Len(s) THEN 0 ELSE Len(s) - 1 + 1
    BY <2>1, FS_Interval, Zenon
  <2>3. QED
    BY <1>1, <2>2
<1>3. s \in Surjection(1..Len(s), Members(s))
  BY <1>1 DEF Surjection, Members
<1>4. /\ IsFiniteSet(Members(s))
      /\ Cardinality(Members(s)) <= Len(s)
      /\ s \in Injection(1..Len(s), Members(s)) =>
            Cardinality(Members(s)) = Len(s)
  BY <1>2, <1>3, FS_Surjection
<1>5. Distinct(s) => s \in Injection(1..Len(s), Members(s))
  BY <1>1, <1>3 DEF Distinct, Injection, IsInjective, Surjection
<1>6. QED
  BY <1>4, <1>5, FS_CardinalityType

\* What may rank first: built candidates of this turn, each once, no more
\* than --promote says and no more than there are.
LEMMA Ranked ==
    ASSUME TopK \in Nat, ids \in Seq(Nat), NEW chosen \in Best
    PROVE  /\ chosen \in Seq(Nat) /\ Distinct(chosen)
           /\ Len(chosen) <= TopK /\ Len(chosen) <= Len(ids)
           /\ Members(chosen) \subseteq Members(ids)
           /\ \A c \in Members(chosen) : rows[c].status = "built"
<1> DEFINE S == OfTurn({"built"})
<1>1. /\ S \subseteq Members(ids) /\ Members(ids) \subseteq Nat
      /\ \A c \in S : rows[c].status = "built"
  BY DEF OfTurn, Members
<1>2. chosen \in UNION {[1..m -> S] : m \in 0..TopK} /\ Distinct(chosen)
  BY DEF Best, Rankings, Distinct
<1> HIDE DEF S
<1>3. PICK m \in 0..TopK : chosen \in [1..m -> S]
  BY <1>2
<1>4. chosen \in Seq(Nat) /\ Len(chosen) = m
  BY <1>1, <1>3
<1>5. Members(chosen) \subseteq S
  BY <1>3 DEF Members
<1>6. Len(chosen) <= Len(ids)
  <2>1. Cardinality(Members(chosen)) = Len(chosen)
    BY <1>2, <1>4, Places
  <2>2. /\ IsFiniteSet(Members(ids)) /\ Cardinality(Members(ids)) <= Len(ids)
        /\ Cardinality(Members(ids)) \in Nat
    BY Places
  <2>3. Cardinality(Members(chosen)) <= Cardinality(Members(ids))
    BY <1>1, <1>5, <2>2, FS_Subset
  <2>4. Len(chosen) \in Nat /\ Len(ids) \in Nat
    BY <1>4
  <2>5. QED
    BY <2>1, <2>2, <2>3, <2>4
<1>7. QED
  BY <1>1, <1>2, <1>3, <1>4, <1>5, <1>6

-----------------------------------------------------------------------------
(***************************************************************************)
(* What the steps do to the ledger and to what is in flight.               *)
(***************************************************************************)

LEMMA NoList ==
    /\ <<>> \in Seq(Nat) /\ Len(<<>>) = 0
    /\ Members(<<>>) = {} /\ Distinct(<<>>)
BY DEF Members, Distinct

\* Counting full builds is counting rows.
LEMMA FullFinite ==
    ASSUME ToolInv
    PROVE  /\ IsFiniteSet(Full) /\ Cardinality(Full) \in Nat
           /\ IsFiniteSet(FullBefore) /\ Cardinality(FullBefore) \in Nat
           /\ Cardinality(FullBefore) <= Cardinality(Full)
<1>1. rows \in Seq(RowType)
  BY DEF ToolInv, ToolTypeOK
<1>2. DOMAIN rows = 1..Len(rows) /\ Len(rows) \in Nat
  BY <1>1
<1>3. IsFiniteSet(1..Len(rows))
  BY <1>2, FS_Interval
<1>4. Full \in SUBSET (1..Len(rows)) /\ FullBefore \in SUBSET Full
  BY <1>2 DEF Full, FullBefore
<1>5. IsFiniteSet(Full)
  BY <1>3, <1>4, FS_Subset
<1>6. QED
  BY <1>4, <1>5, FS_Subset, FS_CardinalityType

\* A proposal adds one row, of this run, that has run nothing.
LEMMA RowProposed ==
    ASSUME ToolInv, NEW delta \in Deltas, NEW parent \in 0..MaxRows,
           Refuse(delta, parent) \/ Submit(delta, parent)
    PROVE  /\ DOMAIN rows' = DOMAIN rows \cup {Len(rows) + 1}
           /\ Len(rows) + 1 \notin DOMAIN rows
           /\ Len(rows) + 1 \in Nat /\ Len(rows') = Len(rows) + 1
           /\ \A i \in DOMAIN rows : rows'[i] = rows[i]
           /\ rows'[Len(rows) + 1].run = run
           /\ rows'[Len(rows) + 1].spent = 0
           /\ run' = run /\ quick' = quick
           /\ Full' = Full
<1> DEFINE c == Merged(delta, parent)
<1>1. /\ rows' = Append(rows, Row(c, "rejected")) \/ rows' = Append(rows, Row(c, "proposed"))
      /\ run' = run /\ quick' = quick
  BY DEF Refuse, Submit
<1>2. c \in Configs
  BY MergedConfig DEF ToolInv
<1> HIDE DEF c
<1>3. PICK st \in {"proposed", "rejected"} : rows' = Append(rows, Row(c, st))
  BY <1>1
<1>4. Row(c, st) \in RowType /\ Row(c, st).run = run /\ Row(c, st).spent = 0
  BY <1>2 DEF ToolInv, ToolTypeOK, Row, RowType
<1>5. rows \in Seq(RowType) /\ Len(rows) \in Nat
  BY DEF ToolInv, ToolTypeOK
<1>6. /\ Len(rows') = Len(rows) + 1
      /\ DOMAIN rows' = DOMAIN rows \cup {Len(rows) + 1}
      /\ Len(rows) + 1 \notin DOMAIN rows
      /\ \A i \in DOMAIN rows : rows'[i] = rows[i]
      /\ rows'[Len(rows) + 1] = Row(c, st)
  BY <1>3, <1>4, <1>5, RowAdded
<1>7. Full' = Full
  BY <1>1, <1>4, <1>6 DEF Full
<1>8. QED
  BY <1>1, <1>4, <1>5, <1>6, <1>7

\* A task that ends has run what it returns: one stage at most when the
\* evaluation is quick and the candidate is not being promoted.
LEMMA TaskEnds ==
    ASSUME ToolInv, NEW id \in DOMAIN tasks, Finish(id)
    PROVE  /\ DOMAIN tasks' = DOMAIN tasks
           /\ tasks'[id].state = "done"
           /\ \A i \in DOMAIN tasks : /\ tasks'[i].seed = tasks[i].seed
                                      /\ tasks'[i].promoted = tasks[i].promoted
                                      /\ i # id => tasks'[i] = tasks[i]
           /\ DOMAIN rows' = DOMAIN rows
           /\ \A i \in DOMAIN rows : /\ rows'[i].status = rows[i].status
                                     /\ rows'[i].run = rows[i].run
                                     /\ i # id => rows'[i] = rows[i]
           /\ quick /\ ~ tasks[id].promoted =>
                 rows'[id].spent <= rows[id].spent + 1
           /\ tasks[id].state = "running" /\ run' = run /\ quick' = quick
<1>1. PICK results \in Outcomes(quick, tasks[id].promoted) :
         /\ tasks' = [tasks EXCEPT ![id].state = "done", ![id].results = results]
         /\ rows' = [rows EXCEPT ![id].spent = @ + Len(results)]
         /\ UNCHANGED <<logVars, run, quick>>
         /\ tasks[id].state = "running"
  BY DEF Finish
<1>2. /\ tasks \in [DOMAIN tasks -> TaskType] /\ tasks[id] \in TaskType
      /\ rows \in Seq(RowType) /\ id \in DOMAIN rows /\ rows[id] \in RowType
  BY DEF ToolInv, ToolTypeOK
<1>3. quick /\ ~ tasks[id].promoted => Len(results) <= 1
  BY <1>1 DEF Outcomes
<1>4. rows[id].spent \in Nat /\ Len(results) \in Nat
  <2>1. tasks[id].promoted \in BOOLEAN
    BY <1>2 DEF TaskType
  <2>2. QED
    BY <1>2, <2>1 DEF RowType, Outcomes
<1>5. /\ DOMAIN tasks' = DOMAIN tasks
      /\ tasks'[id].state = "done"
      /\ \A i \in DOMAIN tasks : /\ tasks'[i].seed = tasks[i].seed
                                 /\ tasks'[i].promoted = tasks[i].promoted
                                 /\ i # id => tasks'[i] = tasks[i]
  BY <1>1, <1>2 DEF TaskType
<1>6. /\ DOMAIN rows' = DOMAIN rows
      /\ rows'[id] = [rows[id] EXCEPT !.spent = @ + Len(results)]
      /\ \A i \in DOMAIN rows : i # id => rows'[i] = rows[i]
  BY <1>1, <1>2
<1>7. /\ rows'[id].status = rows[id].status /\ rows'[id].run = rows[id].run
      /\ rows'[id].spent = rows[id].spent + Len(results)
  BY <1>2, <1>6 DEF RowType
<1>8. QED
  BY <1>1, <1>3, <1>4, <1>5, <1>6, <1>7

\* Collecting an outcome takes the task off and counts no stage twice.
LEMMA OutcomeRecorded ==
    ASSUME ToolInv, NEW id \in DOMAIN tasks,
           rows' = [rows EXCEPT ![id] = Recorded(@, tasks[id].results)]
    PROVE  /\ DOMAIN rows' = DOMAIN rows
           /\ \A i \in DOMAIN rows : /\ rows'[i].run = rows[i].run
                                     /\ rows'[i].spent = rows[i].spent
                                     /\ i # id => rows'[i] = rows[i]
<1>1. /\ rows \in Seq(RowType) /\ id \in DOMAIN rows /\ rows[id] \in RowType
      /\ tasks[id] \in TaskType /\ ToolTypeOK
  BY DEF ToolInv, ToolTypeOK
<1>2. Recorded(rows[id], tasks[id].results).spent = rows[id].spent
  BY <1>1 DEF Recorded, RowType
<1>3. Recorded(rows[id], tasks[id].results).run = rows[id].run
  BY <1>1 DEF Recorded, RowType
<1>4. /\ DOMAIN rows' = DOMAIN rows
      /\ rows'[id] = Recorded(rows[id], tasks[id].results)
      /\ \A i \in DOMAIN rows : i # id => rows'[i] = rows[i]
  BY <1>1
<1>5. QED
  BY <1>2, <1>3, <1>4

-----------------------------------------------------------------------------
(***************************************************************************)
(* The steps of the driver.                                                *)
(***************************************************************************)

LEMMA LoopInitially == LoopInit => LoopInv
<1> SUFFICES ASSUME LoopInit PROVE LoopInv
  OBVIOUS
<1>1. ToolInv /\ Start /\ rows = <<>> /\ tasks = <<>>
  BY ToolInitially DEF LoopInit, ToolInit
<1>2. Lists /\ Promoting
  BY <1>1, NoList, FS_EmptySet, LoopAssumption DEF Start, Lists, Promoting
<1>3. Flying /\ SeedQuiet
  BY <1>1 DEF Start, Flying, SeedQuiet
<1>4. Budget
  <2>1. Full = {}
    BY <1>1 DEF Full
  <2>2. Cardinality(Full) = 0 /\ TopK * turn = 0
    BY <1>1, <2>1, FS_EmptySet, LoopAssumption DEF Start
  <2>3. QED
    BY <1>1, <2>2 DEF Start, Budget
<1>5. QED
  BY <1>1, <1>2, <1>3, <1>4 DEF LoopInv

\* A step of the driver alone leaves the ledger and the cluster as they are.
LEMMA ToolAtRest ==
    ASSUME LoopInv, UNCHANGED toolVars
    PROVE  /\ ToolInv' /\ SeedQuiet'
           /\ rows' = rows /\ tasks' = tasks /\ run' = run /\ quick' = quick
           /\ Full' = Full
<1>1. ToolInv'
  BY ToolStep DEF LoopInv
<1>2. QED
  BY <1>1 DEF toolVars, LoopInv, SeedQuiet, Full

LEMMA StopStep ==
    ASSUME LoopInv, Stop
    PROVE  LoopInv'
<1>1. /\ ToolInv' /\ SeedQuiet'
      /\ rows' = rows /\ tasks' = tasks /\ run' = run /\ quick' = quick
      /\ Full' = Full
  BY ToolAtRest DEF Stop
<1>2. /\ phase = "ask" /\ phase' = "over"
      /\ UNCHANGED <<turn, said, ids, wait>>
  BY DEF Stop
<1>3. Lists' /\ Flying' /\ Promoting' /\ Budget'
  BY <1>1, <1>2 DEF LoopInv, Lists, Flying, Promoting, Budget
<1>4. QED
  BY <1>1, <1>3 DEF LoopInv

LEMMA AskStep ==
    ASSUME LoopInv, Ask
    PROVE  LoopInv'
<1>1. /\ ToolInv' /\ SeedQuiet'
      /\ rows' = rows /\ tasks' = tasks /\ run' = run /\ quick' = quick
      /\ Full' = Full
  BY ToolAtRest DEF Ask
<1>2. /\ phase = "ask" /\ phase' = "build" /\ turn < Turns /\ turn' = turn + 1
      /\ said' = {} /\ ids' = <<>> /\ wait' = <<>>
  BY DEF Ask
<1>3. Lists'
  BY <1>2, NoList, FS_EmptySet, LoopAssumption DEF LoopInv, Lists
<1>4. Flying' /\ Promoting'
  BY <1>1, <1>2, NoList DEF LoopInv, Flying, Promoting
<1>5. Budget'
  <2>1. turn' - 1 = turn
    BY <1>2, LoopAssumption DEF LoopInv, Lists
  <2>2. QED
    BY <1>1, <1>2, <2>1 DEF LoopInv, Budget
<1>6. QED
  BY <1>1, <1>3, <1>4, <1>5 DEF LoopInv

LEMMA DispatchStep ==
    ASSUME LoopInv, NEW delta \in Deltas, NEW parent \in 0..MaxRows,
           Dispatch(delta, parent)
    PROVE  LoopInv'
<1> DEFINE id == Len(rows) + 1
<1>1. /\ phase = "build" /\ delta \notin said /\ Cardinality(said) < PerTurn
      /\ \/ Refuse(delta, parent) /\ ids' = ids
         \/ Submit(delta, parent) /\ ids' = Append(ids, Len(rows'))
      /\ said' = said \cup {delta}
      /\ phase' = phase /\ turn' = turn /\ wait' = wait
  BY DEF Dispatch
<1>2. ToolInv /\ ToolInv'
  BY <1>1, RefuseStep, SubmitStep DEF LoopInv
<1>3. /\ DOMAIN rows' = DOMAIN rows \cup {id} /\ id \notin DOMAIN rows
      /\ id \in Nat /\ Len(rows') = id
      /\ \A i \in DOMAIN rows : rows'[i] = rows[i]
      /\ rows'[id].run = run /\ rows'[id].spent = 0
      /\ run' = run /\ quick' = quick /\ Full' = Full
  BY <1>1, <1>2, RowProposed
<1> HIDE DEF id
<1>4. /\ IsFiniteSet(said') /\ said' \subseteq Deltas
      /\ Cardinality(said') = Cardinality(said) + 1 /\ Cardinality(said) \in Nat
  BY <1>1, FS_AddElement, FS_CardinalityType DEF LoopInv, Lists
<1>5. Members(ids) \subseteq DOMAIN rows /\ id \notin Members(ids)
  BY <1>3 DEF LoopInv, Lists
<1>6. CASE Refuse(delta, parent) /\ ids' = ids
  <2>1. tasks' = tasks
    BY <1>6 DEF Refuse
  <2>2. Lists'
    <3>1. Len(ids') <= Cardinality(said')
      BY <1>1, <1>4, <1>6 DEF LoopInv, Lists
    <3>2. \A c \in Members(ids') : c \in DOMAIN rows' /\ rows'[c].run = run'
      BY <1>3, <1>6 DEF LoopInv, Lists
    <3>3. QED
      BY <1>1, <1>4, <1>6, <3>1, <3>2 DEF LoopInv, Lists
  <2>3. Flying'
    <3>1. DOMAIN tasks \subseteq DOMAIN rows
      BY <1>2 DEF ToolInv, ToolTypeOK
    <3>2. QED
      BY <1>1, <1>3, <1>6, <2>1, <3>1 DEF LoopInv, Flying
  <2>4. SeedQuiet' /\ Promoting' /\ Budget'
    BY <1>1, <1>3, <2>1 DEF LoopInv, SeedQuiet, Promoting, Budget
  <2>5. QED
    BY <1>2, <2>2, <2>3, <2>4 DEF LoopInv
<1>7. CASE Submit(delta, parent) /\ ids' = Append(ids, Len(rows'))
  <2>1. /\ ids' \in Seq(Nat) /\ Distinct(ids') /\ Len(ids') = Len(ids) + 1
        /\ Members(ids') = Members(ids) \cup {id}
    BY <1>3, <1>5, <1>7, Listed DEF LoopInv, Lists
  <2>2. /\ DOMAIN tasks' = DOMAIN tasks \cup {id}
        /\ \A i \in DOMAIN tasks : tasks'[i] = tasks[i]
        /\ tasks'[id] = Task(SeedOf(parent), FALSE)
        /\ DOMAIN tasks \subseteq DOMAIN rows
    BY <1>2, <1>3, <1>7 DEF Submit, ToolInv, ToolTypeOK, id
  <2>3. Lists'
    <3>1. Len(ids') <= Cardinality(said') /\ Len(ids') <= PerTurn
      BY <1>1, <1>4, <2>1, LoopAssumption DEF LoopInv, Lists
    <3>2. \A c \in Members(ids') : c \in DOMAIN rows' /\ rows'[c].run = run'
      BY <1>3, <2>1 DEF LoopInv, Lists
    <3>3. Members(wait') \subseteq Members(ids')
      BY <1>1, <2>1 DEF LoopInv, Lists
    <3>4. QED
      BY <1>1, <1>4, <2>1, <3>1, <3>2, <3>3 DEF LoopInv, Lists
  <2>4. Flying'
    <3>1. \A i \in DOMAIN tasks : rows'[i] = rows[i] /\ tasks'[i] = tasks[i]
      BY <1>3, <2>2
    <3>2. ~ tasks'[id].promoted /\ rows'[id].spent = 0
      BY <1>3, <2>2 DEF Task
    <3>3. DOMAIN tasks' = Members(ids')
      BY <1>1, <2>1, <2>2 DEF LoopInv, Flying
    <3>4. QED
      BY <1>1, <2>2, <3>1, <3>2, <3>3 DEF LoopInv, Flying
  <2>5. SeedQuiet'
    <3>1. SeedOf(parent) # 0 => SeedOf(parent) \in DOMAIN rows
                                /\ rows[SeedOf(parent)].status = "built"
      BY DEF SeedOf
    <3>2. \A i \in DOMAIN tasks : rows[i].status = "proposed"
      BY <1>1 DEF LoopInv, ToolInv, InFlight, Flying
    <3>3. SeedOf(parent) # 0 => SeedOf(parent) \notin DOMAIN tasks'
      BY <1>3, <2>2, <3>1, <3>2
    <3>4. \A i \in DOMAIN tasks : tasks[i].seed # 0 =>
             tasks[i].seed \in DOMAIN rows /\ tasks[i].seed \notin DOMAIN tasks
      BY DEF LoopInv, ToolInv, SeedInherited, SeedQuiet
    <3>5. \A i \in DOMAIN tasks : tasks[i].seed # 0 =>
             tasks[i].seed \notin DOMAIN tasks'
      BY <1>3, <2>2, <3>4
    <3>6. tasks'[id].seed = SeedOf(parent)
      BY <2>2 DEF Task
    <3>7. QED
      BY <2>2, <3>3, <3>5, <3>6 DEF SeedQuiet
  <2>6. Promoting' /\ Budget'
    BY <1>1, <1>3 DEF LoopInv, Promoting, Budget
  <2>7. QED
    BY <1>2, <2>3, <2>4, <2>5, <2>6 DEF LoopInv
<1>8. QED
  BY <1>1, <1>6, <1>7

LEMMA DispatchedStep ==
    ASSUME LoopInv, Dispatched
    PROVE  LoopInv'
<1>1. /\ ToolInv' /\ SeedQuiet'
      /\ rows' = rows /\ tasks' = tasks /\ run' = run /\ quick' = quick
      /\ Full' = Full
  BY ToolAtRest DEF Dispatched
<1>2. /\ phase = "build" /\ phase' = "drain" /\ wait' = ids
      /\ UNCHANGED <<turn, said, ids>>
  BY DEF Dispatched
<1>3. Lists' /\ Flying' /\ Promoting' /\ Budget'
  BY <1>1, <1>2 DEF LoopInv, Lists, Flying, Promoting, Budget
<1>4. QED
  BY <1>1, <1>3 DEF LoopInv

LEMMA DrainStep ==
    ASSUME LoopInv, Drain
    PROVE  LoopInv'
<1> DEFINE id == Head(wait)
<1>1. /\ phase \in {"drain", "finish"} /\ wait # <<>> /\ Collect(id)
      /\ wait' = Tail(wait)
      /\ UNCHANGED <<phase, turn, said, ids>>
  BY DEF Drain
<1>2. /\ id \in Members(wait)
      /\ wait' \in Seq(Nat) /\ Distinct(wait') /\ Len(wait') <= Len(wait)
      /\ Members(wait') = Members(wait) \ {id}
  BY <1>1, TakenOff DEF LoopInv, Lists
<1> HIDE DEF id
<1>3. /\ id \in DOMAIN tasks /\ ToolInv /\ ToolInv'
  BY <1>1, CollectStep DEF LoopInv, Collect
<1>4. /\ DOMAIN tasks' = DOMAIN tasks \ {id}
      /\ \A i \in DOMAIN tasks' : tasks'[i] = tasks[i]
      /\ rows' = [rows EXCEPT ![id] = Recorded(@, tasks[id].results)]
      /\ run' = run /\ quick' = quick
  BY <1>1 DEF Collect, Drop
<1>5. /\ DOMAIN rows' = DOMAIN rows
      /\ \A i \in DOMAIN rows : /\ rows'[i].run = rows[i].run
                                /\ rows'[i].spent = rows[i].spent
                                /\ i # id => rows'[i] = rows[i]
  BY <1>3, <1>4, OutcomeRecorded
<1>6. Full' = Full
  BY <1>4, <1>5 DEF Full
<1>7. Lists'
  <2>1. Len(wait') <= PerTurn
    BY <1>2, LoopAssumption DEF LoopInv, Lists
  <2>2. Members(wait') \subseteq Members(ids')
    BY <1>1, <1>2 DEF LoopInv, Lists
  <2>3. \A c \in Members(ids') : c \in DOMAIN rows' /\ rows'[c].run = run'
    BY <1>1, <1>4, <1>5 DEF LoopInv, Lists
  <2>4. QED
    BY <1>1, <1>2, <2>1, <2>2, <2>3 DEF LoopInv, Lists
<1>8. Flying'
  <2>1. DOMAIN tasks \subseteq DOMAIN rows
    BY <1>3 DEF ToolInv, ToolTypeOK
  <2>2. DOMAIN tasks' = Members(wait')
    BY <1>1, <1>2, <1>4 DEF LoopInv, Flying
  <2>3. QED
    BY <1>1, <1>4, <1>5, <2>1, <2>2 DEF LoopInv, Flying
<1>9. SeedQuiet'
  BY <1>4 DEF LoopInv, SeedQuiet
<1>10. Promoting'
  BY <1>1, <1>4 DEF LoopInv, Promoting
<1>11. Budget'
  <2>1. FullBefore' = FullBefore
    BY <1>1, <1>6 DEF FullBefore
  <2>2. QED
    BY <1>1, <1>4, <1>6, <2>1 DEF LoopInv, Budget
<1>12. QED
  BY <1>3, <1>7, <1>8, <1>9, <1>10, <1>11 DEF LoopInv

\* What a turn pays for on top of the turns before it.
LEMMA TurnPaid ==
    ASSUME LoopInv, quick, Len(ids) <= TopK,
           turn > 0, Cardinality(FullBefore) <= TopK * (turn - 1)
    PROVE  Cardinality(Full) <= TopK * turn
<1>1. /\ IsFiniteSet(Members(ids)) /\ Cardinality(Members(ids)) \in Nat
      /\ Cardinality(Members(ids)) <= Len(ids) /\ Len(ids) \in Nat
  BY Places DEF LoopInv, Lists
<1>2. /\ IsFiniteSet(Full) /\ Cardinality(Full) \in Nat
      /\ IsFiniteSet(FullBefore) /\ Cardinality(FullBefore) \in Nat
  BY FullFinite DEF LoopInv
<1>3. /\ IsFiniteSet(FullBefore \cup Members(ids))
      /\ Cardinality(FullBefore \cup Members(ids)) =
            Cardinality(FullBefore) + Cardinality(Members(ids))
              - Cardinality(FullBefore \cap Members(ids))
  BY <1>1, <1>2, FS_Union
<1>4. Full \subseteq FullBefore \cup Members(ids)
  BY DEF FullBefore
<1>5. Cardinality(Full) <= Cardinality(FullBefore \cup Members(ids))
  BY <1>3, <1>4, FS_Subset
<1>6. Cardinality(FullBefore \cap Members(ids)) \in Nat
  BY <1>2, FS_Intersection, FS_CardinalityType
<1>7. TopK \in Nat /\ turn - 1 \in Nat /\ turn \in Nat
  BY LoopAssumption DEF LoopInv, Lists
<1>8. TopK * (turn - 1) + TopK = TopK * turn
  BY <1>7
<1>9. TopK * (turn - 1) \in Nat /\ TopK * turn \in Nat
  BY <1>7
<1>10. QED
  BY <1>1, <1>2, <1>3, <1>5, <1>6, <1>7, <1>8, <1>9

LEMMA DrainedStep ==
    ASSUME LoopInv, Drained
    PROVE  LoopInv'
<1>1. /\ ToolInv' /\ SeedQuiet'
      /\ rows' = rows /\ tasks' = tasks /\ run' = run /\ quick' = quick
      /\ Full' = Full
  BY ToolAtRest DEF Drained
<1>2. /\ phase \in {"drain", "finish"} /\ wait = <<>>
      /\ phase' = IF phase = "drain" /\ quick THEN "choose" ELSE "ask"
      /\ UNCHANGED <<turn, said, ids, wait>>
  BY DEF Drained
<1>3. Lists'
  BY <1>1, <1>2 DEF LoopInv, Lists
<1>4. Flying' /\ Promoting'
  <2>1. DOMAIN tasks = {}
    BY <1>2, NoList DEF LoopInv, Flying
  <2>2. QED
    BY <1>1, <1>2, <2>1 DEF LoopInv, Flying, Promoting
<1>5. Budget'
  <2>1. CASE phase = "drain"
    BY <1>1, <1>2, <2>1 DEF LoopInv, Budget
  <2>2. CASE phase = "finish"
    <3>1. turn > 0 /\ Len(ids) <= TopK
      BY <2>2 DEF LoopInv, Lists, Promoting
    <3>2. quick => Cardinality(Full) <= TopK * turn
      BY <2>2, <3>1, TurnPaid DEF LoopInv, Budget
    <3>3. QED
      BY <1>1, <1>2, <2>2, <3>2 DEF Budget
  <2>3. QED
    BY <1>2, <2>1, <2>2
<1>6. QED
  BY <1>1, <1>3, <1>4, <1>5 DEF LoopInv

LEMMA ChooseStep ==
    ASSUME LoopInv, Choose
    PROVE  LoopInv'
<1>1. /\ ToolInv' /\ SeedQuiet'
      /\ rows' = rows /\ tasks' = tasks /\ run' = run /\ quick' = quick
      /\ Full' = Full
  BY ToolAtRest DEF Choose
<1>2. PICK chosen \in Best :
         /\ wait' = chosen /\ ids' = chosen
         /\ phase' = IF chosen = <<>> THEN "ask" ELSE "promote"
         /\ phase = "choose" /\ UNCHANGED <<turn, said>>
  BY DEF Choose
<1>3. /\ chosen \in Seq(Nat) /\ Distinct(chosen)
      /\ Len(chosen) <= TopK /\ Len(chosen) <= Len(ids)
      /\ Members(chosen) \subseteq Members(ids)
      /\ \A c \in Members(chosen) : rows[c].status = "built"
  BY Ranked, LoopAssumption DEF LoopInv, Lists
<1>4. Lists'
  <2>1. Len(chosen) <= PerTurn
    BY <1>3, LoopAssumption DEF LoopInv, Lists
  <2>2. \A c \in Members(chosen) : c \in DOMAIN rows' /\ rows'[c].run = run'
    BY <1>1, <1>3 DEF LoopInv, Lists
  <2>3. QED
    BY <1>2, <1>3, <2>1, <2>2 DEF LoopInv, Lists
<1>5. Flying' /\ Promoting'
  <2>1. Members(ids') \ Members(wait') = {}
    BY <1>2
  <2>2. DOMAIN tasks' = {} /\ quick'
    BY <1>1, <1>2 DEF LoopInv, Flying, Promoting
  <2>3. Flying'
    BY <1>2, <2>1, <2>2 DEF Flying
  <2>4. Promoting'
    BY <1>1, <1>2, <1>3, <2>2 DEF Promoting
  <2>5. QED
    BY <2>3, <2>4
<1>6. Budget'
  <2>1. quick => Cardinality(Full') <= TopK * (turn' - 1)
    BY <1>1, <1>2 DEF LoopInv, Budget
  <2>2. turn > 0 /\ turn \in Nat /\ TopK \in Nat
    BY <1>2, LoopAssumption DEF LoopInv, Lists
  <2>3. /\ Cardinality(Full') \in Nat /\ Cardinality(FullBefore') \in Nat
        /\ Cardinality(FullBefore') <= Cardinality(Full')
    <3>1. FullBefore' \in SUBSET Full' /\ IsFiniteSet(Full')
      BY <1>1, FullFinite DEF LoopInv, FullBefore
    <3>2. QED
      BY <3>1, FS_Subset, FS_CardinalityType
  <2>4. /\ TopK * (turn - 1) + TopK = TopK * turn
        /\ TopK * (turn - 1) \in Nat /\ TopK * turn \in Nat
    <3>1. turn - 1 \in Nat
      BY <2>2
    <3>2. QED
      BY <2>2, <3>1
  <2>5. quick => /\ Cardinality(Full') <= TopK * turn'
                 /\ Cardinality(FullBefore') <= TopK * (turn' - 1)
    BY <1>2, <2>1, <2>2, <2>3, <2>4
  <2>6. phase' \in {"ask", "promote"}
    BY <1>2
  <2>7. QED
    BY <1>1, <2>5, <2>6 DEF Budget
<1>7. QED
  BY <1>1, <1>4, <1>5, <1>6 DEF LoopInv

LEMMA PromoteNextStep ==
    ASSUME LoopInv, PromoteNext
    PROVE  LoopInv'
<1>1. phase = "promote" /\ UNCHANGED <<turn, said, ids>>
  BY DEF PromoteNext
<1>2. CASE wait = <<>>
  <2>1. UNCHANGED toolVars /\ phase' = "finish" /\ wait' = ids
    BY <1>2 DEF PromoteNext
  <2>2. /\ ToolInv' /\ SeedQuiet'
        /\ rows' = rows /\ tasks' = tasks /\ run' = run /\ quick' = quick
        /\ Full' = Full
    BY <2>1, ToolAtRest
  <2>3. Lists' /\ Promoting'
    BY <1>1, <2>1, <2>2 DEF LoopInv, Lists, Promoting
  <2>4. Flying'
    <3>1. DOMAIN tasks = Members(ids)
      BY <1>1, <1>2, NoList DEF LoopInv, Flying
    <3>2. QED
      BY <1>1, <2>1, <2>2, <3>1 DEF LoopInv, Flying
  <2>5. Budget'
    BY <1>1, <2>1, <2>2 DEF LoopInv, Budget, FullBefore
  <2>6. QED
    BY <2>2, <2>3, <2>4, <2>5 DEF LoopInv
<1>3. CASE wait # <<>>
  <2> DEFINE id == Head(wait)
  <2>1. Promote(id) /\ wait' = Tail(wait) /\ phase' = phase
    BY <1>3 DEF PromoteNext
  <2>2. /\ id \in Members(wait)
        /\ wait' \in Seq(Nat) /\ Distinct(wait') /\ Len(wait') <= Len(wait)
        /\ Members(wait') = Members(wait) \ {id}
    BY <1>3, <2>1, TakenOff DEF LoopInv, Lists
  <2> HIDE DEF id
  <2>3. /\ id \in DOMAIN rows \ DOMAIN tasks
        /\ rows[id].status = "built" /\ rows[id].run = run
    BY <1>1, <2>2 DEF LoopInv, Lists, Flying, Promoting
  <2>4. ToolInv'
    BY <2>1, <2>3, PromoteStep DEF LoopInv
  <2>5. /\ DOMAIN tasks' = DOMAIN tasks \cup {id}
        /\ \A i \in DOMAIN tasks : tasks'[i] = tasks[i]
        /\ tasks'[id] = Task(0, TRUE)
        /\ rows' = rows /\ run' = run /\ quick' = quick
    BY <2>1, <2>3 DEF Promote
  <2>6. Lists'
    <3>1. Len(wait') <= PerTurn
      BY <2>2, LoopAssumption DEF LoopInv, Lists
    <3>2. QED
      BY <1>1, <2>1, <2>2, <2>5, <3>1 DEF LoopInv, Lists
  <2>7. Flying'
    <3>1. DOMAIN tasks' = Members(ids') \ Members(wait')
      BY <1>1, <2>2, <2>5 DEF LoopInv, Flying, Lists
    <3>2. tasks'[id].promoted /\ tasks'[id].seed = 0
      BY <2>5 DEF Task
    <3>3. QED
      BY <1>1, <2>1, <2>5, <3>1, <3>2 DEF LoopInv, Flying
  <2>8. SeedQuiet'
    <3>1. tasks'[id].seed = 0
      BY <2>5 DEF Task
    <3>2. \A i \in DOMAIN tasks : tasks[i].seed = 0
      BY <1>1 DEF LoopInv, Flying
    <3>3. QED
      BY <2>5, <3>1, <3>2 DEF SeedQuiet
  <2>9. Promoting'
    BY <1>1, <2>1, <2>2, <2>5 DEF LoopInv, Promoting
  <2>10. Budget'
    BY <1>1, <2>1, <2>5 DEF LoopInv, Budget, Full, FullBefore
  <2>11. QED
    BY <2>4, <2>6, <2>7, <2>8, <2>9, <2>10 DEF LoopInv
<1>4. QED
  BY <1>2, <1>3

-----------------------------------------------------------------------------
(***************************************************************************)
(* The steps of the cluster, and deaths.                                   *)
(***************************************************************************)

LEMMA LoopPlaceStep ==
    ASSUME LoopInv, UNCHANGED loopVars, NEW id \in DOMAIN tasks, Place(id)
    PROVE  LoopInv'
<1>1. /\ phase' = phase /\ turn' = turn /\ said' = said
      /\ ids' = ids /\ wait' = wait
  BY DEF loopVars
<1>2. ToolInv'
  BY PlaceStep DEF LoopInv
<1>3. /\ tasks[id].state = "waiting"
      /\ tasks' = [tasks EXCEPT ![id].state = "running"]
      /\ rows' = rows /\ run' = run /\ quick' = quick
  BY DEF Place
<1>4. tasks \in [DOMAIN tasks -> TaskType]
  BY DEF LoopInv, ToolInv, ToolTypeOK
<1>5. /\ DOMAIN tasks' = DOMAIN tasks
      /\ \A i \in DOMAIN tasks : /\ tasks'[i].seed = tasks[i].seed
                                 /\ tasks'[i].promoted = tasks[i].promoted
                                 /\ tasks'[i].state = "done" => tasks[i].state = "done"
                                 /\ tasks[i].state = "done" => tasks'[i].state = "done"
  BY <1>3, <1>4 DEF TaskType
<1>6. Full' = Full
  BY <1>3 DEF Full
<1>7. Lists' /\ Promoting' /\ Budget'
  BY <1>1, <1>3, <1>6 DEF LoopInv, Lists, Promoting, Budget, FullBefore
<1>8. Flying' /\ SeedQuiet'
  BY <1>1, <1>3, <1>5 DEF LoopInv, Flying, SeedQuiet
<1>9. QED
  BY <1>2, <1>7, <1>8 DEF LoopInv

LEMMA LoopFinishStep ==
    ASSUME LoopInv, UNCHANGED loopVars, NEW id \in DOMAIN tasks, Finish(id)
    PROVE  LoopInv'
<1>1. /\ phase' = phase /\ turn' = turn /\ said' = said
      /\ ids' = ids /\ wait' = wait
  BY DEF loopVars
<1>2. ToolInv /\ ToolInv'
  BY FinishStep DEF LoopInv
<1>3. /\ DOMAIN tasks' = DOMAIN tasks
      /\ tasks'[id].state = "done"
      /\ \A i \in DOMAIN tasks : /\ tasks'[i].seed = tasks[i].seed
                                 /\ tasks'[i].promoted = tasks[i].promoted
                                 /\ i # id => tasks'[i] = tasks[i]
      /\ DOMAIN rows' = DOMAIN rows
      /\ \A i \in DOMAIN rows : /\ rows'[i].status = rows[i].status
                                /\ rows'[i].run = rows[i].run
                                /\ i # id => rows'[i] = rows[i]
      /\ quick /\ ~ tasks[id].promoted =>
            rows'[id].spent <= rows[id].spent + 1
      /\ tasks[id].state = "running" /\ run' = run /\ quick' = quick
  BY <1>2, TaskEnds
<1>4. DOMAIN tasks \subseteq DOMAIN rows
  BY <1>2 DEF ToolInv, ToolTypeOK
<1>5. Lists' /\ Promoting'
  BY <1>1, <1>3 DEF LoopInv, Lists, Promoting
<1>6. Flying'
  <2>1. \A i \in DOMAIN tasks : i # id => rows'[i] = rows[i] /\ tasks'[i] = tasks[i]
    BY <1>3, <1>4
  <2>2. QED
    BY <1>1, <1>3, <2>1 DEF LoopInv, Flying
<1>7. SeedQuiet'
  BY <1>3 DEF LoopInv, SeedQuiet
<1>8. Budget'
  <2> SUFFICES ASSUME quick PROVE Budget'
    BY <1>3 DEF Budget
  <2>1. phase \in {"build", "drain", "promote", "finish"}
    BY DEF LoopInv, Lists, Flying
  <2>2. CASE phase \in {"build", "drain"}
    <3>1. rows[id].spent = 0 /\ rows'[id].spent <= 1
      BY <1>3, <2>2 DEF LoopInv, Flying
    <3>2. rows'[id] \in RowType'
      BY <1>2, <1>3, <1>4 DEF ToolInv, ToolTypeOK
    <3>3. ~ (rows'[id].spent > 1)
      <4>1. rows'[id].spent \in Nat
        BY <3>2 DEF RowType
      <4>2. QED
        BY <3>1, <4>1
    <3>4. Full' \in SUBSET Full
      BY <1>3, <3>3 DEF Full
    <3>5. /\ Cardinality(Full') \in Nat /\ Cardinality(Full) \in Nat
          /\ Cardinality(Full') <= Cardinality(Full)
      <4>1. IsFiniteSet(Full)
        BY <1>2, FullFinite
      <4>2. QED
        BY <3>4, <4>1, FS_Subset, FS_CardinalityType
    <3>6. TopK * (turn - 1) \in Int
      BY LoopAssumption DEF LoopInv, Lists
    <3>7. Cardinality(Full) <= TopK * (turn - 1)
      BY <2>2 DEF LoopInv, Budget
    <3>8. Cardinality(Full') <= TopK * (turn' - 1)
      BY <1>1, <3>5, <3>6, <3>7
    <3>9. QED
      BY <1>1, <2>2, <3>8 DEF Budget
  <2>3. CASE phase \in {"promote", "finish"}
    <3>1. id \in Members(ids)
      BY <2>3 DEF LoopInv, Lists, Flying
    <3>2. FullBefore' = FullBefore
      BY <1>1, <1>3, <3>1 DEF FullBefore, Full
    <3>3. QED
      BY <1>1, <1>3, <2>3, <3>2 DEF LoopInv, Budget
  <2>4. QED
    BY <2>1, <2>2, <2>3
<1>9. QED
  BY <1>2, <1>5, <1>6, <1>7, <1>8 DEF LoopInv

\* A death, wherever it strikes, leaves rows of runs that are over.
LEMMA DriverDiesStep ==
    ASSUME LoopInv, DriverDies
    PROVE  LoopInv'
<1>1. /\ phase' = "ask" /\ turn' = 0
      /\ said' = {} /\ ids' = <<>> /\ wait' = <<>>
  BY DEF DriverDies
<1>2. ToolInv
  BY DEF LoopInv
<1>3. /\ ToolInv' /\ Again
      /\ \A i \in DOMAIN rows' : rows'[i].run <= run
  <2>1. \A i \in DOMAIN rows : rows[i].run <= run
    BY <1>2 DEF ToolInv, RunsPast
  <2>2. CASE Restart
    BY <1>2, <2>1, <2>2, RestartStep DEF Restart
  <2>3. ASSUME NEW delta \in Deltas, NEW parent \in 0..MaxRows,
               DieProposing(delta, parent)
        PROVE  /\ ToolInv' /\ Again
               /\ \A i \in DOMAIN rows' : rows'[i].run <= run
    <3> DEFINE c == Merged(delta, parent)
    <3>1. c \in Configs
      BY <1>2, MergedConfig DEF ToolInv
    <3>2. Again /\ rows' = Append(rows, Row(c, "proposed"))
      BY <2>3 DEF DieProposing
    <3> HIDE DEF c
    <3>3. Row(c, "proposed") \in RowType /\ Row(c, "proposed").run = run
      BY <1>2, <3>1 DEF ToolInv, ToolTypeOK, Row, RowType
    <3>4. /\ DOMAIN rows' = DOMAIN rows \cup {Len(rows) + 1}
          /\ \A i \in DOMAIN rows : rows'[i] = rows[i]
          /\ rows'[Len(rows) + 1] = Row(c, "proposed")
      BY <1>2, <3>2, <3>3, RowAdded DEF ToolInv, ToolTypeOK
    <3>5. run \in Nat
      BY <1>2, ToolAssumption DEF ToolInv, ToolTypeOK
    <3>6. ToolInv'
      BY <1>2, <2>3, DieProposingStep
    <3>7. QED
      BY <2>1, <3>2, <3>3, <3>4, <3>5, <3>6
  <2>4. ASSUME NEW id \in DOMAIN tasks, DieCollecting(id)
        PROVE  /\ ToolInv' /\ Again
               /\ \A i \in DOMAIN rows' : rows'[i].run <= run
    <3>1. Again /\ rows' = [rows EXCEPT ![id] = Recorded(@, tasks[id].results)]
      BY <2>4 DEF DieCollecting
    <3>2. /\ DOMAIN rows' = DOMAIN rows
          /\ \A i \in DOMAIN rows : rows'[i].run = rows[i].run
      BY <1>2, <3>1, OutcomeRecorded
    <3>3. QED
      BY <1>2, <2>1, <2>4, <3>1, <3>2, DieCollectingStep
  <2>5. QED
    BY <2>2, <2>3, <2>4 DEF DriverDies, DieCollecting
<1>4. DOMAIN tasks' = {} /\ run' = run + 1 /\ run \in Nat
  BY <1>2, <1>3, ToolAssumption DEF Again, ToolInv, ToolTypeOK
<1>5. Lists' /\ Promoting'
  BY <1>1, NoList, FS_EmptySet, LoopAssumption DEF Lists, Promoting
<1>6. Flying' /\ SeedQuiet'
  BY <1>1, <1>4 DEF Flying, SeedQuiet
<1>7. Budget'
  <2>1. \A i \in DOMAIN rows' : rows'[i].run \in Nat
    <3>1. \A i \in DOMAIN rows' : rows'[i] \in RowType'
      BY <1>3 DEF ToolInv, ToolTypeOK
    <3>2. QED
      BY <3>1, ToolAssumption DEF RowType
  <2>2. \A i \in DOMAIN rows' : rows'[i].run # run'
    BY <1>3, <1>4, <2>1
  <2>3. Full' = {}
    BY <2>2 DEF Full
  <2>4. Cardinality(Full') = 0 /\ TopK * turn' = 0
    BY <1>1, <2>3, FS_EmptySet, LoopAssumption
  <2>5. QED
    BY <1>1, <2>4 DEF Budget
<1>8. QED
  BY <1>3, <1>5, <1>6, <1>7 DEF LoopInv

LEMMA LoopStutter ==
    ASSUME LoopInv, UNCHANGED allVars
    PROVE  LoopInv'
<1>1. /\ ToolInv' /\ SeedQuiet'
      /\ rows' = rows /\ tasks' = tasks /\ run' = run /\ quick' = quick
      /\ Full' = Full
  BY ToolAtRest DEF allVars
<1>2. /\ phase' = phase /\ turn' = turn /\ said' = said
      /\ ids' = ids /\ wait' = wait
  BY DEF allVars, loopVars
<1>3. Lists' /\ Flying' /\ Promoting' /\ Budget'
  BY <1>1, <1>2 DEF LoopInv, Lists, Flying, Promoting, Budget, FullBefore
<1>4. QED
  BY <1>1, <1>3 DEF LoopInv

LEMMA LoopInvStep == LoopInv /\ [LoopNext]_allVars => LoopInv'
<1> SUFFICES ASSUME LoopInv, [LoopNext]_allVars PROVE LoopInv'
  OBVIOUS
<1>1. CASE LoopStep
  BY <1>1, StopStep, AskStep, DispatchStep, DispatchedStep, DrainStep,
     DrainedStep, ChooseStep, PromoteNextStep DEF LoopStep
<1>2. CASE ClusterStep
  BY <1>2, LoopPlaceStep, LoopFinishStep DEF ClusterStep, Cluster
<1>3. CASE DriverDies
  BY <1>3, DriverDiesStep
<1>4. CASE UNCHANGED allVars
  BY <1>4, LoopStutter
<1>5. QED
  BY <1>1, <1>2, <1>3, <1>4 DEF LoopNext

-----------------------------------------------------------------------------
(***************************************************************************)
(* The theorems.                                                           *)
(***************************************************************************)

\* The invariant behind the theorems below holds in every state of the loop.
THEOREM LoopInductive == LoopSpec => []LoopInv
BY LoopInitially, LoopInvStep, PTL DEF LoopSpec

\* Type correctness: no list of the loop ever names a candidate that has no
\* row, and none is longer than a reply.
THEOREM LoopTypeCorrect == LoopSpec => []LoopTypeOK
<1>1. LoopInv => LoopTypeOK
  BY DEF LoopInv, ToolInv, Lists, LoopTypeOK, Members
<1>2. QED
  BY <1>1, LoopInductive, PTL

\* drain leaves nothing behind: when the model is asked, and when the search
\* is over, everything this run started has its outcome in the ledger.
THEOREM TurnsSettle == LoopSpec => []SettledBetweenTurns
<1>1. LoopInv => SettledBetweenTurns
  BY DEF LoopInv, ToolInv, NothingForgotten, Flying, SettledBetweenTurns
<1>2. QED
  BY <1>1, LoopInductive, PTL

\* Nothing branches from a directory that a task is working in.
THEOREM SeedsAreQuiet == LoopSpec => []SeedQuiet
<1>1. LoopInv => SeedQuiet
  BY DEF LoopInv
<1>2. QED
  BY <1>1, LoopInductive, PTL

\* A run with a quick evaluation pays for at most TopK full builds a turn.
THEOREM FullBuildsAreBounded == LoopSpec => []FullBuildsBounded
<1>1. LoopInv => FullBuildsBounded
  <2> SUFFICES ASSUME LoopInv, quick
               PROVE  Cardinality(Full) <= TopK * turn
    BY DEF FullBuildsBounded, Full
  <2>1. CASE phase \in {"ask", "over"}
    BY <2>1 DEF LoopInv, Budget
  <2>2. CASE phase \in {"build", "drain", "choose"}
    <3>1. Cardinality(Full) <= TopK * (turn - 1) /\ Cardinality(Full) \in Nat
      BY <2>2, FullFinite DEF LoopInv, Budget
    <3>2. turn - 1 \in Nat /\ turn \in Nat /\ TopK \in Nat
      BY <2>2, LoopAssumption DEF LoopInv, Lists
    <3>3. /\ TopK * (turn - 1) + TopK = TopK * turn
          /\ TopK * (turn - 1) \in Nat /\ TopK * turn \in Nat
      BY <3>2
    <3>4. QED
      BY <3>1, <3>2, <3>3
  <2>3. CASE phase \in {"promote", "finish"}
    <3>1. turn > 0 /\ Len(ids) <= TopK
          /\ Cardinality(FullBefore) <= TopK * (turn - 1)
      BY <2>3 DEF LoopInv, Lists, Promoting, Budget
    <3>2. QED
      BY <3>1, TurnPaid
  <2>4. QED
    BY <2>1, <2>2, <2>3 DEF LoopInv, Lists
<1>2. QED
  BY <1>1, LoopInductive, PTL

\* The rows that the outcome of a task may change.
Awaited(i) ==
    \/ rows[i].status = "proposed"
    \/ rows[i].status = "built" /\ i \in DOMAIN tasks /\ tasks[i].promoted

Forward == \A i \in DOMAIN rows : rows'[i].status # rows[i].status => Awaited(i)

\* The ledger only moves forward: nothing but the outcome of a candidate's own
\* task, its promotion included, changes what its row says.
THEOREM LedgerMovesForward == LoopSpec => LedgerForward
<1>1. LoopInv /\ LoopNext => Forward
  <2> SUFFICES ASSUME LoopInv, LoopNext PROVE Forward
    OBVIOUS
  <2>1. ToolInv
    BY DEF LoopInv
  <2>2. ASSUME NEW id \in DOMAIN tasks,
               rows' = [rows EXCEPT ![id] = Recorded(@, tasks[id].results)]
        PROVE  Forward
    <3>1. Awaited(id)
      BY <2>1 DEF ToolInv, InFlight, Awaited
    <3>2. \A i \in DOMAIN rows : i # id => rows'[i] = rows[i]
      BY <2>1, <2>2, OutcomeRecorded
    <3>3. QED
      BY <3>1, <3>2 DEF Forward
  <2>3. ASSUME \A i \in DOMAIN rows : rows'[i].status = rows[i].status
        PROVE  Forward
    BY <2>3 DEF Forward
  <2>4. ASSUME rows' = rows PROVE Forward
    BY <2>4 DEF Forward
  <2>5. CASE LoopStep
    <3>1. ASSUME NEW delta \in Deltas, NEW parent \in 0..MaxRows,
                 Dispatch(delta, parent)
          PROVE  Forward
      <4>1. \A i \in DOMAIN rows : rows'[i] = rows[i]
        BY <2>1, <3>1, RowProposed DEF Dispatch
      <4>2. QED
        BY <4>1, <2>3
    <3>2. CASE Drain
      BY <3>2, <2>2 DEF Drain, Collect
    <3>3. ASSUME Stop \/ Ask \/ Dispatched \/ Drained \/ Choose \/ PromoteNext
          PROVE  rows' = rows
      BY <3>3 DEF Stop, Ask, Dispatched, Drained, Choose, PromoteNext,
                  Promote, toolVars
    <3>4. QED
      BY <2>5, <2>4, <3>1, <3>2, <3>3 DEF LoopStep
  <2>6. CASE ClusterStep
    <3>1. ASSUME NEW id \in DOMAIN tasks, Place(id) PROVE Forward
      BY <3>1, <2>4 DEF Place
    <3>2. ASSUME NEW id \in DOMAIN tasks, Finish(id) PROVE Forward
      <4>1. \A i \in DOMAIN rows : rows'[i].status = rows[i].status
        BY <2>1, <3>2, TaskEnds
      <4>2. QED
        BY <4>1, <2>3
    <3>3. QED
      BY <2>6, <3>1, <3>2 DEF ClusterStep, Cluster
  <2>7. CASE DriverDies
    <3>1. CASE Restart
      BY <3>1, <2>4 DEF Restart
    <3>2. ASSUME NEW delta \in Deltas, NEW parent \in 0..MaxRows,
                 DieProposing(delta, parent)
          PROVE  Forward
      <4>1. rows' = Append(rows, Row(Merged(delta, parent), "proposed"))
        BY <3>2 DEF DieProposing
      <4>2. rows \in Seq(RowType)
        BY <2>1 DEF ToolInv, ToolTypeOK
      <4>3. \A i \in DOMAIN rows : rows'[i] = rows[i]
        BY <4>1, <4>2
      <4>4. QED
        BY <4>3, <2>3
    <3>3. ASSUME NEW id \in DOMAIN tasks, DieCollecting(id) PROVE Forward
      BY <3>3, <2>2 DEF DieCollecting
    <3>4. QED
      BY <2>7, <3>1, <3>2, <3>3 DEF DriverDies, DieCollecting
  <2>8. QED
    BY <2>5, <2>6, <2>7 DEF LoopNext
<1>2. LoopInv /\ [LoopNext]_allVars => [Forward]_allVars
  BY <1>1
<1>3. [][Forward]_allVars => LedgerForward
  <2>1. [Forward]_allVars =>
          [\A i \in DOMAIN rows :
              rows'[i].status # rows[i].status =>
                 \/ rows[i].status = "proposed"
                 \/ rows[i].status = "built" /\ i \in DOMAIN tasks
                       /\ tasks[i].promoted]_allVars
    BY DEF Forward, Awaited
  <2>2. QED
    BY <2>1, PTL DEF LedgerForward
<1>4. QED
  BY <1>2, <1>3, LoopInductive, PTL DEF LoopSpec

\* What AgentTool promises holds in the loop too, promotions included: ledger
\* and failure log agree, children inherit, no candidate is forgotten.
THEOREM LoopKeepsLedger ==
    LoopSpec => [](LogMatchesLedger /\ SeedInherited /\ NothingForgotten)
<1>1. LoopInv => LogMatchesLedger /\ SeedInherited /\ NothingForgotten
  BY KeptLog DEF LoopInv, ToolInv
<1>2. QED
  BY <1>1, LoopInductive, PTL

\* Nothing on record is built again by the loop either: the tasks it starts
\* for a second time are promotions.
THEOREM LoopRebuildsNothing == LoopSpec => NoRebuild
<1>1. LoopInv /\ LoopNext => NewToTheRecord
  <2> SUFFICES ASSUME LoopInv, LoopNext PROVE NewToTheRecord
    OBVIOUS
  <2>1. ToolInv
    BY DEF LoopInv
  <2>2. ASSUME DOMAIN tasks' \subseteq DOMAIN tasks
        PROVE  NewToTheRecord
    BY <2>2 DEF NewToTheRecord
  <2>3. ASSUME NEW delta \in Deltas, NEW parent \in 0..MaxRows,
               Dispatch(delta, parent)
        PROVE  NewToTheRecord
    BY <2>1, <2>2, <2>3, SubmitsNew DEF Dispatch, Refuse
  <2>4. CASE Drain
    BY <2>2, <2>4 DEF Drain, Collect, Drop
  <2>5. CASE PromoteNext
    <3>1. CASE wait = <<>>
      BY <2>2, <2>5, <3>1 DEF PromoteNext, toolVars
    <3>2. CASE wait # <<>>
      <4>1. tasks' = [i \in DOMAIN tasks \cup {Head(wait)} |->
                         IF i = Head(wait) THEN Task(0, TRUE) ELSE tasks[i]]
        BY <2>5, <3>2 DEF PromoteNext, Promote
      <4>2. \A id \in DOMAIN tasks' \ DOMAIN tasks : tasks'[id] = Task(0, TRUE)
        BY <4>1
      <4>3. QED
        BY <4>2 DEF NewToTheRecord, Task
    <3>3. QED
      BY <3>1, <3>2
  <2>6. CASE Stop \/ Ask \/ Dispatched \/ Drained \/ Choose
    BY <2>2, <2>6 DEF Stop, Ask, Dispatched, Drained, Choose, toolVars
  <2>7. CASE ClusterStep
    BY <2>2, <2>7 DEF ClusterStep, Cluster, Place, Finish
  <2>8. CASE DriverDies
    BY <2>2, <2>8 DEF DriverDies, Restart, DieProposing, DieCollecting, Again
  <2>9. QED
    BY <2>3, <2>4, <2>5, <2>6, <2>7, <2>8 DEF LoopNext, LoopStep
<1>2. LoopInv /\ [LoopNext]_allVars => [NewToTheRecord]_toolVars
  BY <1>1 DEF allVars, toolVars
<1>3. [][NewToTheRecord]_toolVars => NoRebuild
  <2>1. [NewToTheRecord]_toolVars =>
          [\A id \in DOMAIN tasks' \ DOMAIN tasks :
              LET c == rows'[id].knobs IN
              ~ tasks'[id].promoted /\ Key(c) = Clean(c) =>
                 \A i \in DOMAIN rows :
                    OnRecord(i, c) => run > 1 /\ Clean(c) \in Missing]_toolVars
    BY DEF NewToTheRecord
  <2>2. QED
    BY <2>1, PTL DEF NoRebuild
<1>4. QED
  BY <1>2, <1>3, LoopInductive, PTL DEF LoopSpec

-----------------------------------------------------------------------------
(***************************************************************************)
(* The driver promotes as CandidateTree's Promote takes for granted.       *)
(***************************************************************************)

\* What is in flight or recorded of a quick evaluation.
Quick ==
    /\ \A id \in DOMAIN tasks :
          quick /\ ~ tasks[id].promoted => tasks[id].results \in Outcomes(quick, FALSE)
    /\ phase \in {"drain", "choose"} =>
          \A c \in Members(ids) \ DOMAIN tasks :
             quick /\ rows[c].status = "built" => rows[c].stage = "gate"
    /\ phase = "promote" => \A c \in Members(wait) : rows[c].stage = "gate"

QuickInv == LoopInv /\ Quick

\* A quick evaluation that is recorded as built stopped at the gate.
LEMMA QuickRecorded ==
    ASSUME ToolInv, NEW id \in DOMAIN tasks, quick,
           tasks[id].results \in Outcomes(quick, FALSE),
           Recorded(rows[id], tasks[id].results).status = "built"
    PROVE  Recorded(rows[id], tasks[id].results).stage = "gate"
<1> DEFINE results == tasks[id].results
<1>1. rows[id] \in RowType
  BY DEF ToolInv, ToolTypeOK
<1>2. CASE results = <<>>
  BY <1>1, <1>2 DEF Recorded, RowType
<1>3. CASE results # <<>>
  <2>1. PICK b \in BOOLEAN : results = <<[stage |-> "gate", success |-> b]>>
    BY <1>3 DEF Outcomes
  <2>2. Last(results).stage = "gate"
    BY <2>1 DEF Last
  <2>3. QED
    BY <1>1, <1>3, <2>2 DEF Recorded, RowType
<1>4. QED
  BY <1>2, <1>3

\* A reply starts quick evaluations or full flows, never promotions.
LEMMA DispatchTasks ==
    ASSUME NEW delta, NEW parent, Dispatch(delta, parent)
    PROVE  \A id \in DOMAIN tasks' :
              \/ id \in DOMAIN tasks /\ tasks'[id] = tasks[id]
              \/ ~ tasks'[id].promoted /\ tasks'[id].results = <<>>
<1>1. CASE Refuse(delta, parent)
  BY <1>1 DEF Refuse
<1>2. CASE Submit(delta, parent)
  <2>1. tasks' = [i \in DOMAIN tasks \cup {Len(rows) + 1} |->
                    IF i = Len(rows) + 1 THEN Task(SeedOf(parent), FALSE)
                                         ELSE tasks[i]]
    BY <1>2 DEF Submit
  <2>2. ~ Task(SeedOf(parent), FALSE).promoted
    BY DEF Task
  <2>3. Task(SeedOf(parent), FALSE).results = <<>>
    BY DEF Task
  <2>4. QED
    BY <2>1, <2>2, <2>3
<1>3. QED
  BY <1>1, <1>2 DEF Dispatch

LEMMA QuickStep == QuickInv /\ LoopNext => Quick'
<1> SUFFICES ASSUME QuickInv, LoopNext PROVE Quick'
  OBVIOUS
<1>1. ToolInv /\ Lists /\ Flying /\ Promoting /\ Quick
  BY DEF QuickInv, LoopInv
<1>2. ASSUME NEW delta \in Deltas, NEW parent \in 0..MaxRows,
             Dispatch(delta, parent)
      PROVE  Quick'
  <2>1. phase = "build" /\ phase' = "build" /\ quick' = quick
    BY <1>2 DEF Dispatch, Refuse, Submit
  <2>2. <<>> \in Outcomes(quick, FALSE)
    BY DEF Outcomes
  <2>3. QED
    BY <1>1, <1>2, <2>1, <2>2, DispatchTasks DEF Quick
<1>3. CASE Stop \/ Ask
  <2>1. phase' \in {"over", "build"} /\ tasks' = tasks /\ quick' = quick
    BY <1>3 DEF Stop, Ask, toolVars
  <2>2. QED
    BY <1>1, <2>1 DEF Quick
<1>4. CASE Dispatched
  BY <1>1, <1>4 DEF Dispatched, Quick, toolVars, Flying
<1>5. CASE Drain
  <2> DEFINE id == Head(wait)
  <2>1. /\ phase \in {"drain", "finish"} /\ Collect(id) /\ id \in DOMAIN tasks
        /\ UNCHANGED <<phase, turn, said, ids>>
    BY <1>5 DEF Drain, Collect
  <2> HIDE DEF id
  <2>2. /\ DOMAIN tasks' = DOMAIN tasks \ {id}
        /\ \A i \in DOMAIN tasks' : tasks'[i] = tasks[i]
        /\ rows' = [rows EXCEPT ![id] = Recorded(@, tasks[id].results)]
        /\ quick' = quick
    BY <2>1 DEF Collect, Drop
  <2>3. \A i \in DOMAIN rows : i # id => rows'[i] = rows[i]
    BY <1>1, <2>1, <2>2, OutcomeRecorded
  <2>4. id \in DOMAIN rows /\ rows \in Seq(RowType)
    BY <1>1, <2>1 DEF ToolInv, ToolTypeOK
  <2>5. rows'[id] = Recorded(rows[id], tasks[id].results)
    BY <2>2, <2>4
  <2>6. CASE phase = "finish"
    BY <1>1, <2>1, <2>2, <2>6 DEF Quick
  <2>7. CASE phase = "drain"
    <3>1. ~ tasks[id].promoted
      BY <1>1, <2>1, <2>7 DEF Flying
    <3>2. quick /\ rows'[id].status = "built" => rows'[id].stage = "gate"
      BY <1>1, <2>1, <2>5, <3>1, QuickRecorded DEF Quick
    <3>3. ASSUME NEW c \in Members(ids) \ DOMAIN tasks',
                 quick, rows'[c].status = "built"
          PROVE  rows'[c].stage = "gate"
      <4>1. c \in DOMAIN rows
        BY <1>1, <3>3 DEF Lists
      <4>2. QED
        BY <1>1, <2>2, <2>3, <2>7, <3>2, <3>3, <4>1 DEF Quick
    <3>4. Members(ids') = Members(ids)
      BY <2>1
    <3>5. QED
      BY <1>1, <2>1, <2>2, <2>7, <3>3, <3>4 DEF Quick
  <2>8. QED
    BY <2>1, <2>6, <2>7
<1>6. CASE Drained
  BY <1>1, <1>6 DEF Drained, Quick, toolVars
<1>7. CASE Choose
  <2>1. PICK chosen \in Best :
           /\ wait' = chosen /\ ids' = chosen
           /\ phase' = IF chosen = <<>> THEN "ask" ELSE "promote"
           /\ phase = "choose" /\ UNCHANGED toolVars
    BY <1>7 DEF Choose
  <2>2. /\ Members(chosen) \subseteq Members(ids)
        /\ \A c \in Members(chosen) : rows[c].status = "built"
    BY <1>1, Ranked, LoopAssumption DEF Lists
  <2>3. DOMAIN tasks = {} /\ quick
    BY <1>1, <2>1 DEF Flying, Promoting
  <2>4. \A c \in Members(wait') : rows'[c].stage = "gate"
    BY <1>1, <2>1, <2>2, <2>3 DEF Quick, toolVars
  <2>5. QED
    BY <2>1, <2>3, <2>4 DEF Quick, toolVars
<1>8. CASE PromoteNext
  <2>1. CASE wait # <<>>
    <3>1. /\ phase = "promote" /\ phase' = "promote" /\ wait' = Tail(wait)
          /\ rows' = rows /\ quick' = quick
          /\ tasks' = [i \in DOMAIN tasks \cup {Head(wait)} |->
                          IF i = Head(wait) THEN Task(0, TRUE) ELSE tasks[i]]
      BY <1>8, <2>1 DEF PromoteNext, Promote
    <3>2. Members(wait') \subseteq Members(wait)
      BY <1>1, <2>1, <3>1, TakenOff DEF Lists
    <3>3. Task(0, TRUE).promoted
      BY DEF Task
    <3>4. QED
      BY <1>1, <3>1, <3>2, <3>3 DEF Quick
  <2>2. CASE wait = <<>>
    BY <1>1, <1>8, <2>2 DEF PromoteNext, Quick, toolVars
  <2>3. QED
    BY <2>1, <2>2
<1>9. CASE ClusterStep
  <2>1. /\ phase' = phase /\ ids' = ids /\ wait' = wait
    BY <1>9 DEF ClusterStep, loopVars
  <2>2. tasks \in [DOMAIN tasks -> TaskType]
    BY <1>1 DEF ToolInv, ToolTypeOK
  <2>3. ASSUME NEW id \in DOMAIN tasks, Place(id) PROVE Quick'
    <3>1. /\ tasks' = [tasks EXCEPT ![id].state = "running"]
          /\ rows' = rows /\ quick' = quick
      BY <2>3 DEF Place
    <3>2. /\ DOMAIN tasks' = DOMAIN tasks
          /\ \A i \in DOMAIN tasks : /\ tasks'[i].promoted = tasks[i].promoted
                                     /\ tasks'[i].results = tasks[i].results
      BY <2>2, <3>1 DEF TaskType
    <3>3. QED
      BY <1>1, <2>1, <3>1, <3>2 DEF Quick
  <2>4. ASSUME NEW id \in DOMAIN tasks, Finish(id) PROVE Quick'
    <3>1. PICK results \in Outcomes(quick, tasks[id].promoted) :
             /\ tasks' = [tasks EXCEPT ![id].state = "done", ![id].results = results]
             /\ rows' = [rows EXCEPT ![id].spent = @ + Len(results)]
             /\ quick' = quick
      BY <2>4 DEF Finish
    <3>2. /\ DOMAIN tasks' = DOMAIN tasks
          /\ \A i \in DOMAIN tasks :
                /\ tasks'[i].promoted = tasks[i].promoted
                /\ tasks'[i].results = IF i = id THEN results ELSE tasks[i].results
      BY <2>2, <3>1 DEF TaskType
    <3>3. /\ rows \in Seq(RowType) /\ id \in DOMAIN rows
          /\ \A i \in DOMAIN rows : rows[i] \in RowType
      BY <1>1, <2>4 DEF ToolInv, ToolTypeOK
    <3>4. \A i \in DOMAIN rows : /\ rows'[i].status = rows[i].status
                                /\ rows'[i].stage = rows[i].stage
      BY <3>1, <3>3 DEF RowType
    <3>5. Members(ids) \subseteq DOMAIN rows /\ Members(wait) \subseteq Members(ids)
      BY <1>1 DEF Lists
    <3>6. ~ tasks[id].promoted => results \in Outcomes(quick, FALSE)
      <4>1. ~ tasks[id].promoted => tasks[id].promoted = FALSE
        BY <2>2 DEF TaskType
      <4>2. QED
        BY <3>1, <4>1
    <3>7. \A i \in DOMAIN tasks' :
             quick' /\ ~ tasks'[i].promoted => tasks'[i].results \in Outcomes(quick', FALSE)
      <4>1. Outcomes(quick', FALSE) = Outcomes(quick, FALSE)
        BY <3>1
      <4>2. \A i \in DOMAIN tasks : quick /\ ~ tasks[i].promoted
                                       => tasks[i].results \in Outcomes(quick, FALSE)
        BY <1>1 DEF Quick
      <4>3. quick' <=> quick
        BY <3>1
      <4>4. ASSUME NEW i \in DOMAIN tasks, quick, ~ tasks'[i].promoted
            PROVE  tasks'[i].results \in Outcomes(quick, FALSE)
        BY <3>2, <3>6, <4>2, <4>4
      <4>5. QED
        BY <3>2, <4>1, <4>3, <4>4
    <3>8. Members(ids') = Members(ids) /\ Members(wait') = Members(wait)
      BY <2>1
    <3>9. /\ phase' \in {"drain", "choose"} =>
                \A c \in Members(ids') \ DOMAIN tasks' :
                   quick' /\ rows'[c].status = "built" => rows'[c].stage = "gate"
          /\ phase' = "promote" => \A c \in Members(wait') : rows'[c].stage = "gate"
      BY <1>1, <2>1, <3>1, <3>2, <3>4, <3>5, <3>8 DEF Quick
    <3>10. QED
      BY <3>7, <3>9 DEF Quick
  <2>5. QED
    BY <1>9, <2>3, <2>4 DEF ClusterStep, Cluster
<1>10. CASE DriverDies
  <2>1. phase' = "ask" /\ tasks' = <<>>
    BY <1>10 DEF DriverDies, Restart, DieProposing, DieCollecting, Again
  <2>2. DOMAIN tasks' = {}
    BY <2>1
  <2>3. QED
    BY <2>1, <2>2 DEF Quick
<1>11. QED
  BY <1>2, <1>3, <1>4, <1>5, <1>6, <1>7, <1>8, <1>9, <1>10
     DEF LoopNext, LoopStep

Promotable ==
    \A id \in DOMAIN tasks' :
        tasks'[id].promoted =>
           \/ id \in DOMAIN tasks /\ tasks[id].promoted
           \/ /\ quick /\ id \notin DOMAIN tasks
              /\ rows[id].run = run
              /\ rows[id].status = "built" /\ rows[id].stage = "gate"

LEMMA StepPromotes == QuickInv /\ LoopNext => Promotable
<1> SUFFICES ASSUME QuickInv, LoopNext PROVE Promotable
  OBVIOUS
<1>1. ToolInv /\ Lists /\ Flying /\ Promoting /\ Quick
  BY DEF QuickInv, LoopInv
<1>2. ASSUME \A id \in DOMAIN tasks' :
                ~ tasks'[id].promoted \/ (id \in DOMAIN tasks /\ tasks[id].promoted)
      PROVE  Promotable
  BY <1>2 DEF Promotable
<1>3. ASSUME NEW delta \in Deltas, NEW parent \in 0..MaxRows,
             Dispatch(delta, parent)
      PROVE  Promotable
  BY <1>2, <1>3, DispatchTasks
<1>4. CASE Stop \/ Ask \/ Dispatched \/ Drained \/ Choose
  BY <1>2, <1>4 DEF Stop, Ask, Dispatched, Drained, Choose, toolVars
<1>5. CASE Drain
  BY <1>2, <1>5 DEF Drain, Collect, Drop
<1>6. CASE PromoteNext
  <2>1. CASE wait # <<>>
    <3>1. /\ phase = "promote"
          /\ tasks' = [i \in DOMAIN tasks \cup {Head(wait)} |->
                          IF i = Head(wait) THEN Task(0, TRUE) ELSE tasks[i]]
      BY <1>6, <2>1 DEF PromoteNext, Promote
    <3>2. Head(wait) \in Members(wait) /\ Head(wait) \in Members(ids)
      BY <1>1, <2>1, TakenOff DEF Lists
    <3>3. quick /\ Head(wait) \notin DOMAIN tasks
      BY <1>1, <3>1, <3>2 DEF Promoting, Flying
    <3>4. /\ rows[Head(wait)].run = run
          /\ rows[Head(wait)].status = "built" /\ rows[Head(wait)].stage = "gate"
      BY <1>1, <3>1, <3>2 DEF Lists, Promoting, Quick
    <3>5. QED
      BY <3>1, <3>3, <3>4 DEF Promotable
  <2>2. CASE wait = <<>>
    BY <1>2, <1>6, <2>2 DEF PromoteNext, toolVars
  <2>3. QED
    BY <2>1, <2>2
<1>7. CASE ClusterStep
  <2>1. tasks \in [DOMAIN tasks -> TaskType]
    BY <1>1 DEF ToolInv, ToolTypeOK
  <2>2. PICK i \in DOMAIN tasks : Place(i) \/ Finish(i)
    BY <1>7 DEF ClusterStep, Cluster
  <2>3. DOMAIN tasks' = DOMAIN tasks
    BY <2>2 DEF Place, Finish
  <2>4. ASSUME NEW id \in DOMAIN tasks PROVE tasks'[id].promoted = tasks[id].promoted
    <3>1. tasks[id] \in TaskType
      BY <2>1
    <3>2. CASE Place(i)
      BY <3>1, <3>2, <2>1 DEF Place, TaskType
    <3>3. CASE Finish(i)
      BY <3>1, <3>3, <2>1 DEF Finish, TaskType
    <3>4. QED
      BY <2>2, <3>2, <3>3
  <2>5. QED
    BY <1>2, <2>3, <2>4
<1>8. CASE DriverDies
  <2>1. tasks' = <<>>
    BY <1>8 DEF DriverDies, Restart, DieProposing, DieCollecting, Again
  <2>2. DOMAIN <<>> = {}
    OBVIOUS
  <2>3. QED
    BY <2>1, <2>2 DEF Promotable
<1>9. QED
  BY <1>3, <1>4, <1>5, <1>6, <1>7, <1>8 DEF LoopNext, LoopStep

\* A candidate is promoted by the run that built it, once, after its quick
\* evaluation was recorded as built at the gate.
THEOREM EachPromotedOnce == LoopSpec => PromotedOnce
<1>1. LoopInit => Quick
  <2>1. DOMAIN <<>> = {}
    OBVIOUS
  <2>2. QED
    BY <2>1 DEF LoopInit, ToolInit, Start, Quick
<1>2. LoopInv /\ Quick /\ [LoopNext]_allVars => Quick'
  <2>1. UNCHANGED allVars /\ Quick => Quick'
    BY DEF allVars, toolVars, loopVars, Quick, Members, Outcomes
  <2>2. QED
    BY <2>1, QuickStep DEF QuickInv
<1>3. LoopInv /\ Quick /\ [LoopNext]_allVars =>
        [\A id \in DOMAIN tasks' :
            tasks'[id].promoted =>
               \/ id \in DOMAIN tasks /\ tasks[id].promoted
               \/ /\ quick /\ id \notin DOMAIN tasks
                  /\ rows[id].run = run
                  /\ rows[id].status = "built" /\ rows[id].stage = "gate"]_allVars
  BY StepPromotes DEF QuickInv, Promotable
<1>4. QED
  BY <1>1, <1>2, <1>3, LoopInductive, PTL DEF LoopSpec, PromotedOnce

-----------------------------------------------------------------------------
(***************************************************************************)
(* Every step takes something off what is left (Descent).                  *)
(***************************************************************************)

\* The places of Left, and how far a phase is from the end of its turn.
Ahead(p) ==
    [build |-> 6, drain |-> 5, choose |-> 4, promote |-> 3, finish |-> 2,
     ask |-> 1, over |-> 0][p]

InPlace ==
    /\ DOMAIN Left = 1..7
    /\ Left[1] = (run + 1)..MaxRuns
    /\ Left[2] = (turn + 1)..Turns
    /\ Left[3] = 1..Ahead(phase)
    /\ Left[4] = (Cardinality(said) + 1)..PerTurn
    /\ Left[5] = 1..Len(wait)
    /\ Left[6] = {id \in DOMAIN tasks : tasks[id].state = "waiting"}
    /\ Left[7] = {id \in DOMAIN tasks : tasks[id].state # "done"}

LEMMA LeftInPlace == InPlace /\ InPlace'
BY DEF InPlace, Left, Ahead

LEMMA PhasesAhead ==
    /\ Ahead("build") = 6 /\ Ahead("drain") = 5 /\ Ahead("choose") = 4
    /\ Ahead("promote") = 3 /\ Ahead("finish") = 2 /\ Ahead("ask") = 1
    /\ Ahead("over") = 0
BY DEF Ahead

\* What makes the tuple smaller, place by place.
LEMMA Shrinks ==
    ASSUME NEW i \in 1..7, Left'[i] \subseteq Left[i], Left'[i] # Left[i],
           \A j \in 1..7 : j < i => Left'[j] = Left[j]
    PROVE  Less(Left', Left)
BY LeftInPlace DEF InPlace, Less

\* A counter that goes up leaves fewer numbers above it; a shorter list has
\* fewer places.
LEMMA Fewer ==
    ASSUME NEW m \in Nat, NEW n \in Nat, m < n
    PROVE  /\ \A top \in Nat : n <= top =>
                 /\ (n + 1)..top \subseteq (m + 1)..top
                 /\ (n + 1)..top # (m + 1)..top
           /\ 1..m \subseteq 1..n /\ 1..m # 1..n
<1>1. n \in 1..n /\ n \notin 1..m
  OBVIOUS
<1>2. ASSUME NEW top \in Nat, n <= top
      PROVE  /\ n \in (m + 1)..top /\ n \notin (n + 1)..top
             /\ (n + 1)..top \subseteq (m + 1)..top
  BY <1>2
<1>3. QED
  BY <1>1, <1>2

\* A phase further, in the same run and turn.
LEMMA PhaseTaken ==
    ASSUME UNCHANGED <<run, turn>>,
           Ahead(phase) \in Nat, Ahead(phase') \in Nat, Ahead(phase') < Ahead(phase)
    PROVE  Less(Left', Left)
<1>1. Left'[3] \subseteq Left[3] /\ Left'[3] # Left[3]
  BY LeftInPlace, Fewer DEF InPlace
<1>2. Left'[1] = Left[1] /\ Left'[2] = Left[2]
  BY LeftInPlace DEF InPlace
<1>3. \A j \in 1..7 : j < 3 => Left'[j] = Left[j]
  BY <1>2
<1>4. QED
  BY <1>1, <1>3, Shrinks

\* One more of the list at hand dealt with, in the same phase.
LEMMA ListTaken ==
    ASSUME LoopInv, wait # <<>>, wait' = Tail(wait),
           UNCHANGED <<run, turn, phase, said>>
    PROVE  Less(Left', Left)
<1>1. Len(wait') \in Nat /\ Len(wait) \in Nat /\ Len(wait') < Len(wait)
  BY DEF LoopInv, Lists
<1>2. Left'[5] \subseteq Left[5] /\ Left'[5] # Left[5]
  BY <1>1, LeftInPlace, Fewer DEF InPlace
<1>3. /\ Left'[1] = Left[1] /\ Left'[2] = Left[2]
      /\ Left'[3] = Left[3] /\ Left'[4] = Left[4]
  BY LeftInPlace DEF InPlace
<1>4. \A j \in 1..7 : j < 5 => Left'[j] = Left[j]
  BY <1>3
<1>5. QED
  BY <1>2, <1>4, Shrinks

LEMMA StepAdvances == LoopInv /\ LoopNext => Less(Left', Left)
<1> SUFFICES ASSUME LoopInv, LoopNext PROVE Less(Left', Left)
  OBVIOUS
<1>1. /\ ToolInv /\ Lists
      /\ run \in 1..MaxRuns /\ turn \in 0..Turns /\ Cardinality(said) \in Nat
      /\ MaxRuns \in Nat /\ Turns \in Nat /\ PerTurn \in Nat
      /\ tasks \in [DOMAIN tasks -> TaskType]
  BY ToolAssumption, LoopAssumption, FS_CardinalityType
     DEF LoopInv, Lists, ToolInv, ToolTypeOK
<1>2. CASE Stop
  <2>1. phase = "ask" /\ phase' = "over" /\ UNCHANGED <<run, turn>>
    BY <1>2 DEF Stop, toolVars
  <2>2. QED
    BY <2>1, PhaseTaken, PhasesAhead
<1>3. CASE Ask
  <2>1. turn < Turns /\ turn' = turn + 1 /\ run' = run
    BY <1>3 DEF Ask, toolVars
  <2>2. Left'[2] \subseteq Left[2] /\ Left'[2] # Left[2]
    BY <1>1, <2>1, LeftInPlace, Fewer DEF InPlace
  <2>3. Left'[1] = Left[1]
    BY <2>1, LeftInPlace DEF InPlace
  <2>4. \A j \in 1..7 : j < 2 => Left'[j] = Left[j]
    BY <2>3
  <2>5. QED
    BY <2>2, <2>4, Shrinks
<1>4. ASSUME NEW delta \in Deltas, NEW parent \in 0..MaxRows,
             Dispatch(delta, parent)
      PROVE  Less(Left', Left)
  <2>1. /\ delta \notin said /\ said' = said \cup {delta}
        /\ Cardinality(said) < PerTurn /\ UNCHANGED <<run, turn, phase>>
    BY <1>4 DEF Dispatch, Refuse, Submit
  <2>2. Cardinality(said') = Cardinality(said) + 1
    BY <1>1, <2>1, FS_AddElement DEF Lists
  <2>3. Left'[4] \subseteq Left[4] /\ Left'[4] # Left[4]
    BY <1>1, <2>1, <2>2, LeftInPlace, Fewer DEF InPlace
  <2>4. Left'[1] = Left[1] /\ Left'[2] = Left[2] /\ Left'[3] = Left[3]
    BY <2>1, LeftInPlace DEF InPlace
  <2>5. \A j \in 1..7 : j < 4 => Left'[j] = Left[j]
    BY <2>4
  <2>6. QED
    BY <2>3, <2>5, Shrinks
<1>5. CASE Dispatched
  <2>1. phase = "build" /\ phase' = "drain" /\ UNCHANGED <<run, turn>>
    BY <1>5 DEF Dispatched, toolVars
  <2>2. QED
    BY <2>1, PhaseTaken, PhasesAhead
<1>6. CASE Drain
  BY <1>6, ListTaken DEF Drain, Collect
<1>7. CASE Drained
  <2>1. /\ UNCHANGED <<run, turn>>
        /\ \/ phase = "drain" /\ phase' \in {"choose", "ask"}
           \/ phase = "finish" /\ phase' = "ask"
    BY <1>7 DEF Drained, toolVars
  <2>2. QED
    BY <2>1, PhaseTaken, PhasesAhead
<1>8. CASE Choose
  <2>1. phase = "choose" /\ phase' \in {"ask", "promote"} /\ UNCHANGED <<run, turn>>
    BY <1>8 DEF Choose, toolVars
  <2>2. QED
    BY <2>1, PhaseTaken, PhasesAhead
<1>9. CASE PromoteNext
  <2>1. CASE wait # <<>>
    BY <1>9, <2>1, ListTaken DEF PromoteNext, Promote
  <2>2. CASE wait = <<>>
    <3>1. phase = "promote" /\ phase' = "finish" /\ UNCHANGED <<run, turn>>
      BY <1>9, <2>2 DEF PromoteNext, toolVars
    <3>2. QED
      BY <3>1, PhaseTaken, PhasesAhead
  <2>3. QED
    BY <2>1, <2>2
<1>10. CASE ClusterStep
  <2>1. /\ UNCHANGED <<run, turn, phase, said, wait>>
        /\ \E id \in DOMAIN tasks : Place(id) \/ Finish(id)
    BY <1>10 DEF ClusterStep, Cluster, Place, Finish, loopVars
  <2>2. /\ Left'[1] = Left[1] /\ Left'[2] = Left[2] /\ Left'[3] = Left[3]
        /\ Left'[4] = Left[4] /\ Left'[5] = Left[5]
    BY <2>1, LeftInPlace DEF InPlace
  <2>3. ASSUME NEW id \in DOMAIN tasks, Place(id) PROVE Less(Left', Left)
    <3>1. /\ tasks[id].state = "waiting" /\ DOMAIN tasks' = DOMAIN tasks
          /\ \A i \in DOMAIN tasks :
                tasks'[i].state = IF i = id THEN "running" ELSE tasks[i].state
      BY <1>1, <2>3 DEF Place, TaskType
    <3>2. id \in Left[6] /\ id \notin Left'[6] /\ Left'[6] \subseteq Left[6]
      BY <3>1, LeftInPlace DEF InPlace
    <3>3. \A j \in 1..7 : j < 6 => Left'[j] = Left[j]
      BY <2>2
    <3>4. QED
      BY <3>2, <3>3, Shrinks
  <2>4. ASSUME NEW id \in DOMAIN tasks, Finish(id) PROVE Less(Left', Left)
    <3>1. /\ tasks[id].state = "running" /\ DOMAIN tasks' = DOMAIN tasks
          /\ tasks'[id].state = "done"
          /\ \A i \in DOMAIN tasks : i # id => tasks'[i] = tasks[i]
      BY <1>1, <2>4, TaskEnds
    <3>2. id \in Left[7] /\ id \notin Left'[7] /\ Left'[7] \subseteq Left[7]
      BY <3>1, LeftInPlace DEF InPlace
    <3>3. Left'[6] = Left[6]
      BY <3>1, LeftInPlace DEF InPlace
    <3>4. \A j \in 1..7 : j < 7 => Left'[j] = Left[j]
      BY <2>2, <3>3
    <3>5. QED
      BY <3>2, <3>4, Shrinks
  <2>5. QED
    BY <2>1, <2>3, <2>4
<1>11. CASE DriverDies
  <2>1. run < MaxRuns /\ run' = run + 1
    BY <1>11 DEF DriverDies, Restart, DieProposing, DieCollecting, Again
  <2>2. Left'[1] \subseteq Left[1] /\ Left'[1] # Left[1]
    BY <1>1, <2>1, LeftInPlace, Fewer DEF InPlace
  <2>3. \A j \in 1..7 : j < 1 => Left'[j] = Left[j]
    OBVIOUS
  <2>4. QED
    BY <2>2, <2>3, Shrinks
<1>12. QED
  BY <1>2, <1>3, <1>4, <1>5, <1>6, <1>7, <1>8, <1>9, <1>10, <1>11
     DEF LoopNext, LoopStep

\* No step of the search goes in a circle, for any turns, proposals, slots and
\* deaths of the driver.
THEOREM LoopAlwaysAdvances == LoopSpec => LoopAdvances
<1>1. LoopInv /\ [LoopNext]_allVars => [Less(Left', Left)]_allVars
  BY StepAdvances
<1>2. QED
  BY <1>1, LoopInductive, PTL DEF LoopSpec, LoopAdvances
=============================================================================
