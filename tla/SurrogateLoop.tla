--------------------------- MODULE SurrogateLoop ---------------------------
(***************************************************************************)
(* The search driven by the program: run_iterations (iterate.py) asks the  *)
(* model once per turn and build() (surrogate_loop.py) proposes, waits for *)
(* all of it, promotes the best few of a quick evaluation and waits again. *)
(* The driver works through AgentTool's handlers, in its own process, and  *)
(* keeps an OpenROADNode of its own from start to end.                     *)
(*                                                                         *)
(* What the model answers is any choice of legal deltas and parents; which *)
(* results rank first is any choice too.                                   *)
(***************************************************************************)
EXTENDS AgentTool, Descent

CONSTANTS
    Turns,    \* iterations
    PerTurn,  \* proposals per turn
    TopK      \* --promote

ASSUME LoopAssumption ==
    Turns \in Nat /\ PerTurn \in Nat \ {0} /\ TopK \in Nat \ {0}

VARIABLES
    phase,  \* "ask", "build", "drain", "choose", "promote", "finish", "over"
    turn,   \* turns asked for
    said,   \* the deltas of this turn's reply handled so far
    ids,    \* the candidates this turn started, in order
    wait    \* the candidates still to promote or to wait for, in order

loopVars == <<phase, turn, said, ids, wait>>
allVars  == <<toolVars, loopVars>>

Start ==
    /\ phase = "ask" /\ turn = 0
    /\ said = {} /\ ids = <<>> /\ wait = <<>>

LoopInit == ToolInit /\ Start

-----------------------------------------------------------------------------
\* The model call failed, the reply had no legal proposal, or the turns (or
\* the bound on the ledger) are used up.
Stop ==
    /\ phase = "ask"
    /\ phase' = "over"
    /\ UNCHANGED <<toolVars, turn, said, ids, wait>>

Ask ==
    /\ phase = "ask"
    /\ turn < Turns
    /\ Len(rows) + PerTurn <= MaxRows
    /\ phase' = "build"
    /\ turn' = turn + 1
    /\ said' = {} /\ ids' = <<>> /\ wait' = <<>>
    /\ UNCHANGED toolVars

\* Mutant: a delta that was already there is built again.
DispatchRepeats(delta, parent) ==
    /\ phase = "build"
    /\ Legal(delta)
    /\ Cardinality(said) < PerTurn
    /\ \/ Refuse(delta, parent) /\ UNCHANGED ids
       \/ Submit(delta, parent) /\ ids' = Append(ids, Len(rows'))
    /\ said' = said \cup {delta}
    /\ UNCHANGED <<phase, turn, wait>>

\* parse_proposals keeps legal deltas, each once, at most PerTurn of them; the
\* parent is whatever number the model wrote.  Candidates that started are
\* the ones to wait for.
Dispatch(delta, parent) ==
    /\ phase = "build"
    /\ Legal(delta) /\ delta \notin said
    /\ Cardinality(said) < PerTurn
    /\ \/ Refuse(delta, parent) /\ UNCHANGED ids
       \/ Submit(delta, parent) /\ ids' = Append(ids, Len(rows'))
    /\ said' = said \cup {delta}
    /\ UNCHANGED <<phase, turn, wait>>

\* The reply is used up: drain(ids).
Dispatched ==
    /\ phase = "build"
    /\ said # {}
    /\ phase' = "drain"
    /\ wait' = ids
    /\ UNCHANGED <<toolVars, turn, said, ids>>

\* Mutant: the wait for a candidate ends when its status does not say running.
DrainLooking ==
    /\ phase \in {"drain", "finish"}
    /\ wait # <<>>
    /\ tasks[Head(wait)].state # "running"
    /\ IF tasks[Head(wait)].state = "done" THEN Collect(Head(wait))
                                           ELSE UNCHANGED toolVars
    /\ wait' = Tail(wait)
    /\ UNCHANGED <<phase, turn, said, ids>>

\* drain: poll one candidate until its status says neither running nor
\* starting up.
Drain ==
    /\ phase \in {"drain", "finish"}
    /\ wait # <<>>
    /\ Collect(Head(wait))
    /\ wait' = Tail(wait)
    /\ UNCHANGED <<phase, turn, said, ids>>

\* Mutant: what a promotion built is looked over for promotion again.
DrainedAgain ==
    /\ phase \in {"drain", "finish"}
    /\ wait = <<>>
    /\ phase' = IF quick THEN "choose" ELSE "ask"
    /\ UNCHANGED <<toolVars, turn, said, ids, wait>>

Drained ==
    /\ phase \in {"drain", "finish"}
    /\ wait = <<>>
    /\ phase' = IF phase = "drain" /\ quick THEN "choose" ELSE "ask"
    /\ UNCHANGED <<toolVars, turn, said, ids, wait>>

OfTurn(statuses) ==
    {id \in {ids[i] : i \in DOMAIN ids} : rows[id].status \in statuses}

\* At most n members of S in some order.
Rankings(S, n) ==
    {s \in UNION {[1..m -> S] : m \in 0..n} :
        \A i, j \in DOMAIN s : s[i] = s[j] => i = j}

\* Mutants: everything that passed the gate is promoted; what did not pass it
\* is ranked too.
BestAll == Rankings(OfTurn({"built"}), PerTurn)
BestSettled == Rankings(OfTurn(Settled), TopK)

\* The candidates ranked first: built, with a slack to compare, best first.
Best == Rankings(OfTurn({"built"}), TopK)

\* Mutant: with nothing to promote the loop looks again.
ChooseAgain ==
    /\ phase = "choose"
    /\ \E chosen \in Best :
          /\ wait' = chosen
          /\ ids' = IF chosen = <<>> THEN ids ELSE chosen
          /\ phase' = IF chosen = <<>> THEN "drain" ELSE "promote"
    /\ UNCHANGED <<toolVars, turn, said>>

Choose ==
    /\ phase = "choose"
    /\ \E chosen \in Best :
          /\ wait' = chosen
          /\ ids' = chosen
          /\ phase' = IF chosen = <<>> THEN "ask" ELSE "promote"
    /\ UNCHANGED <<toolVars, turn, said>>

\* Mutant: build returns once the promotions are submitted.
PromoteAndReturn ==
    /\ phase = "promote"
    /\ IF wait # <<>>
       THEN /\ Promote(Head(wait))
            /\ wait' = Tail(wait)
            /\ UNCHANGED phase
       ELSE /\ phase' = "ask"
            /\ wait' = <<>>
            /\ UNCHANGED toolVars
    /\ UNCHANGED <<turn, said, ids>>

PromoteNext ==
    /\ phase = "promote"
    /\ IF wait # <<>>
       THEN /\ Promote(Head(wait))
            /\ wait' = Tail(wait)
            /\ UNCHANGED phase
       ELSE /\ phase' = "finish"
            /\ wait' = ids
            /\ UNCHANGED toolVars
    /\ UNCHANGED <<turn, said, ids>>

\* The driver dies anywhere, between two steps or inside a handler, and is
\* started again on the same ledger and log.
DriverDies ==
    /\ \/ Restart
       \/ phase = "build" /\ \E delta \in Deltas, parent \in 0..MaxRows :
                                Legal(delta) /\ DieProposing(delta, parent)
       \/ phase \in {"drain", "finish"} /\ wait # <<>>
             /\ DieCollecting(Head(wait))
    /\ phase' = "ask" /\ turn' = 0
    /\ said' = {} /\ ids' = <<>> /\ wait' = <<>>

LoopStep ==
    \/ Stop
    \/ Ask
    \/ \E delta \in Deltas, parent \in 0..MaxRows : Dispatch(delta, parent)
    \/ Dispatched
    \/ Drain
    \/ Drained
    \/ Choose
    \/ PromoteNext

ClusterStep == Cluster /\ UNCHANGED loopVars

LoopNext == LoopStep \/ ClusterStep \/ DriverDies

\* The driver is a running program and never blocks but in Drain; a slot that
\* is free is given to a task that waits, and every stage ends, at its timeout
\* at the latest.
LoopSpec ==
    LoopInit /\ [][LoopNext]_allVars
             /\ WF_allVars(LoopStep) /\ WF_allVars(ClusterStep)

-----------------------------------------------------------------------------
\* Type invariant.
LoopTypeOK ==
    /\ ToolTypeOK
    /\ phase \in {"ask", "build", "drain", "choose", "promote", "finish", "over"}
    /\ turn \in 0..Turns
    /\ said \subseteq Deltas
    /\ Len(ids) <= PerTurn /\ Len(wait) <= PerTurn
    /\ \A i \in DOMAIN ids : ids[i] \in DOMAIN rows
    /\ \A i \in DOMAIN wait : wait[i] \in DOMAIN rows

\* Whenever the model is asked, and when the search is over, everything this
\* run started has its outcome in the ledger: nothing is in flight and no row
\* of the run still says proposed, so that the prompt leaves nothing out and
\* no build is killed at the end.
SettledBetweenTurns ==
    phase \in {"ask", "over"} =>
        /\ DOMAIN tasks = {}
        /\ \A i \in DOMAIN rows : rows[i].run = run => rows[i].status # "proposed"

\* A candidate never branches from a directory that another task is working
\* in: parents are quiet while their children copy from them.
SeedQuiet ==
    \A id \in DOMAIN tasks :
        tasks[id].seed # 0 => tasks[id].seed \notin DOMAIN tasks

\* A multi-fidelity run pays for at most TopK full builds a turn.
FullBuildsBounded ==
    quick => Cardinality({i \in DOMAIN rows :
                             rows[i].run = run /\ rows[i].spent > 1})
                <= TopK * turn

\* The ledger only moves forward: a rejected or failed row never changes, and
\* a built one only by the outcome of its own promotion.
LedgerForward ==
    [][\A i \in DOMAIN rows :
          rows'[i].status # rows[i].status =>
             \/ rows[i].status = "proposed"
             \/ rows[i].status = "built" /\ i \in DOMAIN tasks
                   /\ tasks[i].promoted]_allVars

\* What CandidateTree's Promote takes for granted: a candidate is promoted by
\* the run whose token its directory has, when its quick evaluation is over,
\* was recorded and succeeded, and never a second time.
PromotedOnce ==
    [][\A id \in DOMAIN tasks' :
          tasks'[id].promoted =>
             \/ id \in DOMAIN tasks /\ tasks[id].promoted
             \/ /\ quick /\ id \notin DOMAIN tasks
                /\ rows[id].run = run
                /\ rows[id].status = "built" /\ rows[id].stage = "gate"]_allVars

\* What the search has still to go through, the weightiest first: starts of the
\* driver, turns, the phases of a turn, the deltas of a reply, the list at
\* hand, tasks that have no slot, tasks that are not done.
Left ==
    <<(run + 1)..MaxRuns,
      (turn + 1)..Turns,
      1..[build |-> 6, drain |-> 5, choose |-> 4, promote |-> 3, finish |-> 2,
          ask |-> 1, over |-> 0][phase],
      (Cardinality(said) + 1)..PerTurn,
      1..Len(wait),
      {id \in DOMAIN tasks : tasks[id].state = "waiting"},
      {id \in DOMAIN tasks : tasks[id].state # "done"}>>

\* No step of the driver or of the cluster goes in a circle, whatever ranks
\* first and whenever the driver dies: the search can only be kept from its
\* end by standing still.
LoopAdvances == [][Less(Left', Left)]_allVars

\* The search ends: every wait for a slot, for a build and for the promotions
\* is over some time, as long as the driver leaves the cluster a slot.
LoopEnds == <>[](phase = "over")
=============================================================================
