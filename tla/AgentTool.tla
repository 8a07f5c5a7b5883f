----------------------------- MODULE AgentTool -----------------------------
(***************************************************************************)
(* What an agent can do to the search: propose_candidate and               *)
(* candidate_status of orfs_tools.py over the candidate ledger             *)
(* (candidate_store.py), the failure log and the tasks in flight.          *)
(*                                                                         *)
(* The ledger and the failure log are files and outlive the process; the   *)
(* tasks, _pending and the run token do not.  Each handler runs to its end *)
(* before the next one starts; the builds run beside them.                 *)
(*                                                                         *)
(* A value is what the agent wrote (20, 20.0, "20"): proposals are checked *)
(* against ledger and log by the text str gives it, failures are logged    *)
(* under the text _coerce gave it for make.                                *)
(***************************************************************************)
EXTENDS Naturals, Sequences, FiniteSets, TaskOutcome

CONSTANTS
    Knobs, Values, Unset,
    Texts,        \* what values are written as
    Str,          \* str(value)
    Coerce,       \* Coerce[k]: what _coerce makes of k's values
    Allowed,      \* Allowed[k]: the values the policy lets an agent set
    Deltas,       \* the knob mappings an agent may write down
    Modes,        \* the values multi_fidelity may have
    Slots,        \* `orfs` slots of the cluster
    DriverSlots,  \* slots the driver keeps for itself
    MaxRows,      \* bound: rows the ledger gets
    MaxRuns       \* bound: times the driver is started

Configs == [Knobs -> Values \cup {Unset}]
Keys    == [Knobs -> Texts \cup {Unset}]

\* A legal value whose str is the text make was given for a legal value is
\* given to make as that text: the policy takes no bool where "True" or
\* "False" is a legal word.
ASSUME ToolAssumption ==
    /\ Unset \notin Values \cup Texts
    /\ Str \in [Values -> Texts]
    /\ Coerce \in [Knobs -> [Values -> Texts]]
    /\ \A k \in Knobs : \A v, w \in Allowed[k] :
          Str[v] = Coerce[k][w] => Coerce[k][v] = Coerce[k][w]
    /\ Allowed \in [Knobs -> SUBSET Values]
    /\ Deltas \subseteq Configs
    /\ Modes \subseteq BOOLEAN
    /\ Slots \in Nat /\ DriverSlots \in Nat
    /\ MaxRows \in Nat /\ MaxRuns \in Nat \ {0}

VARIABLES
    rows,      \* the ledger: one row per proposal, its id the position
    knownBad,  \* the keys of the failure log in memory
    logged,    \* the keys its file would give, read now
    ended,     \* the last line of the file has its newline
    loose,     \* the key that only a last line without newline holds
    tasks,     \* _pending: candidate id -> the task it waits for
    run,       \* which start of the driver this is (the run token)
    quick      \* multi_fidelity

logVars  == <<knownBad, logged, ended, loose>>
toolVars == <<rows, logVars, tasks, run, quick>>

Settled == {"built", "failed"}

\* spent is history: the stages the candidate's tasks have run.  parent_id, a
\* label that no handler reads back, is left out.
Row(c, status) ==
    [knobs |-> c, status |-> status, stage |-> "none", tool_runs |-> 0,
     spent |-> 0, run |-> run]

Task(seed, promoted) ==
    [state |-> "waiting", seed |-> seed, promoted |-> promoted,
     results |-> <<>>]

ToolInit ==
    /\ rows = <<>>
    /\ knownBad = {} /\ logged = {} /\ ended = TRUE /\ loose = {}
    /\ tasks = <<>>
    /\ run = 1
    /\ quick \in Modes

-----------------------------------------------------------------------------
Written(text, c) == [k \in Knobs |-> IF c[k] = Unset THEN Unset ELSE text[k][c[k]]]

\* knob_key of a mapping as it was proposed, and of r.knobs, what it was
\* cleaned to on its way to make.
Key(c)   == Written([k \in Knobs |-> Str], c)
Clean(c) == Written(Coerce, c)

\* KnobPolicy.check
Legal(c) == \A k \in Knobs : c[k] \in Allowed[k] \cup {Unset}

\* Mutant: a refinement is the delta alone.
DeltaAlone(delta, parent) == delta

\* A delta overrides what the parent's row, whatever its status, has set.
Merged(delta, parent) ==
    IF parent \in DOMAIN rows
    THEN [k \in Knobs |->
             IF delta[k] # Unset THEN delta[k] ELSE rows[parent].knobs[k]]
    ELSE delta

\* CandidateStore.seen: the newest row that settled with this key was built.
SeenBuilt(c) ==
    \E i \in DOMAIN rows :
        /\ Key(rows[i].knobs) = Key(c) /\ rows[i].status = "built"
        /\ \A j \in DOMAIN rows :
              j > i => ~(Key(rows[j].knobs) = Key(c) /\ rows[j].status \in Settled)

Refused(c) == ~Legal(c) \/ Key(c) \in knownBad \/ SeenBuilt(c)

\* branch_from: the parent's tree if its row says built, else the shared
\* placement (0).
SeedOf(parent) ==
    IF parent \in DOMAIN rows /\ rows[parent].status = "built"
    THEN parent ELSE 0

\* The row is written first and set to rejected when a check fails.
Refuse(delta, parent) ==
    LET c == Merged(delta, parent) IN
    /\ Len(rows) < MaxRows
    /\ Refused(c)
    /\ rows' = Append(rows, Row(c, "rejected"))
    /\ UNCHANGED <<logVars, tasks, run, quick>>

\* Mutant: the ledger is not asked.
SubmitUnasked(delta, parent) ==
    LET c == Merged(delta, parent)
        id == Len(rows) + 1
    IN
    /\ Len(rows) < MaxRows
    /\ Legal(c) /\ Key(c) \notin knownBad
    /\ rows' = Append(rows, Row(c, "proposed"))
    /\ tasks' = [i \in DOMAIN tasks \cup {id} |->
                    IF i = id THEN Task(SeedOf(parent), FALSE) ELSE tasks[i]]
    /\ UNCHANGED <<logVars, run, quick>>

Submit(delta, parent) ==
    LET c == Merged(delta, parent)
        id == Len(rows) + 1
    IN
    /\ Len(rows) < MaxRows
    /\ ~Refused(c)
    /\ rows' = Append(rows, Row(c, "proposed"))
    /\ tasks' = [i \in DOMAIN tasks \cup {id} |->
                    IF i = id THEN Task(SeedOf(parent), FALSE) ELSE tasks[i]]
    /\ UNCHANGED <<logVars, run, quick>>

Propose(delta, parent) == Refuse(delta, parent) \/ Submit(delta, parent)

\* promote_candidate: another task on the same directory, without branching.
\* Only the driver can call it.
Promote(id) ==
    /\ id \in DOMAIN rows
    /\ tasks' = [i \in DOMAIN tasks \cup {id} |->
                    IF i = id THEN Task(0, TRUE) ELSE tasks[i]]
    /\ UNCHANGED <<rows, logVars, run, quick>>

-----------------------------------------------------------------------------
\* The cluster.  A task runs when its OpenROADNode gets a slot.
Place(id) ==
    /\ id \in DOMAIN tasks /\ tasks[id].state = "waiting"
    /\ Cardinality({i \in DOMAIN tasks : tasks[i].state = "running"})
          + DriverSlots < Slots
    /\ tasks' = [tasks EXCEPT ![id].state = "running"]
    /\ UNCHANGED <<rows, logVars, run, quick>>

\* The outcomes are those CandidateTree's ImplementsTask establishes.
Finish(id) ==
    /\ id \in DOMAIN tasks /\ tasks[id].state = "running"
    /\ \E results \in Outcomes(quick, tasks[id].promoted) :
          /\ tasks' = [tasks EXCEPT ![id].state = "done",
                                    ![id].results = results]
          /\ rows' = [rows EXCEPT ![id].spent = @ + Len(results)]
    /\ UNCHANGED <<logVars, run, quick>>

-----------------------------------------------------------------------------
Last(results) == results[Len(results)]

\* CandidateStore.record, or reject when the task raised.
Recorded(row, results) ==
    IF results = <<>> THEN [row EXCEPT !.status = "rejected"]
    ELSE [row EXCEPT !.status = IF Last(results).success
                                THEN "built" ELSE "failed",
                     !.stage = Last(results).stage,
                     !.tool_runs = Len(results)]

Fails(results) == \E i \in DOMAIN results : ~results[i].success

Drop(id) == [i \in DOMAIN tasks \ {id} |-> tasks[i]]

\* FailureLog.record, in a run that does not die in it.  After an unterminated
\* line the record is swallowed by it, and what the line held is gone too.
RecordFailure(key) ==
    /\ knownBad' = knownBad \cup {key}
    /\ logged' = IF ended THEN logged \cup {key} ELSE logged \ loose
    /\ ended' = TRUE /\ loose' = {}

\* Mutants: only the gate's failures are logged; the task is dropped from
\* _pending although it is not done.
CollectGateOnly(id) ==
    /\ id \in DOMAIN tasks /\ tasks[id].state = "done"
    /\ tasks' = Drop(id)
    /\ rows' = [rows EXCEPT ![id] = Recorded(@, tasks[id].results)]
    /\ IF tasks[id].results # <<>> /\ ~tasks[id].results[1].success
       THEN RecordFailure(Clean(rows[id].knobs)) ELSE UNCHANGED logVars
    /\ UNCHANGED <<run, quick>>

CollectEarly(id) ==
    /\ id \in DOMAIN tasks
    /\ tasks' = Drop(id)
    /\ IF tasks[id].state # "done"
       THEN UNCHANGED <<rows, logVars>>
       ELSE /\ rows' = [rows EXCEPT ![id] = Recorded(@, tasks[id].results)]
            /\ IF Fails(tasks[id].results)
               THEN RecordFailure(Clean(rows[id].knobs)) ELSE UNCHANGED logVars
    /\ UNCHANGED <<run, quick>>

\* candidate_status on a task that is done: ledger first, then the failure
\* log.  On one that is not, it changes nothing.
Collect(id) ==
    /\ id \in DOMAIN tasks /\ tasks[id].state = "done"
    /\ tasks' = Drop(id)
    /\ rows' = [rows EXCEPT ![id] = Recorded(@, tasks[id].results)]
    /\ IF Fails(tasks[id].results)
       THEN RecordFailure(Clean(rows[id].knobs)) ELSE UNCHANGED logVars
    /\ UNCHANGED <<run, quick>>

-----------------------------------------------------------------------------
\* The driver ends, or dies, and is started again on the same files: the log
\* is read back, the tasks are gone.
Again ==
    /\ run < MaxRuns
    /\ run' = run + 1
    /\ tasks' = <<>>
    /\ knownBad' = logged'
    /\ UNCHANGED quick

Restart == UNCHANGED <<rows, logged, ended, loose>> /\ Again

\* It dies after the row was written and before the task was submitted.
DieProposing(delta, parent) ==
    /\ Len(rows) < MaxRows
    /\ rows' = Append(rows, Row(Merged(delta, parent), "proposed"))
    /\ UNCHANGED <<logged, ended, loose>>
    /\ Again

\* What of a record whose write is cut short: a part of it, or all of it but
\* the newline.
CutShort(key) ==
    /\ ended' = FALSE
    /\ IF ended THEN \/ UNCHANGED <<logged, loose>>
                     \/ logged' = logged \cup {key} /\ loose' = {key} \ logged
                ELSE logged' = logged \ loose /\ loose' = {}

\* It dies between the ledger and the failure log, or in the write to the log.
DieCollecting(id) ==
    /\ id \in DOMAIN tasks /\ tasks[id].state = "done"
    /\ rows' = [rows EXCEPT ![id] = Recorded(@, tasks[id].results)]
    /\ \/ UNCHANGED <<logged, ended, loose>>
       \/ Fails(tasks[id].results) /\ CutShort(Clean(rows[id].knobs))
    /\ Again

Cluster == \E id \in DOMAIN tasks : Place(id) \/ Finish(id)

Death ==
    \/ Restart
    \/ \E delta \in Deltas, parent \in 0..MaxRows : DieProposing(delta, parent)
    \/ \E id \in DOMAIN tasks : DieCollecting(id)

\* An agent over MCP calls what it likes when it likes.
ToolNext ==
    \/ \E delta \in Deltas, parent \in 0..MaxRows : Propose(delta, parent)
    \/ \E id \in DOMAIN tasks : Collect(id)
    \/ Cluster
    \/ Death

ToolSpec == ToolInit /\ [][ToolNext]_toolVars

-----------------------------------------------------------------------------
Results == UNION {Outcomes(quick, p) : p \in BOOLEAN}

RowType == [knobs : Configs, status : {"proposed", "rejected"} \cup Settled,
            stage : {"none", "gate", "finish"}, tool_runs : 0..2, spent : Nat,
            run : 1..MaxRuns]

TaskType == [state : {"waiting", "running", "done"}, seed : 0..MaxRows,
             promoted : BOOLEAN, results : Results]

\* Type invariant.
ToolTypeOK ==
    /\ rows \in Seq(RowType)
    /\ Len(rows) <= MaxRows
    /\ knownBad \subseteq Keys /\ logged \subseteq Keys /\ loose \subseteq logged
    /\ ended \in BOOLEAN
    /\ DOMAIN tasks \subseteq DOMAIN rows
    /\ tasks \in [DOMAIN tasks -> TaskType]
    /\ run \in 1..MaxRuns
    /\ quick \in BOOLEAN

\* The configurations that failed, as make was given them, and those of them
\* whose record the file has not kept.
FailedKeys == {Clean(rows[i].knobs) : i \in {j \in DOMAIN rows :
                                                 rows[j].status = "failed"}}
Missing == FailedKeys \ logged

\* The ledger and the failure log are written one after the other and read
\* together: the log has nothing that is not a failed row's, in memory and in
\* the file, and of the failed rows' configurations the file lacks at most two
\* for each time the driver died, the record it was writing and the next one,
\* which the torn line swallows.
LogMatchesLedger ==
    /\ logged \subseteq knownBad /\ knownBad \subseteq FailedKeys
    /\ Cardinality(Missing) <= 2 * (run - 1)

\* Row i is the outcome of c: a failure of the same command line, however it was
\* spelled, or a success proposed in the same words.
OnRecord(i, c) ==
    \/ rows[i].status = "failed" /\ Clean(rows[i].knobs) = Clean(c)
    \/ rows[i].status = "built" /\ Key(rows[i].knobs) = Key(c)

\* A configuration written the way make is given it is not built again once its
\* outcome is on record, by the same agent or after a restart, whatever was in
\* flight when it was proposed.  Only a failure that a death kept out of the
\* file can be repeated.  (Not so otherwise: 20.0 for an int knob is logged as 20
\* when it fails, so the very same words are not known bad and are built again.)
NoRebuild ==
    [][\A id \in DOMAIN tasks' \ DOMAIN tasks :
          LET c == rows'[id].knobs IN
          ~tasks'[id].promoted /\ Key(c) = Clean(c) =>
             \A i \in DOMAIN rows :
                OnRecord(i, c) => run > 1 /\ Clean(c) \in Missing]_toolVars

\* What branch copies from a parent was built with knobs the child sets too:
\* the assumption Inherits that CandidateTree makes of its seed.
SeedInherited ==
    \A id \in DOMAIN tasks : tasks[id].seed # 0 =>
        /\ tasks[id].seed \in DOMAIN rows
        /\ \A k \in Knobs : rows[tasks[id].seed].knobs[k] # Unset =>
                               rows[id].knobs[k] # Unset

\* No candidate is forgotten while the driver lives: a row of this run that
\* still says proposed has a task in _pending whose outcome will replace it,
\* and a task in _pending belongs to a row of this run.
NothingForgotten ==
    /\ \A i \in DOMAIN rows :
          rows[i].run = run /\ rows[i].status = "proposed" => i \in DOMAIN tasks
    /\ \A id \in DOMAIN tasks : rows[id].run = run

\* The comment on the seed in propose_candidate: branch from the named
\* parent's tree when given one.  The tree has the run token of the run that
\* built it in its name, so it must be a parent of this run.
ParentTreeExists ==
    \A id \in DOMAIN tasks :
        tasks[id].seed # 0 => rows[tasks[id].seed].run = run
=============================================================================
