--------------------------- MODULE CandidateTree ---------------------------
(***************************************************************************)
(* The work directory of one candidate, from the task that builds it to    *)
(* its promotion: _run_candidate and promote_candidate of orfs_tools.py    *)
(* over branch, run_flow and run_stage of openroad.py.                     *)
(*                                                                         *)
(* The task is a Ray task and so is each of its stages: when a worker dies *)
(* Ray runs again what died, on the directory the dead attempt left.  The  *)
(* seed directory (the shared placement, or the tree of the parent         *)
(* candidate) was built before and does not change meanwhile.              *)
(***************************************************************************)
EXTENDS WorkHome, Sequences, Descent

CONSTANTS
    Seeds,        \* what the candidate may be branched from
    Gate,         \* run_flow's gate stage
    Through,      \* the last stage branch copies
    MaxAttempts   \* times Ray starts the task

\* upTo is the last stage the seed was built to; 0 is a directory that does
\* not exist.
ASSUME TreeAssumption ==
    /\ Seeds \subseteq [knobs : Configs, upTo : 0..N]
    /\ Gate \in 1..(N - 1)
    /\ Through \in Stages
    /\ MaxAttempts \in Nat \ {0}

VARIABLES
    seed,      \* branch_from
    want,      \* the candidate's knobs
    quick,     \* multi_fidelity: build to the gate only, promote later
    phase,     \* "queued", "branching", "flow", "done" or "lost"
    promoted,  \* the task is the one promote_candidate submitted
    copied,    \* the files branch has copied in this attempt
    todo,      \* the stages run_flow has still to run
    results,   \* what run_flow has collected
    attempts   \* starts of the current task and of its stages after a death

jobVars  == <<seed, want, quick, phase, promoted, copied, todo, results,
              attempts>>
treeVars == <<vars, jobVars>>

\* A refinement inherits its parent's knobs and overrides some of them
\* (propose_candidate); from the shared placement any knobs may follow.
Inherits(c, parent) == SetIn(parent) \subseteq SetIn(c)

TreeInit ==
    /\ Init
    /\ seed \in Seeds
    /\ want \in {c \in Requests : Inherits(c, seed.knobs)}
    /\ quick \in BOOLEAN
    /\ phase = "queued"
    /\ promoted = FALSE
    /\ copied = {}
    /\ todo = <<>>
    /\ results = <<>>
    /\ attempts = 0

-----------------------------------------------------------------------------
\* Mutant: the gate is skipped.
PlanUngated == <<IF quick /\ ~promoted THEN Gate ELSE N>>

\* The stages run_flow goes through: the gate first, unless there is none.
Plan == IF promoted THEN <<N>> ELSE IF quick THEN <<Gate>> ELSE <<Gate, N>>

\* Mutant: a promotion branches again.
StartBranching ==
    /\ phase = "queued"
    /\ phase' = "branching"
    /\ attempts' = attempts + 1
    /\ copied' = {}
    /\ todo' = Plan
    /\ results' = <<>>
    /\ UNCHANGED <<vars, seed, want, quick, promoted>>

\* Only the first task branches; a promotion is submitted with branch_from
\* None and works on what the directory holds.
Start ==
    /\ phase = "queued"
    /\ phase' = IF promoted THEN "flow" ELSE "branching"
    /\ attempts' = attempts + 1
    /\ copied' = {}
    /\ todo' = Plan
    /\ results' = <<>>
    /\ UNCHANGED <<vars, seed, want, quick, promoted>>

ToCopy == {t \in 1..seed.upTo : Prefix(t) <= Through} \ copied

\* shutil.copy2 of one checkpoint: it replaces the file there, with the file
\* time it has in the seed, older than anything built in this directory.
CopyFile(t) ==
    /\ phase = "branching"
    /\ t \in ToCopy
    /\ \A u \in ToCopy : t <= u
    /\ tree' = [u \in Present \cup {t} |->
                   IF u = t THEN Fresh(seed.knobs, t) ELSE tree[u]]
    /\ outdated' = outdated \ {t}
    /\ copied' = copied \cup {t}
    /\ UNCHANGED <<manifest, pc, callVars, doomed, result, seed, want, quick,
                   phase, promoted, todo, results, attempts>>

\* Mutant: branch records the knobs of the candidate it branches for.
CopyOwnManifest ==
    /\ phase = "branching"
    /\ ToCopy = {}
    /\ manifest' = want
    /\ phase' = "flow"
    /\ UNCHANGED <<tree, outdated, pc, callVars, doomed, result, seed, want,
                   quick, promoted, copied, todo, results, attempts>>

\* The end of branch: the seed's manifest, or {} if there is none.
CopyManifest ==
    /\ phase = "branching"
    /\ ToCopy = {}
    /\ manifest' = IF seed.upTo = 0 THEN NoKnobs ELSE seed.knobs
    /\ phase' = "flow"
    /\ UNCHANGED <<tree, outdated, pc, callVars, doomed, result, seed, want,
                   quick, promoted, copied, todo, results, attempts>>

RunStage ==
    /\ phase = "flow"
    /\ Call(Head(todo), want, FALSE)
    /\ UNCHANGED jobVars

StageStep ==
    /\ \E t \in Targets : Unlink(t) \/ Make(t)
    /\ UNCHANGED jobVars

\* Mutants: the flow goes on after a failure; it runs the same stage again
\* until it succeeds.
StageReturnsRegardless(rc) ==
    /\ Return(rc)
    /\ results' = Append(results, result')
    /\ todo' = Tail(todo)
    /\ phase' = IF todo' = <<>> THEN "done" ELSE "flow"
    /\ UNCHANGED <<seed, want, quick, promoted, copied, attempts>>

StageRetried(rc) ==
    /\ Return(rc)
    /\ todo' = IF result'.success THEN Tail(todo) ELSE todo
    /\ results' = IF result'.success THEN Append(results, result') ELSE results
    /\ phase' = IF todo' = <<>> THEN "done" ELSE "flow"
    /\ UNCHANGED <<seed, want, quick, promoted, copied, attempts>>

\* run_flow appends the result and goes on only after a success.
StageReturns(rc) ==
    /\ Return(rc)
    /\ results' = Append(results, result')
    /\ todo' = IF result'.success THEN Tail(todo) ELSE <<>>
    /\ phase' = IF todo' = <<>> THEN "done" ELSE "flow"
    /\ UNCHANGED <<seed, want, quick, promoted, copied, attempts>>

\* The worker dies at any point of the task, possibly leaving the manifest
\* it was writing or copying truncated.
WorkerDies(torn) ==
    /\ phase \in {"branching", "flow"}
    /\ IF pc = "running"
       THEN Crash(torn)
       ELSE /\ torn => phase = "branching" /\ ToCopy = {}
            /\ manifest' = IF torn THEN NoRecord ELSE manifest
            /\ UNCHANGED <<tree, outdated, pc, callVars, doomed, result>>
    /\ phase' = IF attempts < MaxAttempts THEN "queued" ELSE "lost"
    /\ UNCHANGED <<seed, want, quick, promoted, copied, todo, results, attempts>>

\* Only the worker running the stage dies: Ray runs that call again, on the
\* same directory, without branching again.
StageDies(torn) ==
    /\ attempts < MaxAttempts
    /\ Crash(torn)
    /\ attempts' = attempts + 1
    /\ UNCHANGED <<seed, want, quick, phase, promoted, copied, todo, results>>

\* promote_candidate on a candidate whose quick build succeeded.
Promote ==
    /\ phase = "done"
    /\ quick /\ ~promoted
    /\ results[Len(results)].success
    /\ phase' = "queued"
    /\ promoted' = TRUE
    /\ attempts' = 0
    /\ UNCHANGED <<vars, seed, want, quick, copied, todo, results>>

Progress ==
    \/ Start
    \/ \E t \in Stages : CopyFile(t)
    \/ CopyManifest
    \/ RunStage
    \/ StageStep
    \/ \E rc \in {"ok", "error", "killed"} : StageReturns(rc)

TreeNext ==
    \/ Progress
    \/ Promote
    \/ \E torn \in BOOLEAN : WorkerDies(torn) \/ StageDies(torn)

\* A task that is scheduled runs, and every stage ends: run_stage kills it at
\* the timeout.
TreeSpec == TreeInit /\ [][TreeNext]_treeVars /\ WF_treeVars(Progress)

-----------------------------------------------------------------------------
\* Type invariant.
TreeTypeOK ==
    /\ TypeOK
    /\ seed \in Seeds
    /\ want \in Requests
    /\ quick \in BOOLEAN /\ promoted \in BOOLEAN
    /\ phase \in {"queued", "branching", "flow", "done", "lost"}
    /\ copied \subseteq Stages
    /\ todo \in {<<>>, <<Gate>>, <<N>>, <<Gate, N>>}
    /\ Len(results) <= 2
    /\ attempts \in 0..MaxAttempts

\* Every result a candidate's flow reports, over every branch, worker death,
\* retry and promotion, describes a from-scratch build of the candidate's own
\* knobs; a stage inherited from the seed never shows through.
CandidateFaithful ==
    \A i \in DOMAIN results : results[i].knobs = want /\ Faithful(results[i])

\* A flow that is over reports stages that succeeded, in order, and at most
\* one failure, the last; if there is none the last stage is the one asked.
FlowShape ==
    phase = "done" =>
        /\ results # <<>>
        /\ \A i \in 1..(Len(results) - 1) : results[i].success
        /\ \A i \in DOMAIN results : results[i].target = Plan[i]
        /\ results[Len(results)].success => Len(results) = Len(Plan)

\* Branching over the remains of a dead attempt mixes files of the seed with
\* files of the candidate; once make may start, whatever is in the directory
\* was built with the candidate's own knobs, so that nothing make keeps or
\* leaves lying beyond its target can be another configuration's.
OwnArtifacts ==
    pc = "running" /\ doomed = {} => \A t \in Present : tree[t] = Fresh(want, t)

\* Nothing behind the gate is built before the gate has passed in the same
\* attempt (or, for a promotion, in the quick build).
GateHolds ==
    [][\A t \in DOMAIN tree' \ Present :
          Prefix(t) > Gate =>
             \/ promoted
             \/ /\ results # <<>>
                /\ results[1].success
                /\ results[1].target = Gate]_treeVars

\* A promotion resumes: as long as the manifest the quick build wrote is
\* readable, worker deaths included, no checkpoint in the directory is deleted
\* or replaced by a different one.
PromotionResumes ==
    [][promoted /\ manifest # NoRecord =>
          \A t \in Present : t \in DOMAIN tree' /\ tree'[t] = tree[t]]_treeVars

\* What the task returns of its results, once it is over: whether each stage
\* succeeded, by the names the driver knows; nothing if the task was lost.
Report ==
    IF phase = "done"
    THEN [i \in DOMAIN results |->
             [stage |-> IF results[i].target = Gate THEN "gate" ELSE "finish",
              success |-> results[i].success]]
    ELSE <<>>

JobState ==
    IF phase \in {"done", "lost"} THEN "done"
    ELSE IF phase = "queued" /\ attempts = 0 THEN "waiting" ELSE "running"

\* To the driver the directory, the branching, the deaths and the retries are
\* one task that waits, runs once and ends with an outcome of run_flow's.
Job == INSTANCE BuildTask WITH state <- JobState, results <- Report
ImplementsTask == Job!Spec

\* What a task has still to go through, the weightiest first: a promotion, its
\* starts, the way to its end, the stages of its flow, the call of one, what
\* the call has to delete, what branch has to copy, what make has to build.
Left ==
    <<IF promoted THEN {} ELSE {"promotion"},
      (attempts + 1)..MaxAttempts,
      1..[branching |-> 3, flow |-> 2, queued |-> 1, done |-> 0, lost |-> 0][phase],
      1..Len(todo),
      IF pc = "idle" THEN {"call"} ELSE {},
      doomed,
      ToCopy,
      {t \in Closure(target) : ~ (Closure(t) \subseteq UpToDate)}>>

\* No step, a death and a retry included, ever takes the work back to where it
\* was: the files make sees as outdated by what it has just built, a stage
\* that fails, a retry over what the attempt before left cannot go on for ever.
TaskAdvances == [][Less(Left', Left)]_treeVars

\* Every task ends, with results or as lost after the last attempt.
TaskEnds == phase = "queued" ~> phase \in {"done", "lost"}
=============================================================================
