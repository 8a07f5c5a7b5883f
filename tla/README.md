# CHIA-OpenROAD: a TLA+ development

This directory holds a formal model of `chia_openroad`, the Python layer that
lets an agent tune physical-design knobs by running OpenROAD-flow-scripts
(ORFS) on a Ray cluster. It contains TLA+ modules, TLC configurations that
check them on small instances, and theorems checked by the TLA+ proof system.
`PROJECT.json` maps every definition to the lines it models and lists runs,
mutants, findings, hazards and theorems.

## 1. The system

| Part | Source | State it keeps | Operations |
|---|---|---|---|
| ORFS stage primitives | `chia_openroad/openroad.py` | one *work directory* per configuration on a worker: numbered artifacts, `.chia_orfs_knobs.json` | `run_stage`, `branch`, `run_flow` |
| Reading a directory | `chia_openroad/openroad.py` | step logs, metric JSONs and emitted files of that directory | `read_metrics`, the failure and metrics of a `run_stage`, `emit_artifacts`, `measure_clock`, `collect` |
| Knob tables and policy | `knob_specs.py`, `knob_policy.py` | none (tables) | `earliest_affected_stage`, `KnobPolicy.check` |
| Failure log | `failure_log.py` | dict + append-only JSONL file on the driver | `record`, `known_bad`, `hints`, `_load` |
| Candidate ledger | `candidate_store.py` | SQLite rows, surviving restarts | `propose`, `reject`, `record`, `seen`, `best`, `stats` |
| Agent tool | `orfs_tools.py` | `_pending` (id -> running Ray task), `run_token` | `propose_candidate`, `candidate_status`, `promote_candidate`, queries |
| Iteration loop, driver | `iterate.py`, `examples/openroad_orfs/surrogate_loop.py` | transcript, the driver's own `orfs` slot | `main` (placement, baseline, artifacts, anchors, screen), `run_iterations`, `build` (propose all, drain, promote, drain) |
| Model session | `iterate.py` | the conversation of one turn | `ask`, `ask_with_tools`, `_retrying`, `parse_proposals` |
| Calibration | `calibrate.py`, `run_calibration.py` | the bracket of one knob's bisection, a probe count, the JSON file of measured ranges | `calibrate`, `calibrate_knob`, `load_policy` |
| Surrogates | `surrogate.py`, `surrogates/` | fitted models, scale factors, `k_shot` | `predict`, `calibrate`, `conformance_check` |
| Unused agent, cluster glue, experiments | `agent.py`, `cluster.py`, `experiments/` | none of the search's | |

How they interact. The loop asks the model for knob mappings and calls the
agent tool for each; the tool checks policy, failure log and ledger, and submits
a Ray task that reserves an `orfs` slot, branches the candidate's directory from
the shared placement or a parent's directory, and runs the flow through a gate
stage. The loop polls until every task is over, records results in ledger and
failure log, and may promote the best quick builds to full ones. The ledger and
the log survive the driver; directories are named by a token that does not.

What is hard here. `make` knows file times, not knobs, so correctness of every
number the search sees rests on the manifest and on deleting the right suffix of
the flow. Calls fail and are killed half way; workers die and Ray runs tasks
again over what is left; a candidate's directory mixes files of a parent with
its own. Tasks run concurrently, and in-flight work is invisible to the checks
made before a submission. Slots are finite and the driver occupies one. Files
are torn by a death in the middle of a write.

What makes each part correct:

* work directory: an answer labelled with some knobs is what those knobs build
  from nothing; nothing is deleted that no changed knob can reach;
* candidate build: the same over branch, retries and promotion; the gate is
  never bypassed; a promotion reuses the quick build; the task ends;
* failure log: flags only what failed, forgets nothing over a restart, garbles
  as little as possible over a death;
* agent tool and loop: every started candidate is settled before the next turn,
  the ledger's cost is the cost, no settled configuration is built again, a
  directory is never written while another is branched from it, the loop ends;
* reading a directory: figures, reasons and artifacts are those of the knobs of
  the last call, whatever earlier and failed calls have left lying there;
* calibration: stays in its budget, locates the edges it reports, and the range
  a driver loads was measured;
* set-up and model session: the surrogate claims an anchor only if it has one,
  the screen's order is what its predictions allow, a conversation stays
  well-formed over tool errors and retries, the session ends.

## 2. Modules

**`OrfsFlow`** - the facts about ORFS the code is built on. Stages `1..N` carry
the digit every artifact's name starts with; `Lvs` and `Drc` are the two signoff
targets and share the last digit. `EarliestAffected` is
`earliest_affected_stage`, `NumberedFrom` the choice of files `_invalidate_from`
deletes. What is in a checkpoint is abstracted to *what was read to make it*:
`Fresh(c, t)` records, for every stage behind target `t`, the values of the knobs
that stage reads (`Reads`). Two configurations that differ only in knobs nobody
behind `t` reads therefore have the same checkpoint, which is why keeping it is
right. Tools are taken to be deterministic. `Configs` are cleaned knob mappings
(`_validate_knobs` has passed): spelling matters only in `FailureLog` and `AgentTool`.

**`WorkHome`** - one work directory and the `run_stage` calls on it. A call is a
`Call` step (validate, read the manifest, `Changed`, `InvalidateFrom`), one
`Unlink` step per deleted checkpoint, one `Make` step per target built, and one
`Return` step: `make`'s exit status (`ok` exactly when everything the target
needs is up to date; an error or a kill may come at any time), the manifest
write, and the result read off the disk. A checkpoint stands for all files with
its digit; logs and reports are written and deleted with it, so the final report
is the checkpoint `N`. `outdated` is make's view of file times. `CrashSpec` adds
`Crash`: the worker dies anywhere in a call, possibly in the middle of the
manifest write.

**`FreshBuild`** - the abstract promise: a caller asks for a target under knobs
and is answered from a from-scratch build. No directory, no manifest. `WorkHome`
implements it (`FreshBuildSpec`).

**`CandidateTree`** - extends `WorkHome` with the life of a candidate's
directory: `_run_candidate` as a Ray task (`Start`), `branch` file by file and
then the manifest (`CopyFile`, `CopyManifest`), `run_flow`'s stages with the gate
(`RunStage`, `StageReturns`), deaths of the whole task (`WorkerDies`, then
`Start` again from the first line) and of a single stage call (`StageDies`, then
only that call again), and `Promote`. Requests are restricted to those that
extend the seed's knobs (`Inherits`), which `propose_candidate` guarantees by
merging the parent's mapping under the new one.

**`BuildTask`** - the abstract promise of a candidate's directory, as the driver
sees it: a task waits, runs, is done with one of the `Outcomes` (module
**`TaskOutcome`**), and may be promoted once. No directory, no stage, no worker,
no retry. `CandidateTree` implements it (`ImplementsTask`, by `JobState` and
`Report`), and `AgentTool`'s tasks finish with the same `Outcomes`: that is the
joint between the two halves of the model. The joint has two sides. What
`CandidateTree` assumes of the driver, `SurrogateLoop` shows: a candidate is
promoted once, after a quick build that succeeded (`PromotedOnce`), its knobs
extend its parent's (`SeedInherited`), and nobody works in the directory it
copies (`SeedQuiet`).

**`Descent`** - the order on tuples of sets that `Left` of `CandidateTree`, of
`SurrogateLoop` and of `DriverSession` goes down in: what is left to do, the
weightiest first.

**`FailureLog`** - the dict in insertion order, the file as lines of pieces (a
whole record, or a torn one), deaths inside and between writes, restart. A knob
mapping is a *spelling* with two texts: `MakeText` (what `_coerce` hands to make
and what results carry) and `StrText` (what `knob_key` makes of the caller's
dict). The two differ for 20.0 on an int knob, and for Python's bools, which make
gets as 1 and 0 and `str` writes as words; `Booleans` are the mappings that hold
one. The lock makes `record` one step.

**`AgentTool`** - `propose_candidate` (`Refuse`, `Submit`), `candidate_status`
(`Collect`) and `promote_candidate` (`Promote`) over the ledger (`rows`, a
sequence, since SQLite counts ids), the failure log (`knownBad`) and the tasks in
flight (`tasks`, the tool's `_pending`). A value is what the agent wrote. The
code reads it in two ways, and so does the model: `Key` is the text `str` gives
the proposed mapping, by which `known_bad` and `seen` look it up; `Clean` is what
`_coerce` made of it for make, by which a failure is recorded. Of the log the
module keeps what these handlers can tell apart: the keys in memory
(`knownBad`), the keys its file would give now (`logged`), and what a last line
without newline does (`ended`, `loose`). A handler is one step: it runs in the
driver's process (or in one actor) and is not interleaved with another; builds
run beside it (`Place` gives a task its slot, `Finish` ends it with any result
list that `run_flow` may return, or with an exception). `Restart`,
`DieProposing` and `DieCollecting` are a death between two handlers, between the
two writes of one, and inside the append to the log (`CutShort`), whose torn
line takes the next record with it: the ledger and the log stay, the tasks and
the run token do not. `spent` is history: the stages a candidate really ran.
Directories are `CandidateTree`'s subject.

**`SurrogateLoop`** - extends `AgentTool` with the program that drives it:
`run_iterations` (`Ask`, `Stop`) and `build()` (`Dispatch` per proposal,
`Drain`, `Choose`, `PromoteNext`, `Drain` again). The model's reply is any set of
legal deltas with any parent numbers, the ranking of quick results any order.
The driver holds `DriverSlots` of the cluster's `Slots` through its own
`OpenROADNode`. The bound `MaxRows` stops the loop like a used-up turn.

**`Handover`** - extends `WorkHome` with what is read back from the directory.
`logs` holds, per target, its step log and which steps wrote theirs after it,
`jsons` the metric JSONs per stage and sub-step, `emitted` the files of an emission, whose names
carry no stage digit and which no invalidation deletes. `HCall`, `HMake` and
`HReturn` are `WorkHome`'s steps with what they do to those files; a call that
stops half way leaves the log and the finished JSONs of an unfinished step
(`Unfinished`). `FailureOf` is `_extract_failure` with the timeout and signoff
cases of `run_stage`, `SummaryOf` is `_summarize`. `Emit`, `EmitNothing`,
`EmitTimesOut` and `MeasureClock` open a session of OpenROAD's own: the files
may be whole, cut short or left from an earlier session, and the session may
time as ORFS does or not. A figure is *what it was computed from*, except for the
worst setup slacks: these are numbers, because `_timing_csv_agrees` (`Agrees`)
compares them to a tolerance, a quarter of the reported slack or a twentieth of
the clock period (`Tolerated`), and lets everything pass where no JSON reports
one.

**`Calibrate`** - `calibrate_knob` probe by probe: the choice loop, the midpoint,
the four fallbacks, the two bisections that share one budget (`Open`, `Narrow`,
`EndSide`), values that `_coerce` refuses, the file written at the end, a death
at any point, and the policy `load_policy` makes of what it finds. Which values
build is not fixed: `tried` keeps each answer, so the range of buildable values
may have holes. Values are integers in units of the code's rounding; `TiesUp`
says which way Python's `round` goes where a half has a fifth decimal.

**`Setup`** - `main()` up to the first turn: shared placement, default build,
artifacts, `SwiftCTSEvaluator.calibrate` with its K anchors, `build_screen` and
`_break_ties`. Predictions are any values of a small range; `Predict` ranks the
grid one point at a time, `Join` and `Flush` are the tie groups and the greedy
choice inside them.

**`ModelTurn`** - a turn of `run_iterations` as a conversation with the model
service: shortlist, session with tools or a plain request, retries, an answer
to each call, parsing. **`DriverSession`** composes `Setup` and `ModelTurn` into
one run of the program; what `build()` does between turns is `SurrogateLoop`.

`MC*` modules give constants their values. The theorems are in a module beside
each specification: `WorkHomeProofs`, `CandidateTreeProofs`, `HandoverProofs`,
`FailureLogProofs`, `AgentToolProofs`, `SurrogateLoopProofs`, `CalibrateProofs`
and `DriverSessionProofs` (for `Setup` and `ModelTurn` too). Operators introduced by a "Mutant"
comment are deliberately wrong variants of the definition that follows them,
used to show that each property can fail; no specification uses them.

## 3. Runs

| Run | Shows | Bounds, and why they are enough |
|---|---|---|
| `work_home` | without worker deaths every answer is faithful, the manifest honest, nothing unaffected is deleted, and `FreshBuild` is implemented | `N = 3` stages + DRC + LVS; a knob read at two stages and documented for the first of them, one for the last stage, one undocumented; all 8 mappings. A stage before, at and after the affected one, and every pair of mappings, occur |
| `work_home_crash` | violation: deaths break that for a directory used with several configurations | same |
| `candidate_tree` | one directory per candidate is safe over branch, deaths, retries and promotion; the gate holds; promotion resumes; to the driver it is one task (`BuildTask`); no step goes back, and every task ends | `N = 4` (before the branch point, at it, the gate, after it), four kinds of seed (none, shared placement, parent built to the gate, parent built to the end), 3 starts or retries, so that a second death meets what a first one left |
| `failure_log` | of mappings of numbers and strings only failed command lines are flagged, a reload is exact including order, loss per death is at most two records | 4 failures, 2 torn writes, 2 reasons; an int knob as "20" and 20.0, an undeclared one as `True` and as the word: repeats, re-recordings under another spelling, a key that is one mapping's text and another's value, and garbled lines all occur |
| `failure_log_spelling` | violation of "the same configuration — because they produce the same command line" | 3 failures, 1 tear |
| `agent_tool` | whatever an agent proposes and polls, and wherever the driver dies: nothing on record is built again if it is written as make is given it; no candidate is forgotten; the log holds failed rows' configurations only, and all of them but two per death; children inherit | 3 rows, 3 starts of the driver, 2 slots; an int knob as 20, as 20.0 and as 99, which the policy refuses, and an undeclared knob: a parent, a child, a repeat under another spelling before and after deaths, and a torn line that takes the record of the next run with it. Full builds only, since only the driver promotes |
| `parent_tree` | violation of "branch from the named parent's tree when given one" | same, 2 starts |
| `surrogate_loop` | nothing is in flight when the model is asked or the search is over; parents are quiet while branched from; full builds are bounded; the ledger moves forward; a candidate is promoted at most once, after a quick build that succeeded; the search ends | 2 turns of 2 proposals (4 rows), one promotion a turn, 2 starts, 3 slots of which the driver keeps 1, both modes: two builds at once, a child of the first turn's promoted candidate in the second |
| `calibration` | no knob costs more than its budget; an edge is located to the tolerance unless the budget ran out, and where the midpoint builds it does not, if it pays for enough halvings on both sides (`Affordable`), as that of `run_calibration` does (`MCBudget`); a driver loads only measured ranges | the real `CTS_CLUSTER_SIZE` (int, quarter points not whole) and `PLACE_DENSITY` (its bisection needs a fifth decimal), a choice; budget 9 and tolerance 5 % as in the program; every pattern of building and failing, 2 starts, deaths anywhere |
| `handover` | figures and blame are those of the last call's knobs, after failures, kills, shorter calls and failed tool sessions; slacks are handed over if and only if they pass the comparison with what the right step reported of the checkpoint | 3 stages and the two signoffs, 2 sub-steps per stage: the stage observed, one after it, the final one; a knob of the second stage and an undocumented one, so that invalidation starts in the middle and at the front; slacks in ps against a period of 400: two configurations within the tolerance of each other, a third whose steps report none, two sub-steps and stages outside it, and a session without constraints far outside |
| `driver_session` | k_shot is honest, the screen holds the grid in an order the predictions allow, requests are well-formed, the session ends | K of 0, 1, 2; two knobs of two points, predictions 0..3 with neighbours tying: groups of every size, and chains of ties; 2 turns, 2 attempts, 3 requests per session of up to 2 calls, one tool not offered, with and without tools and shortlist |
| `anchors` | violation of "a K>1 budget samples the domain" | same |

A run checks the outermost form of a statement: `TypeOK` and `ToolTypeOK` as
conjuncts of `TreeTypeOK` and `LoopTypeOK`, `FlowShape` through `ImplementsTask`,
whose outcomes have that shape. Of the three measures `TaskAdvances` is a property
of its run; `LoopAdvances` and `SessionAdvances` are proved, and their runs check
what they are for, `LoopEnds` and `SessionEnds`.

Deadlock checking is off in `candidate_tree`, where a candidate that is done or
lost really stops, and in the runs of `AgentTool` and `SurrogateLoop`, where a
search that is over does, in `calibration`, where the program is started no more
than `MaxRuns` times, and in `driver_session`, which ends.

Fairness. `CandidateTree`: weak fairness of `Progress`, the disjunction of the
task's own steps. A submitted Ray task is started, its code runs, and
`run_stage` ends because `communicate(timeout=...)` kills make at the limit.
Deaths and promotion are not fair; `MaxAttempts` (Ray's `max_retries`) bounds
them. `SurrogateLoop`: weak fairness of `LoopStep`, for the driver is a running
program that blocks nowhere but in `Drain` (the model service is taken to answer), and
of `ClusterStep`, for Ray gives a free slot to a waiting task and every build
ends. Deaths of the driver are not fair and bounded by `MaxRuns`.
`DriverSession`: weak fairness of `Next`. One process takes one step after the
other; runs of the flow have time limits, retries are counted, and a session
with tools sends `max_calls` requests. A request of that session has an HTTP
timeout; one of `ask` has none (`timeout_s` is accepted and never used,
`iterate.py:236`), so there the assumption is that the service answers or fails.

`LoopEnds` needs `Slots > DriverSlots`. With one `orfs` slot in all, which the
driver keeps (`surrogate_loop.py:227`), every candidate waits for ever and
`build()` polls for ever.

## 4. Findings

1. **A death during make leaves artifacts the manifest does not know of**
   (`openroad.py:1069`, run `work_home_crash`). The manifest is written after
   make. If the worker dies before, a call with the knobs of the manifest that is
   there, or, as in the run's trace, one that sets nothing where there is none
   yet, finds nothing changed and returns the dead call's artifacts as its own,
   although the comment above the write asks for the opposite. The loop is not affected: it
   gives every candidate its own directory, and for that discipline faithfulness
   over deaths is checked (`candidate_tree`) and proved (`OneConfigCrashSafe`,
   `CandidatesFaithful`).
   Writing the manifest before make, or removing it before the first change to
   the tree, is what the other callers would need.
2. **More than one anchor ends the session** (`swiftcts.py:243`, run `anchors`).
   From the second anchor on, `CTS_CLUSTER_SIZE` is no whole number (16.5 for
   `--k-shot 2`), `_coerce` raises in `run_stage`, and nobody catches it: after
   the first anchor has been built, a full flow, the program is gone.
   `CTS_CLUSTER_SIZE` is the only int knob of `TRAINED_DOMAIN`; rounding it
   would do.
3. **Known-bad lookups depend on spelling** (`failure_log.py:40`, run
   `failure_log_spelling`). `knob_key` does not apply `_coerce`. For the tool this
   means that even an exact repeat is not refused, against `failure_log.py:13`: a
   proposal of 20.0 that failed is logged as 20 (`r.knobs`), and the same words
   again start another build, for `seen` blocks only what was built
   (`orfs_tools.py:309-317`). That is why `NoRebuild` speaks of proposals written
   as make is given them. Keying both sides by the cleaned mapping would do.
4. **A parent of an earlier run has no tree** (`orfs_tools.py:328`, run
   `parent_tree`). The ledger is kept from run to run, the directory name holds
   the token of the present one. The child is rebuilt from synthesis: right, but
   without what branching, or the shared placement, would have saved.

Met while modelling, without a run of their own:

* A torn line costs two records, not one: the next append continues it
  (`failure_log.py:111`, against "loses at most the record it was writing" at
  line 19). `LossBounded` states what holds, `LogMatchesLedger` what it means for
  the tool.
* `known_bad` may refuse what never failed (`failure_log.py:40`, against "if we've
  failed it", line 120): for a knob without a declared type `_coerce` leaves the
  word `True` as it is and makes 1 of Python's `True`, which is looked up as the
  word. `KnownBadSound` therefore leaves out mappings with a bool. No knob of the
  default policy takes the word.
* Hints are not "newest last" (`failure_log.py:128`): a configuration that is
  recorded again keeps its place in the dict (`Upsert`).
* `emit_artifacts` may hand over another configuration's slacks
  (`openroad.py:1289-1307`, against "Do NOT hand back a plausible-looking file
  whose numbers are wrong", line 1298). That the session failed is only logged;
  the file of an earlier session is still there, since its name has no stage
  digit, and passes if its worst slack is within the tolerance, or if no step
  reported one. What holds is `HandedOwn`.
* Recording a promotion overwrites `tool_runs` (`candidate_store.py:138`): a
  promoted candidate ran two stages and is recorded with one (against line 125).
* `measure_clock` returns partial numbers when only a part could be read
  (`openroad.py:1368-1403`, against "Returns `{}` rather than partial numbers",
  line 1328). Each of the parts is right (`FiguresOwn`).
* The runs that anchor the surrogate do not land in the ledger (`run` in
  `surrogate_loop.py:253`, against `surrogate.py:185` and
  `docs/05-surrogates.md:252`).
* `calibrate.apply` drops a knob nothing was built for; `load_policy`
  (`surrogate_loop.py:52`) keeps it with its nominal range, and no driver uses
  `apply`.
* The options `--llm-timeout`, `--llm-deadline` and `--resume` of
  `surrogate_loop.py` are parsed and never read.
* When the session's last permitted reply still holds calls, the text that is
  taken for the answer is that of the last reply that had any (`iterate.py:287`).

## 5. Proofs

Every safety invariant, every action property and both refinements that a passing
run checks are theorems of their specifications, for all values of the
constants. Each proof has the same shape: an inductive invariant (`IInv`,
`TreeInv`, `HInv`, `LogInv`, `ToolInv`, `LoopInv`, `CalInv`, `SessionInv`), which
TLC has checked on the small instance first, one lemma per action that it is
kept, and what follows from it. Action properties are proved from the invariant
of the state before the step.

Assumptions. The flow: `NAssumption` (at least one stage), `ReadsAssumption`
(typing), `TableAssumption` (a documented knob is not read before its documented
stage - what the docstring of `earliest_affected_stage` calls conservative),
`RequestsAssumption` (requests are configurations, and a missing manifest is not
one). `TreeAssumption`, `HandoverAssumption`, `BoundsAssumption` and
`TurnAssumption` only type the constants. `SpellingAssumption` says that a text
`_coerce` has produced is produced again from a number or a string that `str`
turns into it; of mappings with bools it says nothing. `ToolAssumption` says the
same of values the policy allows. `TornAssumption` that half a
record is no record, `CalibrateAssumption` that ranges are not empty and choices
have a value, `SetupAssumption` that an int knob's bounds are whole. The theorem
`GateAlwaysHolds` assumes that branching ends no later than the gate, as with
the code's `place` and `cts`.

*The work directory* (`WorkHomeProofs`). `ResultFaithful` is not inductive:
whether an answer is right depends on every artifact that make builds upon.
`IInv` adds: between calls the manifest is true of everything on disk
(`ManifestHonest`); during a call what invalidation spares is already what the
call's knobs would build (`KeptIsFresh`); there are no holes and nothing is out
of date (`NoHoles`); and the doomed files lie at or after the cut
(`Invalidation`). The heart is `SparedIsFresh`: the recorded and the requested
mapping agree on every knob documented before the cut
(`EarliestAffectedBounds`), an artifact before the cut reads no others
(`TableAssumption`), so both mappings build the same one (`SameBelow`).
`ResumeIsFresh` shows that one target run on a fresh checkpoint gives a fresh
checkpoint; it needs `UpstreamIsClosure`, that a target's upstream is one
target's closure. The refinement of `FreshBuild` is `Implements`. With deaths,
`OneConfigCrashSafe`: if all requests are the same mapping, every artifact is
that mapping's whatever happens, so answers are faithful. `FullRebuildCrashSafe`:
a call that cuts at stage 1 dooms all there is before make starts, which is the way out of what
`work_home_crash` shows; no run checks it, as a candidate's directory never needs it.

*The candidate's directory* (`CandidateTreeProofs`). With deaths between any two
steps the manifest of a candidate's directory may be missing or the seed's, and
files of seed and candidate lie side by side. `Origin` says which: a file is the
candidate's own or a copy of the seed's, of the seed's only while the manifest
says so, and none of these survives the invalidation of a running call; once the
flow is over or a promotion has begun all files are the candidate's. `Recorded`
is what a promotion may rely on, `FlowSteps` what `run_flow` has collected.
`CandidatesFaithful`, `ArtifactsAreOwn`, `FlowsShaped`, `GateAlwaysHolds` and `PromotionsResume` follow; none of them needs `Inherits`,
so that a child whose knobs do not extend its parent's would be built right, too.

*One task* (`CandidateTreeProofs`). `CandidateIsATask` maps a directory's whole
life to `BuildTask`: the first start is `Place`, the return of the last stage or
the loss of the last attempt `Finish`, and branching, stages, deaths and the
starts after them are stutters. What has to be shown is that whatever
`run_flow` has collected when the task ends is one of the `Outcomes`
(`ReportsOutcome`): `FlowsShaped` and the targets of `Plan` give that. A start
after a death must not look like the first one, for which `JobTypes` keeps that
a task at work has been started at least once. `EachPromotedOnce`, in
`SurrogateLoopProofs`, proves of the driver what `Promote` takes for granted: the
row says built at the gate, the task is out of `_pending`, the directory is of
this run's token.

*Nothing goes in circles.* `TaskAlwaysAdvances`, `LoopAlwaysAdvances` and
`SessionAlwaysAdvances` prove that every step makes `Left` smaller in the order of
`Descent`. The tuples have finite sets in every place, so that behaviours without
stuttering are finite; that last step, the well-foundedness of the order, is the
textbook's and not machine-checked here. The order of the places is the argument.
For a task: a promotion, its starts, where it is, the stages of its flow, the
call of one, then what that call has still to delete, branching to copy, and make
to build. That make comes to an end is not obvious, as a target built makes those
behind it outdated: `BuiltOnce` shows that a target whose closure was not up to
date is afterwards, and that none is lost. For the search: starts, turns, phases,
and only then lists and tasks, since a proposal or a promotion adds tasks. For
the session: a reply adds calls but uses up the reply, sending the answers back
gives a new reply but uses up a request. Deaths and retries are covered: they use
up a start or an attempt. What the fairness of section 3 adds is that something
happens as long as something can; that part, and that nothing is left waiting
in between, is what TLC checks.

*Hand-over* (`HandoverProofs`). What is read back is right because every log and
JSON on disk is of the knobs of the running call, or of the manifest between
calls (`StepFilesOwn`): invalidation removes with a checkpoint what was reported
of it. A stage that is kept has all its JSONs (`PartsReported`), which is why a
merge of sub-steps is never of two builds, and "written later" is a strict order
(`Ordered`), so that the newest log exists and `_extract_failure` looks at it.
`AgreesWithCheckpoint` then says what the comparison compares with: the JSON of
the last part of the stage that reported a slack is a JSON of the checkpoint in
the tree, so `HandedIsOwn` can speak of the checkpoint alone.

*The failure log* (`FailureLogProofs`). `Load` reads any file line by line;
`LoadOneMore` says what one line more changes, and is proved from the recursive
function without the library's induction (`LeastNumber`, `UpTo`). `LogInv` keeps
`ReloadExact` along: without a torn line the file reads back as the dict.
`LossBounded` needs an account of what is still at stake (`AtStake`): a line
without its newline will take the next record with it.

*The agent tool* (`AgentToolProofs`). `ToolInv` joins the type invariant with
`SeedInherited`, `NothingForgotten`, and what they and the log rest on: a row's
run is never in the future (`RunsPast`), a row that settled was legal
(`SettledLegal`), what is in flight belongs to a row whose outcome is still open,
or built and being promoted (`InFlight`). Without `InFlight`, recording an
outcome could turn a failed row into a built one and leave the log with a
configuration the ledger does not call failed. `LogKept` is `LogMatchesLedger`
with the account that makes it inductive: the number missing plus what a line
without its newline still puts at stake (`AtStake`) is at most two per death.
`NothingRebuilt` needs more than the invariant: `SeenBuilt` looks only at the
newest settled row with the proposal's key, so `OnRecordOnlyIfMissing` takes that
row and shows that it failed, hence is in the log or missing from it; that the
row of another spelling has that key is what `ToolAssumption` is for
(`SameWords`).

*The programmed search* (`SurrogateLoopProofs`). `LoopInv` adds to `ToolInv`
what is in flight in each phase and what for (`Flying`), that the loop's lists
name each a candidate once (`Lists`), that only what was built is promoted
(`Promoting`), and the account of full builds (`Budget`): before this turn
`TopK * (turn - 1)`, and those of this turn are in `ids`. From it follow that
turns settle, seeds are quiet, full builds are bounded, the ledger only moves
forward, and that all that `AgentToolProofs` shows for an agent holds for the
loop, whose steps are not all the tool's (`LoopKeepsLedger`,
`LoopRebuildsNothing`).

*Calibration* (`CalibrateProofs`). A program that is started again finds probes
of the run before. That no value that failed lies inside a band therefore needs
that the second bisection goes the way the first one went: `Path` is the set of
brackets from the midpoint to one side, each followed by the half its middle's
verdict selects, and accounts for every value tried on that side (`Searched`).
`MidFirst` (nothing is tried before the midpoint), `Bracketed` (the ends of the
running bracket) and `Spent` (probes and what is left to try) complete `CalInv`.
Where the budget did not run out, `EdgesAreLocated` follows from where a bisection
stops. Where the midpoint built, `EdgeInv` shows that it does not run out if it is
`Affordable`: as long as a side is bisected, `Paced` says that some `i` halvings of
its bracket and `j` of the other side's have been paid for, and that the bracket is
no wider than `Widest(k)[i]`, each halving rounded against it; with the budget used
up, `i` and `j` are both the number that `Suffices`. Probes that an earlier run
left count too, and are counted again by the program, as the code does; the choice
of `n` is the same for both sides, so that the upper edge cannot use up what the
lower one needs. The budget 9 and tolerance 5 % of `run_calibration` are
affordable for every numeric knob of the default policy; TLC evaluates that for
the knobs of its run (`MCBudget`).

*The driver's session* (`DriverSessionProofs`). `SessionInv` has three parts.
The two lists that `calibrate` zips are parallel and no prediction was scaled
(`AnchorInv`), hence `AnchorsAreHonest`. The screen (`ScreenInv`): while the grid
is predicted, the positions of what is in the queue are smaller than its length,
so that nothing is in it twice and a queue as long as the grid is the grid
(`WholeGrid`); while ties are broken, the grid is split over queue, group and
ranking, the group lies within a tie of its first, and nothing ranked is worse
by more than a tie than what is not (`Breaking`). `Rounded` shows that rounding
leaves a value within half a unit and on its side of every multiple, hence
`PointInRange`. The conversation (`TurnInv`): roles alternate, each message
answers the one before, and `answers` and `todo` are the last reply's calls
(`Answering`), hence `RequestsAreAccepted`.

*Only model-checked.* Liveness (`TaskEnds`, `LoopEnds`, `SessionEnds`), which
under fairness is outside this prover; the descent above is the part of it that
is proved. Which runs violate what the code's comments say (section 4) is TLC's,
too.

## 6. Not modelled, and the plan

Not modelled, and why:

* the numeric models of `surrogates/`, the scorecard's statistics and the
  conformance check: floating-point arithmetic and one pass over constant data;
* the wording of logs, prompts and answers, and the regular expressions that
  read them: the models say which text is read and whether it holds what is
  looked for;
* the driver's arm without an agent (`surrogate_loop.py:351-385`): the
  dispatching and polling of `SurrogateLoop` without promotion;
* `TurnAgent` (`agent.py`) and the evaluators no driver builds;
* the read-only queries of the tool, `collect`, `list_matches`;
* cluster start-up, container images, analysis scripts, generated tables.

Errors of the file system, half-written checkpoints and a make that survives its
worker: whether they happen is decided by tools outside this repository.

Plan. The modules are written and what the runs check of safety is proved. What is
left:

1. The loop as an implementation of a simpler ledger, in which a candidate is
   proposed, settled and perhaps settled again, and nothing else is known.
2. `WorkHome` with two variants in one directory (`openroad.py:274`), which no
   caller uses today.
3. The arm without an agent, if it is to outlive the experiments.
