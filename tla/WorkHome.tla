------------------------------ MODULE WorkHome ------------------------------
(***************************************************************************)
(* One WORK_HOME directory on a worker and the run_stage calls made on it  *)
(* (openroad.py, OpenROADNode.run_stage), one after another.               *)
(*                                                                         *)
(* make decides staleness by file time and a knob is not a file, so        *)
(* run_stage keeps a manifest of the knobs the tree was built with,        *)
(* compares it with the knobs of the call and deletes every artifact from  *)
(* the earliest stage a changed knob is documented for.                    *)
(*                                                                         *)
(* A call is one Call step, one Unlink step per deleted checkpoint, one    *)
(* Make step per target make builds, and one Return step.  A checkpoint    *)
(* stands for all the files that carry its stage digit.                    *)
(***************************************************************************)
EXTENDS OrfsFlow

CONSTANTS
    Requests,   \* the knob mappings callers pass
    NoRecord    \* _read_knob_manifest's None: no manifest, or a torn one

ASSUME RequestsAssumption ==
    /\ Requests \subseteq Configs
    /\ NoRecord \notin Configs

VARIABLES
    tree,      \* the checkpoints present: target -> content
    outdated,  \* those make would rebuild: older than something upstream
    manifest,  \* .chia_orfs_knobs.json
    pc,        \* "idle", or "running" between a call and its return
    target,    \* the call's stage
    knobs,     \* the call's clean_knobs
    forced,    \* the call's force_rebuild
    cut,       \* its invalidated_from; 0 is None
    doomed,    \* checkpoints _invalidate_from has still to delete
    result     \* the OrfsStageResult of the last call that returned

vars     == <<tree, outdated, manifest, pc, target, knobs, forced, cut,
              doomed, result>>
callVars == <<target, knobs, forced, cut>>

Present == DOMAIN tree
UpToDate == Present \ outdated

Init ==
    /\ tree = [t \in {} |-> NoKnobs]
    /\ outdated = {}
    /\ manifest = NoRecord
    /\ pc = "idle"
    /\ target = 1
    /\ knobs = NoKnobs
    /\ forced = FALSE
    /\ cut = 0
    /\ doomed = {}
    /\ result = [rc |-> "none", success |-> FALSE, target |-> 1,
                 knobs |-> NoKnobs, checkpoint |-> {}, report |-> {},
                 invalidatedFrom |-> 0]

-----------------------------------------------------------------------------
\* Mutants: only the names of the knobs are compared; a knob the call no
\* longer sets is not a change.
ChangedNames(record, c) ==
    IF record = NoRecord THEN SetIn(c)
    ELSE {k \in Knobs : (record[k] = Unset) # (c[k] = Unset)}

ChangedKeysSet(record, c) ==
    IF record = NoRecord THEN SetIn(c) ELSE {k \in SetIn(c) : record[k] # c[k]}

\* With no record every knob the call sets counts as changed; with one, every
\* knob whose value differs, set or dropped.
Changed(record, c) ==
    IF record = NoRecord THEN SetIn(c) ELSE {k \in Knobs : record[k] # c[k]}

\* Mutant: any change rebuilds everything.
InvalidateAll(record, c, force) ==
    IF force \/ Changed(record, c) # {} THEN 1 ELSE 0

InvalidateFrom(record, c, force) ==
    CASE force -> 1
      [] ~force /\ Changed(record, c) # {} -> EarliestAffected(Changed(record, c))
      [] OTHER -> 0

\* run_stage up to the deletion: validate, diff against the manifest, decide
\* what to delete.
Call(t, c, force) ==
    /\ pc = "idle"
    /\ pc' = "running"
    /\ target' = t
    /\ knobs' = c
    /\ forced' = force
    /\ cut' = InvalidateFrom(manifest, c, force)
    /\ doomed' = IF cut' = 0 THEN {} ELSE NumberedFrom(cut', Present)
    /\ UNCHANGED <<tree, outdated, manifest, result>>

\* Mutant: the deleted checkpoint stays on the list.
UnlinkAgain(t) ==
    /\ pc = "running"
    /\ t \in doomed
    /\ tree' = [u \in Present \ {t} |-> tree[u]]
    /\ outdated' = outdated \ {t}
    /\ UNCHANGED <<manifest, pc, doomed, callVars, result>>

\* os.unlink, in the order the directories are listed.
Unlink(t) ==
    /\ pc = "running"
    /\ t \in doomed
    /\ \A u \in doomed : t <= u
    /\ tree' = [u \in Present \ {t} |-> tree[u]]
    /\ outdated' = outdated \ {t}
    /\ doomed' = doomed \ {t}
    /\ UNCHANGED <<manifest, pc, callVars, result>>

\* make builds one missing or outdated target once its prerequisites are up
\* to date; whatever is downstream of the new file is older than it now.
Make(t) ==
    /\ pc = "running"
    /\ doomed = {}
    /\ t \in Closure(target) \ UpToDate
    /\ Upstream(t) \subseteq UpToDate
    /\ tree' = [u \in Present \cup {t} |->
                   IF u # t THEN tree[u]
                   ELSE Assemble(t, IF t = 1 THEN <<>> ELSE tree[Needs(t)], knobs)]
    /\ outdated' = (outdated \ {t}) \cup {u \in Present : t \in Upstream(u)}
    /\ UNCHANGED <<manifest, pc, callVars, doomed, result>>

\* The OrfsStageResult read off the tree, given the exit status.
ResultOf(rc, success) ==
    [rc |-> rc, success |-> success, target |-> target, knobs |-> knobs,
     checkpoint |-> {tree[t] : t \in {target} \cap Present},
     report |-> {tree[t] : t \in {N} \cap Present},
     invalidatedFrom |-> cut]

\* Mutant: a signoff judged by the exit status.
ExitStatusOnly(rc) == rc = "ok"

\* A signoff deck reports its verdict in a file, not in the exit status.
Passed(rc) ==
    rc = "ok" /\ (target \in Signoffs => Verdict(tree[target]) = "clean")

\* Mutant: the manifest is written only when the stage succeeded.
ReturnRecordsSuccess(rc) ==
    /\ pc = "running"
    /\ doomed = {}
    /\ rc = "ok" <=> rc # "killed" /\ Closure(target) \subseteq UpToDate
    /\ pc' = "idle"
    /\ manifest' = IF rc = "ok" THEN knobs ELSE manifest
    /\ result' = ResultOf(rc, Passed(rc))
    /\ UNCHANGED <<tree, outdated, callVars, doomed>>

\* The end of make, which decides the exit status, and the rest of run_stage:
\* write the manifest, read what is on disk, judge a signoff by its report.
Return(rc) ==
    /\ pc = "running"
    /\ doomed = {}
    /\ rc = "ok" <=> rc # "killed" /\ Closure(target) \subseteq UpToDate
    /\ pc' = "idle"
    /\ manifest' = knobs
    /\ result' = ResultOf(rc, Passed(rc))
    /\ UNCHANGED <<tree, outdated, callVars, doomed>>

Next ==
    \/ \E t \in Targets, c \in Requests, force \in BOOLEAN : Call(t, c, force)
    \/ \E t \in Targets : Unlink(t)
    \/ \E t \in Targets : Make(t)
    \/ \E rc \in {"ok", "error", "killed"} : Return(rc)

Spec == Init /\ [][Next]_vars

-----------------------------------------------------------------------------
(***************************************************************************)
(* The worker dies in the middle of a call.  Nothing is returned, what is  *)
(* on disk stays, and a death inside _write_knob_manifest leaves a         *)
(* truncated file, which reads as no record.                               *)
(***************************************************************************)
Crash(torn) ==
    /\ pc = "running"
    /\ torn => doomed = {}
    /\ pc' = "idle"
    /\ doomed' = {}
    /\ manifest' = IF torn THEN NoRecord ELSE manifest
    /\ UNCHANGED <<tree, outdated, callVars, result>>

CrashNext == Next \/ \E torn \in BOOLEAN : Crash(torn)

CrashSpec == Init /\ [][CrashNext]_vars

-----------------------------------------------------------------------------
\* Type invariant.
TypeOK ==
    /\ Present \subseteq Targets
    /\ \A t \in Present : ContentOK(t, tree[t])
    /\ outdated \subseteq Present
    /\ doomed \subseteq Present
    /\ manifest \in Configs \cup {NoRecord}
    /\ pc \in {"idle", "running"}
    /\ target \in Targets
    /\ knobs \in Configs
    /\ forced \in BOOLEAN
    /\ cut \in 0..N
    /\ result.rc \in {"none", "ok", "error", "killed"}
    /\ result.success \in BOOLEAN
    /\ result.target \in Targets
    /\ result.knobs \in Configs
    /\ result.invalidatedFrom \in 0..N

\* r is what a from-scratch build with r's knobs would have answered: the
\* checkpoint, the final report and the signoff verdict are never another
\* configuration's, and a clean exit means the checkpoint is there.
Faithful(r) ==
    /\ r.rc = "ok" => r.checkpoint # {}
    /\ r.checkpoint \subseteq {Fresh(r.knobs, r.target)}
    /\ r.report \subseteq {Fresh(r.knobs, N)}
    /\ r.success /\ r.target \in Signoffs =>
          Verdict(Fresh(r.knobs, r.target)) = "clean"

\* Every result run_stage returns is faithful.  (A stale tree answering under
\* a new knob's label is the failure _invalidate_from exists to prevent.)
ResultFaithful == Faithful(result)

\* Even in a tree a crash has left in an unknown state, a result that reports
\* invalidated_from = the first stage is faithful: deleting everything is the
\* way back.
FullRebuildFaithful == result.invalidatedFrom = 1 => Faithful(result)

\* Between calls the manifest says what built every artifact lying in the
\* tree, including those a failed or killed make left behind; without a
\* manifest there are none.
ManifestHonest ==
    pc = "idle" =>
        IF manifest = NoRecord THEN Present = {}
        ELSE \A t \in Present : tree[t] = Fresh(manifest, t)

\* What invalidation spares during a call is already what the call's own
\* knobs build: make can resume from it although it knows nothing of knobs.
KeptIsFresh ==
    pc = "running" => \A t \in Present \ doomed : tree[t] = Fresh(knobs, t)

\* Invalidation leaves a tree without holes and with nothing out of date:
\* make only ever extends it.
NoHoles ==
    /\ outdated = {}
    /\ \A t \in Present \ doomed : Upstream(t) \subseteq Present \ doomed

\* The inductive invariant behind them.
Invalidation ==
    /\ pc = "idle" => doomed = {}
    /\ pc = "running" => cut = InvalidateFrom(manifest, knobs, forced)
    /\ \A t \in doomed : cut # 0 /\ cut <= Prefix(t)

IInv == /\ TypeOK
        /\ ManifestHonest
        /\ KeptIsFresh
        /\ ResultFaithful
        /\ NoHoles
        /\ Invalidation

\* Unless it is forced, a call deletes or rebuilds no checkpoint that comes
\* before the earliest stage its knob changes are documented for: a CTS sweep
\* keeps the placement and a retry with the same knobs resumes.  Without a
\* record the changes are the knobs the call sets.
PrefixKept ==
    [][\A t \in Present :
          \/ t \in DOMAIN tree' /\ tree'[t] = tree[t]
          \/ forced
          \/ \E k \in Changed(manifest, knobs) :
                k \notin DOMAIN KnobStage \/ KnobStage[k] <= Prefix(t)]_vars

\* run_stage implements the from-scratch build; the promise does not mention
\* invalidated_from.
Answered == [rc |-> result.rc, success |-> result.success,
             target |-> result.target, knobs |-> result.knobs,
             checkpoint |-> result.checkpoint, report |-> result.report]

FromScratch == INSTANCE FreshBuild WITH result <- Answered
FreshBuildSpec == FromScratch!Spec
=============================================================================
