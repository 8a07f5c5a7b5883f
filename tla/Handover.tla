------------------------------ MODULE Handover ------------------------------
(***************************************************************************)
(* What is read back from a WORK_HOME: the metrics and the reason of a     *)
(* failure at the end of run_stage, and the artifacts and clock figures    *)
(* emit_artifacts and measure_clock produce with a tool session of their   *)
(* own (openroad.py).  The directory and the calls on it are WorkHome's;   *)
(* here it also holds the logs and metric JSONs of every step and the      *)
(* emitted files, whose names carry no stage digit.                        *)
(*                                                                         *)
(* A figure is what it was computed from; only worst setup slacks, which   *)
(* are compared, are numbers.                                              *)
(***************************************************************************)
EXTENDS WorkHome, Integers, FiniteSets

CONSTANTS
    Asked,      \* the targets run_stage is called for
    Parts,      \* numbered sub-steps per stage, each with a JSON of its own
    Observed,   \* the stage surrogates observe: "place"
    Routed,     \* the stage measure_clock is called for: "route"
    ReportedBy, \* SUMMARY_KEYS: figure -> the stages whose JSONs carry it
    Slack(_, _),  \* Slack(<<stage, part>>, content): the worst setup slack that
                  \* the part's JSON has, None if it has none
    Extracted(_), \* the worst slacks a tool session may read out of a content:
                  \* ORFS's, a sample's, those of a session that is set up wrong
    Period,       \* the clock period that ORFS wrote down, 0 if it did not
    None          \* no recognisable error, no failure, no file, no figure

ASSUME HandoverAssumption ==
    /\ Asked \subseteq Targets
    /\ {Observed, Routed} \subseteq Stages
    /\ Parts \in Nat \ {0}
    /\ \A f \in DOMAIN ReportedBy : ReportedBy[f] \subseteq Stages
    /\ Period \in Nat

VARIABLES
    logs,     \* target -> its step log: [content, says, newer], newer being the
              \* steps that wrote theirs after it
    jsons,    \* <<stage, part>> -> the content it reports of
    told,     \* what the last run_stage or read_metrics said
    emitted,  \* artifact -> what its file was made from, None without a file;
              \* of the slacks also the worst
    handed,   \* what emit_artifacts returned, None if it returned nothing
    session,  \* how its OpenROAD session ended; used by the properties only
    clock     \* measure_clock's last [share, total]

handVars == <<logs, jsons, told, emitted, handed, session, clock>>
emitVars == <<emitted, handed, session, clock>>
hVars       == <<vars, handVars>>

Artifacts == {"def", "timing_rpt"}
NoClock   == [share |-> None, total |-> None]
Untold    == [knobs |-> NoKnobs, summary |-> {}, failure |-> None]

HInit ==
    /\ Init
    /\ logs = [t \in {} |-> NoKnobs]
    /\ jsons = [j \in {} |-> NoKnobs]
    /\ told = Untold
    /\ emitted = [a \in Artifacts |-> None]
    /\ handed = None
    /\ session = "none"
    /\ clock = NoClock

-----------------------------------------------------------------------------
\* What a run of target t in this tree works on.
Work(t) == Assemble(t, IF t = 1 THEN <<>> ELSE tree[Needs(t)], knobs)

Log(content, says, newer) == [content |-> content, says |-> says, newer |-> newer]

\* A step opens its log anew; being written last makes it the newest.
Logged(t, text) ==
    [u \in DOMAIN logs \cup {t} |->
        IF u = t THEN Log(Work(t), text, {})
        ELSE Log(logs[u].content, logs[u].says, logs[u].newer \cup {t})]

\* The JSONs once the first n parts of t have ended; signoffs write none.
Reported(t, n) ==
    LET new == IF t \in Stages THEN {t} \X (1..n) ELSE {}
    IN  [j \in DOMAIN jsons \cup new |-> IF j \in new THEN Work(t) ELSE jsons[j]]

\* Mutants: results only, without logs/; and everything after the stage.
SparedAll(t)   == TRUE
SparedAfter(t) == cut' = 0 \/ Prefix(t) <= cut'

\* Logs and JSONs carry the digit too: what _invalidate_from leaves of them.
Spared(t) == cut' = 0 \/ Prefix(t) < cut'

\* The files an emission writes have no digit and are never deleted.
HCall(t, c, force) ==
    /\ Call(t, c, force)
    /\ logs' = [l \in {u \in DOMAIN logs : Spared(u)} |->
                   Log(logs[l].content, logs[l].says, {u \in logs[l].newer : Spared(u)})]
    /\ jsons' = [j \in {i \in DOMAIN jsons : Spared(i[1])} |-> jsons[j]]
    /\ told' = Untold
    /\ handed' = None
    /\ session' = "none"
    /\ clock' = NoClock
    /\ UNCHANGED emitted

HUnlink(t) == Unlink(t) /\ UNCHANGED handVars

HMake(t) ==
    /\ Make(t)
    /\ logs' = Logged(t, None)
    /\ jsons' = Reported(t, Parts)
    /\ UNCHANGED <<told, emitVars>>

\* What an unfinished step leaves: its log, and the JSONs of the parts that
\* ended.  make may also stop with no step open.
Unfinished(rc) ==
    \/ UNCHANGED <<logs, jsons>>
    \/ /\ rc # "ok"
       /\ \E t \in Closure(target) \ UpToDate, n \in 0..(Parts - 1) :
             /\ Upstream(t) \subseteq UpToDate
             /\ jsons' = Reported(t, n)
             /\ \E text \in {"tool", "tcl", None} :
                   /\ rc = "killed" => text = None
                   /\ logs' = Logged(t, text)

-----------------------------------------------------------------------------
(***************************************************************************)
(* _extract_failure and what run_stage adds to it.                         *)
(***************************************************************************)
Newest(l, S) == CHOOSE t \in S : l[t].newer \cap S = {}

LastThree(l) == {t \in DOMAIN l : Cardinality(l[t].newer) < 3}

\* Of the three newest logs those with a tool error, or else with Tcl's.  (What
\* make itself printed is the log of the step it stopped in.)
Errors(l) ==
    LET saying(text) == {t \in LastThree(l) : l[t].says = text}
    IN  IF saying("tool") # {} THEN saying("tool") ELSE saying("tcl")

\* The newest of the logs S is blamed.
Blame(l, S, code) ==
    IF S = {} THEN [step |-> target, code |-> code, content |-> None]
    ELSE [step |-> Newest(l, S), code |-> code, content |-> l[Newest(l, S)].content]

\* A timeout takes the newest log's step, unless an error is found; a signoff
\* without a reason gets its report's.
FailureOf(rc, l) ==
    IF rc # "ok" /\ Errors(l) # {} THEN Blame(l, Errors(l), l[Newest(l, Errors(l))].says)
    ELSE IF rc = "killed" THEN Blame(l, DOMAIN l, "TIMEOUT")
    ELSE IF target \in Signoffs /\ ~Passed(rc) THEN Blame(l, {}, "signoff")
    ELSE None

\* _summarize: a figure is taken from the newest JSON that carries it.
SummaryOf(js) ==
    {js[j] : j \in {i \in DOMAIN js :
        \E f \in DOMAIN ReportedBy :
            /\ i[1] \in ReportedBy[f]
            /\ \A k \in DOMAIN js :
                  k[1] \in ReportedBy[f] => k[1] < i[1] \/ (k[1] = i[1] /\ k[2] <= i[2])}}

HReturn(rc) ==
    /\ Return(rc)
    /\ Unfinished(rc)
    /\ told' = [knobs |-> knobs, summary |-> SummaryOf(jsons'), failure |-> FailureOf(rc, logs')]
    /\ UNCHANGED emitVars

\* read_metrics: the same reading, with no call behind it and no knobs given.
ReadMetrics ==
    /\ pc = "idle"
    /\ told' = [knobs |-> NoKnobs, summary |-> SummaryOf(jsons), failure |-> None]
    /\ UNCHANGED <<vars, logs, jsons, emitVars>>

-----------------------------------------------------------------------------
(***************************************************************************)
(* emit_artifacts(["def", "timing_rpt"]) and measure_clock.  The scripts   *)
(* write the DEF, then the slacks, worst first, under a header line.       *)
(***************************************************************************)
\* What the session leaves: the files as they were, or written, the DEF cut
\* short or not, the slacks with a first one or without.
Written(ended) ==
    LET def    == tree[Observed]
        slacks == [content : {def}, worst : Extracted(def) \cup {None}]
    IN  [def : {def}, timing_rpt : slacks]
        \cup (IF ended = "ok" THEN {}
              ELSE {[emitted EXCEPT !["def"] = d] : d \in {emitted["def"], def}})

Reporting == {j \in DOMAIN jsons : Slack(j, jsons[j]) # None}

\* Mutant: the newest JSON of all.
ComparedNewest(j) ==
    /\ j \in Reporting
    /\ \A k \in Reporting : k[1] < j[1] \/ (k[1] = j[1] /\ k[2] <= j[2])

\* The JSON whose worst slack is compared with: the last that has one of the
\* stage's own; of all if the stage has no JSON.
Compared(j) ==
    LET own  == {k \in DOMAIN jsons : k[1] = Observed}
        pool == Reporting \cap (IF own = {} THEN DOMAIN jsons ELSE own)
    IN  /\ j \in pool
        /\ \A k \in pool : k[1] < j[1] \/ (k[1] = j[1] /\ k[2] <= j[2])

\* Within a quarter of the reported slack, or a twentieth of the clock period.
Tolerated(worst, reported) ==
    LET Abs(n) == IF n < 0 THEN -n ELSE n
        off    == Abs(worst - reported)
    IN  4 * off <= Abs(reported) \/ 20 * off <= Period

\* _timing_csv_agrees.  With no slack to compare with anything passes.
Agrees(file) ==
    \A j \in DOMAIN jsons :
        Compared(j) => file.worst # None /\ Tolerated(file.worst, Slack(j, jsons[j]))

Emit ==
    /\ pc = "idle"
    /\ Observed \in Present
    /\ session' \in {"ok", "error"}
    /\ emitted' \in Written(session')
    /\ handed' = {a \in Artifacts :
                    /\ emitted'[a] # None
                    /\ a = "timing_rpt" => Agrees(emitted'[a])}
    /\ UNCHANGED <<vars, logs, jsons, told, clock>>

\* Without the checkpoint nothing is run, and nothing returned.
EmitNothing ==
    /\ pc = "idle"
    /\ Observed \notin Present
    /\ handed' = {}
    /\ UNCHANGED <<vars, logs, jsons, told, emitted, session, clock>>

\* The session outlives its timeout and subprocess.run raises.
EmitTimesOut ==
    /\ pc = "idle"
    /\ Observed \in Present
    /\ session' = "killed"
    /\ emitted' \in Written(session')
    /\ handed' = None
    /\ UNCHANGED <<vars, logs, jsons, told, clock>>

\* The share comes from the routed checkpoint, the total it is scaled by from
\* the final report; either may be missing.
MeasureClock ==
    /\ pc = "idle"
    /\ Routed \in Present
    /\ \E share \in {None, tree[Routed]} :
          clock' = [share |-> share,
                    total |-> IF share = None \/ <<N, Parts>> \notin DOMAIN jsons
                              THEN None ELSE jsons[<<N, Parts>>]]
    /\ UNCHANGED <<vars, logs, jsons, told, emitted, handed, session>>

HNext ==
    \/ \E t \in Asked, c \in Requests, force \in BOOLEAN : HCall(t, c, force)
    \/ \E t \in Targets : HUnlink(t)
    \/ \E t \in Targets : HMake(t)
    \/ \E rc \in {"ok", "error", "killed"} : HReturn(rc)
    \/ ReadMetrics
    \/ Emit
    \/ EmitNothing
    \/ EmitTimesOut
    \/ MeasureClock

HSpec == HInit /\ [][HNext]_hVars

-----------------------------------------------------------------------------
\* Every figure handed to a caller is of the configuration that the directory
\* says it holds: what run_stage reports, whether it succeeded or not and
\* however far earlier calls had gone, what read_metrics reads without a call,
\* and both factors of the clock power.
FiguresOwn ==
    /\ \A x \in told.summary : \E t \in Stages : x = Fresh(manifest, t)
    /\ clock.share # None => clock.share = Fresh(manifest, Routed)
    /\ clock.total # None => clock.total = Fresh(manifest, N)

\* The step a failure is blamed on had that log written while running on what
\* the call's own knobs build: no reason is taken from the log of a
\* configuration the directory held before, be it a stage that failed, was
\* killed, or comes after the one asked for.
BlameOwn ==
    told.failure # None /\ told.failure.content # None =>
        told.failure.content = Fresh(told.knobs, told.failure.step)

\* Slacks are handed over exactly when the worst of them is, within the
\* tolerance, what the last sub-step of their stage to report one reported of
\* the checkpoint in the tree: also when the flow has gone on past that stage,
\* and when a failed session left the file of an earlier one.  If no sub-step
\* reported a slack, they are handed over as they are.  A DEF is the
\* checkpoint's if the session that was to write it succeeded.
HandedOwn ==
    handed # None /\ Observed \in Present =>
        LET slacks    == emitted["timing_rpt"]
            own(n)    == Slack(<<Observed, n>>, tree[Observed])
            reporting == {n \in 1..Parts : own(n) # None}
        IN  /\ "timing_rpt" \in handed <=>
                  /\ slacks # None
                  /\ \A n \in reporting :
                        (\A m \in reporting : m <= n) =>
                            slacks.worst # None /\ Tolerated(slacks.worst, own(n))
            /\ "def" \in handed /\ session = "ok" => emitted["def"] = tree[Observed]
=============================================================================
