----------------------------- MODULE FailureLog -----------------------------
(***************************************************************************)
(* The record of configurations that did not build (failure_log.py): a     *)
(* dict in memory and an append-only JSONL file, read back when the driver *)
(* is started again.  A death in the middle of a write leaves any part of  *)
(* the line behind.                                                        *)
(*                                                                         *)
(* A knob mapping is written by its caller in one of several spellings     *)
(* (20, 20.0, "20", True); MakeText is the command line _coerce turns it   *)
(* into, StrText the key knob_key gives it.                                *)
(***************************************************************************)
EXTENDS Naturals, Sequences, FiniteSets

CONSTANTS
    Spellings,     \* the knob mappings as callers write them
    Booleans,      \* those of them that hold a Python bool
    Texts,         \* canonical texts of knob mappings
    MakeText,      \* what reaches make and OrfsStageResult.knobs
    StrText,       \* what knob_key makes of the caller's spelling
    Infos,         \* OrfsFailure: step, code and message
    Torn,          \* the beginning of a record
    MaxFailures,   \* bound on the failures recorded
    MaxTears       \* bound on deaths inside a write

\* A text that _coerce has produced is produced again from a number or a string
\* that str turns into it.  Not from a bool: str(True) is "True", and what
\* reaches make is "1".
ASSUME SpellingAssumption ==
    /\ Booleans \subseteq Spellings
    /\ MakeText \in [Spellings -> Texts]
    /\ StrText \in [Spellings -> Texts]
    /\ \A s \in Spellings \ Booleans, u \in Spellings :
          StrText[s] = MakeText[u] => MakeText[s] = MakeText[u]

ASSUME BoundsAssumption == MaxFailures \in Nat /\ MaxTears \in Nat

Records == [key : Texts, info : Infos]
Results == [knobs : Spellings, success : BOOLEAN, info : Infos]

ASSUME TornAssumption == Torn \notin Records

VARIABLES
    memory,    \* _by_knobs, in insertion order
    lines,     \* the file: each line is the pieces written to it
    ended,     \* the last line has its newline
    up,        \* the driver is alive
    history,   \* every record handed to the log so far, in order
    tears      \* deaths inside a write

vars == <<memory, lines, ended, up, history, tears>>

Init ==
    /\ memory = <<>>
    /\ lines = <<>>
    /\ ended = TRUE
    /\ up = TRUE
    /\ history = <<>>
    /\ tears = 0

-----------------------------------------------------------------------------
\* Mutant: every record gets an entry of its own.
AppendAlways(m, r) == Append(m, r)

\* dict assignment: a key that is there keeps its place.
Upsert(m, r) ==
    IF \E i \in DOMAIN m : m[i].key = r.key
    THEN [i \in DOMAIN m |-> IF m[i].key = r.key THEN r ELSE m[i]]
    ELSE Append(m, r)

\* json.loads accepts a line that is exactly one whole record.
Legible(line) == Len(line) = 1 /\ line[1] # Torn

\* _load: line by line, skipping what does not parse.
Load(file) ==
    LET read[n \in 0..Len(file)] ==
            IF n = 0 THEN <<>>
            ELSE IF Legible(file[n]) THEN Upsert(read[n - 1], file[n][1])
            ELSE read[n - 1]
    IN  read[Len(file)]

\* Mutant: the file is opened for writing, not for appending.
Overwritten(piece) == <<<<piece>>>>

\* The file with one more piece of text, after a newline or not.
Appended(piece) ==
    IF ended THEN Append(lines, <<piece>>)
    ELSE [lines EXCEPT ![Len(lines)] = Append(@, piece)]

\* Mutant: the newline is forgotten.
Unterminated(r) ==
    /\ lines' = Appended(r)
    /\ ended' = FALSE

WriteLine(r) ==
    /\ lines' = Appended(r)
    /\ ended' = TRUE

RecordOf(result) == [key |-> MakeText[result.knobs], info |-> result.info]

\* Mutant: the early return for a success is gone.
RecordAll(result) ==
    /\ up
    /\ Len(history) < MaxFailures
    /\ memory' = Upsert(memory, RecordOf(result))
    /\ WriteLine(RecordOf(result))
    /\ history' = IF result.success THEN history
                  ELSE Append(history, RecordOf(result))
    /\ UNCHANGED <<up, tears>>

\* record: a success stores nothing, a failure goes to the dict and the file
\* under the lock.
Record(result) ==
    /\ up
    /\ Len(history) < MaxFailures
    /\ ~result.success
    /\ memory' = Upsert(memory, RecordOf(result))
    /\ WriteLine(RecordOf(result))
    /\ history' = Append(history, RecordOf(result))
    /\ UNCHANGED <<up, tears>>

\* The driver is killed while it writes: nothing of the line, a part of it,
\* or all of it but the newline has reached the file.
DieWriting(result) ==
    /\ up
    /\ Len(history) < MaxFailures
    /\ tears < MaxTears
    /\ ~result.success
    /\ up' = FALSE
    /\ memory' = <<>>
    /\ history' = Append(history, RecordOf(result))
    /\ tears' = tears + 1
    /\ \/ UNCHANGED <<lines, ended>>
       \/ \E piece \in {Torn, RecordOf(result)} : lines' = Appended(piece) /\ ended' = FALSE

\* It is killed, or ends, between two writes.
Die ==
    /\ up
    /\ up' = FALSE
    /\ memory' = <<>>
    /\ UNCHANGED <<lines, ended, history, tears>>

\* The next driver opens the log.
Restart ==
    /\ ~up
    /\ up' = TRUE
    /\ memory' = Load(lines)
    /\ UNCHANGED <<lines, ended, history, tears>>

Next ==
    \/ \E result \in Results : Record(result) \/ DieWriting(result)
    \/ Die
    \/ Restart

Spec == Init /\ [][Next]_vars

-----------------------------------------------------------------------------
\* known_bad: an exact match on the key of the caller's spelling.
KnownBad(s) == \E i \in DOMAIN memory : memory[i].key = StrText[s]

\* Type invariant; memory is a dict, so its keys are distinct.
LogTypeOK ==
    /\ memory \in Seq(Records)
    /\ \A i, j \in DOMAIN memory : memory[i].key = memory[j].key => i = j
    /\ lines \in Seq(Seq(Records \cup {Torn}))
    /\ ended \in BOOLEAN
    /\ up \in BOOLEAN
    /\ history \in Seq(Records)
    /\ tears \in 0..MaxTears

\* A configuration whose values are numbers and strings is refused without a
\* run only if a run with that very command line has failed, whatever the
\* deaths and the garbled lines between, and whoever wrote the failed one how.
KnownBadSound ==
    \A s \in Spellings \ Booleans : KnownBad(s) =>
        \E i \in DOMAIN history : history[i].key = MakeText[s]

\* As long as no write was cut short, the driver and anyone who opens the file
\* now see the same failures in the same order: a clean restart forgets
\* nothing and changes no hint.
ReloadExact == up /\ tears = 0 => Load(lines) = memory

\* A death inside a write costs the record being written and, because the next
\* one is appended to the same line, at most one more.  ("a crashed run loses at
\* most the record it was writing", in failure_log.py, forgets the second.)
LossBounded ==
    Len(history) <= Cardinality({i \in DOMAIN lines : Legible(lines[i])}) + 2 * tears

\* knob_key says two spellings of one command line are one configuration:
\* what has failed is known bad under every spelling.
KnownBadComplete ==
    up /\ tears = 0 =>
        \A i \in DOMAIN history, s \in Spellings :
            MakeText[s] = history[i].key => KnownBad(s)
=============================================================================
