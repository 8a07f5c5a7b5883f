-------------------------- MODULE FailureLogProofs --------------------------
(***************************************************************************)
(* Proofs about FailureLog: what is refused has failed, a clean restart    *)
(* forgets nothing, and what deaths inside writes cost, for any mappings,  *)
(* failures and deaths, and a log of any length.                           *)
(***************************************************************************)
EXTENDS FailureLog, FiniteSetTheorems, WellFoundedInduction, TLAPS

-----------------------------------------------------------------------------
(***************************************************************************)
(* The dict.                                                               *)
(***************************************************************************)

Pieces == Records \cup {Torn}

\* A dict has one entry for a key.
IsDict(m) == \A i, j \in DOMAIN m : m[i].key = m[j].key => i = j

LEMMA NoEntries == <<>> \in Seq(Records) /\ IsDict(<<>>)
BY DEF IsDict

\* Assigning to a dict leaves a dict, with the record added and no other.
LEMMA UpsertDict ==
    ASSUME NEW R, R \subseteq Records, NEW r \in R,
           NEW m \in Seq(R), IsDict(m)
    PROVE  Upsert(m, r) \in Seq(R) /\ IsDict(Upsert(m, r))
<1> DEFINE changed == [i \in DOMAIN m |-> IF m[i].key = r.key THEN r ELSE m[i]]
<1>1. CASE \E i \in DOMAIN m : m[i].key = r.key
  <2>1. Upsert(m, r) = changed
    BY <1>1 DEF Upsert
  <2>2. changed \in Seq(R)
    <3>1. Len(m) \in Nat /\ DOMAIN m = 1..Len(m) /\ \A i \in 1..Len(m) : m[i] \in R
      OBVIOUS
    <3>2. changed \in [1..Len(m) -> R]
      BY <3>1
    <3> HIDE DEF changed
    <3>3. \A f \in [1..Len(m) -> R] : f \in Seq(R)
      BY <3>1
    <3>4. QED
      BY <3>2, <3>3
  <2>3. \A i \in DOMAIN m : changed[i].key = m[i].key
    OBVIOUS
  <2>4. IsDict(changed)
    BY <2>3 DEF IsDict
  <2>5. QED
    BY <2>1, <2>2, <2>4
<1>2. CASE ~ \E i \in DOMAIN m : m[i].key = r.key
  <2>1. Upsert(m, r) = Append(m, r)
    BY <1>2 DEF Upsert
  <2>2. IsDict(Append(m, r))
    <3>1. DOMAIN Append(m, r) = 1..(Len(m) + 1) /\ Len(m) \in Nat /\ DOMAIN m = 1..Len(m)
      OBVIOUS
    <3>2. \A i \in DOMAIN m : Append(m, r)[i] = m[i]
      OBVIOUS
    <3>3. Append(m, r)[Len(m) + 1] = r
      OBVIOUS
    <3>4. QED
      BY <1>2, <3>1, <3>2, <3>3 DEF IsDict
  <2>3. QED
    BY <2>1, <2>2
<1>3. QED
  BY <1>1, <1>2

-----------------------------------------------------------------------------
(***************************************************************************)
(* Reading the file back.                                                  *)
(***************************************************************************)

\* Of some natural numbers one is the least.
LEMMA LeastNumber ==
    ASSUME NEW P, P \subseteq Nat, P # {}
    PROVE  \E n \in P : \A m \in P : n <= m
<1> DEFINE less == {ss \in Nat \X Nat : ss[1] < ss[2]}
<1>1. PICK n \in P : \A m \in P : ~ (<<m, n>> \in OpToRel(<, Nat))
  BY NatLessThanWellFounded, WFMin
<1>2. OpToRel(<, Nat) = less
  BY Zenon DEF OpToRel
<1>3. \A m \in P : ~ (<<m, n>> \in less)
  BY <1>1, <1>2
<1>4. \A m, k \in Nat : m < k => <<m, k>> \in less
  OBVIOUS
<1> HIDE DEF less
<1>5. \A m \in P : ~ (m < n)
  BY <1>3, <1>4
<1>6. \A m, k \in Nat : ~ (m < k) => k <= m
  BY SMT
<1>7. QED
  BY <1>5, <1>6

\* What holds of the first lines, and of one line more whenever it holds of
\* some, holds of all.
LEMMA UpTo ==
    ASSUME NEW N \in Nat, NEW S, 0 \in S,
           \A n \in 1..N : n - 1 \in S => n \in S
    PROVE  \A n \in 0..N : n \in S
<1> DEFINE P == {n \in 0..N : n \notin S}
<1>1. SUFFICES ASSUME P # {} PROVE FALSE
  OBVIOUS
<1>2. P \subseteq Nat
  OBVIOUS
<1>3. PICK n \in P : \A m \in P : n <= m
  <2> HIDE DEF P
  <2> QED
    BY <1>1, <1>2, LeastNumber
<1>4. n \in 1..N /\ n - 1 \in 0..N /\ n - 1 \notin P
  BY <1>3
<1>5. QED
  BY <1>3, <1>4

\* The dict after one line more.
Read(m, line) == IF Legible(line) THEN Upsert(m, line[1]) ELSE m

\* The dicts after the first 0, 1, .., N lines.
Reading(f, file, N) ==
    f = [n \in 0..N |-> IF n = 0 THEN <<>>
                        ELSE IF Legible(file[n]) THEN Upsert(f[n - 1], file[n][1])
                        ELSE f[n - 1]]

LEMMA ReadingSteps ==
    ASSUME NEW f, NEW file, NEW N \in Nat, Reading(f, file, N)
    PROVE  /\ DOMAIN f = 0..N /\ f[0] = <<>>
           /\ \A n \in 1..N : f[n] = Read(f[n - 1], file[n])
<1> DEFINE val(n) == IF n = 0 THEN <<>>
                     ELSE IF Legible(file[n]) THEN Upsert(f[n - 1], file[n][1])
                     ELSE f[n - 1]
<1>1. f = [n \in 0..N |-> val(n)]
  BY Zenon DEF Reading
<1>2. \A n \in 1..N : val(n) = Read(f[n - 1], file[n])
  BY DEF Read
<1>3. val(0) = <<>>
  OBVIOUS
<1> HIDE DEF val
<1>4. DOMAIN f = 0..N /\ \A n \in 0..N : f[n] = val(n)
  BY <1>1, Zenon
<1>5. QED
  BY <1>2, <1>3, <1>4

LEMMA ReadingExists ==
    ASSUME NEW file, NEW N \in Nat
    PROVE  \E f : Reading(f, file, N)
<1> DEFINE S == {n \in 0..N : \E f : Reading(f, file, n)}
<1>1. 0 \in S
  <2>1. Reading([n \in 0..0 |-> <<>>], file, 0)
    BY DEF Reading
  <2>2. QED
    BY <2>1
<1>2. ASSUME NEW n \in 1..N, n - 1 \in S PROVE n \in S
  <2>1. n - 1 \in Nat /\ n \in 0..N
    OBVIOUS
  <2>2. PICK f : Reading(f, file, n - 1)
    BY <1>2
  <2>3. /\ DOMAIN f = 0..(n - 1) /\ f[0] = <<>>
        /\ \A i \in 1..(n - 1) : f[i] = Read(f[i - 1], file[i])
    BY <2>1, <2>2, ReadingSteps
  <2> DEFINE g == [i \in 0..n |-> IF i = n THEN Read(f[n - 1], file[n]) ELSE f[i]]
  <2>4. g[0] = <<>>
    BY <2>1, <2>3
  <2>5. \A i \in 0..n : i # 0 => g[i] = Read(g[i - 1], file[i])
    <3> TAKE i \in 0..n
    <3>1. CASE i = n
      BY <3>1, <2>1
    <3>2. CASE i # n
      BY <3>2, <2>1, <2>3
    <3>3. QED
      BY <3>1, <3>2
  <2>6. g = [i \in 0..n |-> g[i]]
    OBVIOUS
  <2> HIDE DEF g
  <2>7. g = [i \in 0..n |-> IF i = 0 THEN <<>>
                            ELSE IF Legible(file[i]) THEN Upsert(g[i - 1], file[i][1])
                            ELSE g[i - 1]]
    BY <2>4, <2>5, <2>6 DEF Read
  <2>8. Reading(g, file, n)
    BY <2>7, Zenon DEF Reading
  <2>9. QED
    BY <2>1, <2>8
<1> HIDE DEF S
<1>3. N \in S
  BY <1>1, <1>2, UpTo
<1>4. QED
  BY <1>3 DEF S

\* _load is the last of these dicts.
LEMMA LoadReads ==
    ASSUME NEW file, Len(file) \in Nat
    PROVE  \E f : /\ DOMAIN f = 0..Len(file) /\ f[0] = <<>>
                  /\ \A n \in 1..Len(file) : f[n] = Read(f[n - 1], file[n])
                  /\ Load(file) = f[Len(file)]
<1> DEFINE read == CHOOSE f : Reading(f, file, Len(file))
<1>1. Load(file) = read[Len(file)]
  BY Zenon DEF Load, Reading
<1>2. Reading(read, file, Len(file))
  BY ReadingExists, Zenon
<1> HIDE DEF read
<1>3. QED
  BY <1>1, <1>2, ReadingSteps

\* What _load returns is a dict of records that stand in the file.
LEMMA LoadDict ==
    ASSUME NEW R, R \subseteq Records,
           NEW file, Len(file) \in Nat,
           \A n \in 1..Len(file) : Legible(file[n]) => file[n][1] \in R
    PROVE  Load(file) \in Seq(R) /\ IsDict(Load(file))
<1>1. PICK f : /\ DOMAIN f = 0..Len(file) /\ f[0] = <<>>
               /\ \A n \in 1..Len(file) : f[n] = Read(f[n - 1], file[n])
               /\ Load(file) = f[Len(file)]
  BY LoadReads
<1> DEFINE S == {n \in 0..Len(file) : f[n] \in Seq(R) /\ IsDict(f[n])}
<1>2. 0 \in S
  <2>1. <<>> \in Seq(R) /\ IsDict(<<>>)
    BY DEF IsDict
  <2>2. f[0] \in Seq(R) /\ IsDict(f[0]) /\ 0 \in 0..Len(file)
    BY <1>1, <2>1
  <2>3. QED
    BY <2>2
<1>3. ASSUME NEW n \in 1..Len(file), n - 1 \in S PROVE n \in S
  <2>1. f[n - 1] \in Seq(R) /\ IsDict(f[n - 1])
    BY <1>3
  <2>2. f[n] = Read(f[n - 1], file[n])
    BY <1>1
  <2>3. CASE Legible(file[n])
    <3>1. f[n] = Upsert(f[n - 1], file[n][1]) /\ file[n][1] \in R
      BY <2>2, <2>3 DEF Read
    <3>2. f[n] \in Seq(R) /\ IsDict(f[n])
      BY <2>1, <3>1, UpsertDict
    <3>3. QED
      BY <3>2
  <2>4. CASE ~Legible(file[n])
    BY <2>1, <2>2, <2>4 DEF Read
  <2>5. QED
    BY <2>3, <2>4
<1> HIDE DEF S
<1>4. Len(file) \in S
  <2>1. Len(file) \in Nat /\ Len(file) \in 0..Len(file)
    OBVIOUS
  <2>2. \A n \in 1..Len(file) : n - 1 \in S => n \in S
    BY <1>3
  <2>3. \A n \in 0..Len(file) : n \in S
    BY <1>2, <2>1, <2>2, UpTo
  <2>4. QED
    BY <2>1, <2>3
<1>5. QED
  BY <1>1, <1>4 DEF S

\* The dict of no lines.
LEMMA LoadNothing == Load(<<>>) = <<>>
<1>1. Len(<<>>) = 0
  OBVIOUS
<1>2. QED
  BY <1>1, LoadReads

\* A line more is read after the others.
LEMMA LoadOneMore ==
    ASSUME NEW L, NEW file \in Seq(L), NEW line \in L
    PROVE  Load(Append(file, line)) = Read(Load(file), line)
<1> DEFINE longer == Append(file, line)
           N == Len(file)
<1>1. /\ N \in Nat /\ Len(longer) = N + 1 /\ longer[N + 1] = line
      /\ \A n \in 1..N : longer[n] = file[n]
  OBVIOUS
<1> HIDE DEF longer, N
<1>2. PICK f : /\ f[0] = <<>> /\ \A n \in 1..N : f[n] = Read(f[n - 1], file[n])
               /\ Load(file) = f[N]
  BY <1>1, LoadReads DEF N
<1>3. PICK g : /\ g[0] = <<>> /\ \A n \in 1..(N + 1) : g[n] = Read(g[n - 1], longer[n])
               /\ Load(longer) = g[N + 1]
  BY <1>1, LoadReads
<1> DEFINE S == {n \in 0..N : f[n] = g[n]}
<1>4. 0 \in S
  BY <1>1, <1>2, <1>3
<1>5. ASSUME NEW n \in 1..N, n - 1 \in S PROVE n \in S
  <2>1. f[n - 1] = g[n - 1] /\ n \in 1..(N + 1)
    BY <1>1, <1>5
  <2>2. QED
    BY <1>1, <1>2, <1>3, <2>1
<1> HIDE DEF S
<1>6. N \in S
  <2>1. N \in Nat /\ N \in 0..N
    BY <1>1
  <2>2. \A n \in 1..N : n - 1 \in S => n \in S
    BY <1>5
  <2>3. \A n \in 0..N : n \in S
    BY <1>4, <2>1, <2>2, UpTo
  <2>4. QED
    BY <2>1, <2>3
<1>7. f[N] = g[N]
  BY <1>6 DEF S
<1>8. g[N + 1] = Read(g[N + 1 - 1], line) /\ N + 1 - 1 = N
  BY <1>1, <1>3
<1>9. QED
  BY <1>2, <1>3, <1>7, <1>8 DEF longer

-----------------------------------------------------------------------------
(***************************************************************************)
(* The inductive invariant.                                                *)
(***************************************************************************)

\* The records handed to the log so far.
Noted == {history[j] : j \in DOMAIN history}

\* Every record in memory or in a whole line of the file was handed to the log.
OnlyNoted ==
    /\ memory \in Seq(Noted) /\ IsDict(memory)
    /\ \A n \in DOMAIN lines : Legible(lines[n]) => lines[n][1] \in Noted

\* The key of a record is what _coerce made of some caller's mapping.
Cleaned == \A j \in DOMAIN history : \E u \in Spellings : history[j].key = MakeText[u]

LegibleLines(file) == {n \in DOMAIN file : Legible(file[n])}

\* What the next record will cost besides itself: if it is appended to a line
\* without its newline it is lost, and with it what that line had kept.
AtStake ==
    IF ended THEN 0 ELSE IF Legible(lines[Len(lines)]) THEN 2 ELSE 1

LogInv ==
    /\ LogTypeOK
    /\ OnlyNoted
    /\ Cleaned
    /\ ~ended => lines # <<>>
    /\ \A n \in DOMAIN lines : lines[n] # <<>>
    /\ tears = 0 => ended
    /\ ReloadExact
    /\ Len(history) + AtStake <= Cardinality(LegibleLines(lines)) + 2 * tears
-----------------------------------------------------------------------------
(***************************************************************************)
(* The file.                                                               *)
(***************************************************************************)

\* Text written after a newline is a line of its own; text written after none
\* makes the last line longer, and illegible.
LEMMA AppendedText ==
    ASSUME lines \in Seq(Seq(Pieces)), ~ended => lines # <<>>,
           NEW piece \in Pieces
    PROVE  /\ Appended(piece) \in Seq(Seq(Pieces)) /\ Appended(piece) # <<>>
           /\ ended => /\ DOMAIN Appended(piece) = DOMAIN lines \cup {Len(lines) + 1}
                       /\ Len(Appended(piece)) = Len(lines) + 1
                       /\ Len(lines) + 1 \notin DOMAIN lines
                       /\ Appended(piece)[Len(lines) + 1] = <<piece>>
                       /\ \A n \in DOMAIN lines : Appended(piece)[n] = lines[n]
           /\ ~ended => /\ DOMAIN Appended(piece) = DOMAIN lines
                        /\ Len(Appended(piece)) = Len(lines) /\ Len(lines) \in DOMAIN lines
                        /\ Appended(piece)[Len(lines)] = Append(lines[Len(lines)], piece)
                        /\ \A n \in DOMAIN lines \ {Len(lines)} : Appended(piece)[n] = lines[n]
<1> DEFINE L == Seq(Pieces)
<1>1. <<piece>> \in L
  OBVIOUS
<1>2. \A line \in L : Append(line, piece) \in L
  OBVIOUS
<1> HIDE DEF L
<1>3. lines \in Seq(L) /\ Len(lines) \in Nat
  BY DEF L
<1>4. CASE ended
  <2>1. Appended(piece) = Append(lines, <<piece>>)
    BY <1>4 DEF Appended
  <2>2. QED
    BY <1>1, <1>3, <1>4, <2>1 DEF L
<1>5. CASE ~ended
  <2>1. Len(lines) \in DOMAIN lines /\ lines[Len(lines)] \in L
    BY <1>3, <1>5
  <2> DEFINE longer == Append(lines[Len(lines)], piece)
  <2>2. longer \in L
    BY <1>2, <2>1
  <2>3. Appended(piece) = [lines EXCEPT ![Len(lines)] = longer]
    BY <1>5 DEF Appended
  <2> HIDE DEF longer
  <2>4. /\ Appended(piece) \in Seq(L) /\ Len(Appended(piece)) = Len(lines)
        /\ DOMAIN Appended(piece) = DOMAIN lines
        /\ Appended(piece)[Len(lines)] = longer
        /\ \A n \in DOMAIN lines \ {Len(lines)} : Appended(piece)[n] = lines[n]
    BY <1>3, <2>1, <2>2, <2>3
  <2>5. Appended(piece) # <<>>
    BY <1>3, <2>1, <2>4
  <2>6. QED
    BY <1>5, <2>1, <2>4, <2>5 DEF L, longer
<1>6. QED
  BY <1>4, <1>5

\* A line begun and continued is not legible.
LEMMA ContinuedIllegible ==
    ASSUME NEW line \in Seq(Pieces), NEW piece \in Pieces, Legible(Append(line, piece))
    PROVE  line = <<>>
<1>1. Len(Append(line, piece)) = Len(line) + 1 /\ Len(line) \in Nat
  OBVIOUS
<1>2. Len(line) = 0
  BY <1>1 DEF Legible
<1>3. QED
  BY <1>2
\* How many legible lines writing a piece adds or destroys.
LEMMA LegibleAfter ==
    ASSUME lines \in Seq(Seq(Pieces)), ~ended => lines # <<>>,
           \A n \in DOMAIN lines : lines[n] # <<>>,
           NEW piece \in Pieces
    PROVE  /\ \A n \in DOMAIN Appended(piece) : Appended(piece)[n] # <<>>
           /\ \A n \in LegibleLines(Appended(piece)) :
                 \/ n \in LegibleLines(lines) /\ Appended(piece)[n] = lines[n]
                 \/ ended /\ n = Len(lines) + 1 /\ piece # Torn
           /\ Cardinality(LegibleLines(lines)) \in Nat
           /\ Cardinality(LegibleLines(Appended(piece)))
                 = Cardinality(LegibleLines(lines))
                     + (IF ended THEN IF piece = Torn THEN 0 ELSE 1
                        ELSE IF Legible(lines[Len(lines)]) THEN -1 ELSE 0)
           /\ ended => (Legible(Appended(piece)[Len(lines) + 1]) <=> piece # Torn)
           /\ ~ended => ~Legible(Appended(piece)[Len(lines)])
<1> DEFINE A == Appended(piece)
           N == Len(lines)
           D == DOMAIN lines
<1>1. N \in Nat /\ D = 1..N /\ \A n \in D : lines[n] \in Seq(Pieces)
  OBVIOUS
<1>2. IsFiniteSet(LegibleLines(lines))
  <2>1. IsFiniteSet(D)
    BY <1>1, FS_Interval
  <2>2. QED
    BY <2>1, FS_Subset DEF LegibleLines
<1>3. Cardinality(LegibleLines(lines)) \in Nat
  BY <1>2, FS_CardinalityType
<1>4. /\ ended => /\ DOMAIN A = D \cup {N + 1} /\ N + 1 \notin D
                  /\ A[N + 1] = <<piece>> /\ \A n \in D : A[n] = lines[n]
      /\ ~ended => /\ DOMAIN A = D /\ N \in D
                   /\ A[N] = Append(lines[N], piece)
                   /\ \A n \in D \ {N} : A[n] = lines[n]
  BY AppendedText
<1> HIDE DEF A, N, D
<1>5. CASE ended
  <2>1. Legible(<<piece>>) <=> piece # Torn
    BY DEF Legible
  <2>2. <<piece>> # <<>>
    OBVIOUS
  <2>3. LegibleLines(A) = LegibleLines(lines) \cup (IF piece = Torn THEN {} ELSE {N + 1})
    BY <1>4, <1>5, <2>1 DEF LegibleLines, D
  <2>4. N + 1 \notin LegibleLines(lines)
    BY <1>4, <1>5 DEF LegibleLines, D
  <2>5. Cardinality(LegibleLines(A))
          = Cardinality(LegibleLines(lines)) + (IF piece = Torn THEN 0 ELSE 1)
    <3>1. CASE piece = Torn
      <4>1. LegibleLines(A) = LegibleLines(lines)
        BY <2>3, <3>1
      <4>2. QED
        BY <1>3, <3>1, <4>1
    <3>2. CASE piece # Torn
      <4>1. LegibleLines(A) = LegibleLines(lines) \cup {N + 1}
        BY <2>3, <3>2
      <4>2. Cardinality(LegibleLines(A)) = Cardinality(LegibleLines(lines)) + 1
        BY <1>2, <2>4, <4>1, FS_AddElement
      <4>3. QED
        BY <3>2, <4>2
    <3>3. QED
      BY <3>1, <3>2
  <2>6. \A n \in DOMAIN A : A[n] # <<>>
    BY <1>4, <1>5, <2>2 DEF D
  <2>7. \A n \in LegibleLines(A) : \/ n \in LegibleLines(lines) /\ A[n] = lines[n]
                                   \/ n = N + 1 /\ piece # Torn
    <3> TAKE n \in LegibleLines(A)
    <3>1. CASE n \in LegibleLines(lines)
      BY <1>4, <1>5, <3>1 DEF LegibleLines, D
    <3>2. CASE n \notin LegibleLines(lines)
      BY <2>3, <3>2
    <3>3. QED
      BY <3>1, <3>2
  <2>8. QED
    BY <1>3, <1>4, <1>5, <2>1, <2>5, <2>6, <2>7 DEF A, N
<1>6. CASE ~ended
  <2>1. lines[N] \in Seq(Pieces) /\ lines[N] # <<>>
    BY <1>1, <1>4, <1>6 DEF D
  <2>2. ~Legible(A[N])
    BY <1>4, <1>6, <2>1, ContinuedIllegible
  <2>3. A[N] # <<>>
    <3>1. \A line \in Seq(Pieces) : Len(Append(line, piece)) = Len(line) + 1 /\ Len(line) \in Nat
      OBVIOUS
    <3>2. Len(Append(lines[N], piece)) # 0 /\ Len(<<>>) = 0
      BY <2>1, <3>1
    <3>3. QED
      BY <1>4, <1>6, <3>2
  <2>4. LegibleLines(A) = LegibleLines(lines) \ {N}
    BY <1>4, <1>6, <2>2 DEF LegibleLines, D
  <2>5. N \in LegibleLines(lines) <=> Legible(lines[N])
    BY <1>4, <1>6 DEF LegibleLines, D
  <2>6. Cardinality(LegibleLines(A))
          = Cardinality(LegibleLines(lines)) + (IF Legible(lines[N]) THEN -1 ELSE 0)
    <3>1. CASE Legible(lines[N])
      <4>1. Cardinality(LegibleLines(A)) = Cardinality(LegibleLines(lines)) - 1
        BY <1>2, <2>4, <2>5, <3>1, FS_RemoveElement
      <4>2. QED
        BY <1>3, <3>1, <4>1
    <3>2. CASE ~Legible(lines[N])
      <4>1. LegibleLines(A) = LegibleLines(lines)
        BY <2>4, <2>5, <3>2
      <4>2. QED
        BY <1>3, <3>2, <4>1
    <3>3. QED
      BY <3>1, <3>2
  <2>7. \A n \in DOMAIN A : A[n] # <<>>
    BY <1>4, <1>6, <2>3 DEF D
  <2>8. \A n \in LegibleLines(A) : n \in LegibleLines(lines) /\ A[n] = lines[n]
    BY <1>4, <1>6, <2>4 DEF LegibleLines, D
  <2>9. QED
    BY <1>3, <1>6, <2>2, <2>6, <2>7, <2>8 DEF A, N
<1>7. QED
  BY <1>5, <1>6
-----------------------------------------------------------------------------
(***************************************************************************)
(* The steps.                                                              *)
(***************************************************************************)

LEMMA LogInit == Init => LogInv
<1> SUFFICES ASSUME Init PROVE LogInv
  OBVIOUS
<1>1. LogTypeOK
  BY BoundsAssumption DEF Init, LogTypeOK
<1>2. OnlyNoted
  BY DEF Init, OnlyNoted, IsDict
<1>3. ReloadExact /\ Cleaned
  BY LoadNothing DEF Init, ReloadExact, Cleaned
<1>4. Cardinality(LegibleLines(lines)) = 0
  <2>1. LegibleLines(lines) = {}
    BY DEF Init, LegibleLines
  <2>2. QED
    BY <2>1, FS_EmptySet
<1>5. Len(history) + AtStake <= Cardinality(LegibleLines(lines)) + 2 * tears
  BY <1>4 DEF Init, AtStake
<1>6. QED
  BY <1>1, <1>2, <1>3, <1>5 DEF Init, LogInv

\* What the log is handed is a record; a piece of it is no record.
LEMMA Handed ==
    ASSUME NEW result \in Results
    PROVE  /\ RecordOf(result) \in Records /\ RecordOf(result) \in Pieces
           /\ RecordOf(result) # Torn /\ Torn \in Pieces
BY SpellingAssumption, TornAssumption DEF RecordOf, Results, Records, Pieces

\* Its key is a cleaned mapping's.
LEMMA HandedCleaned ==
    ASSUME LogTypeOK, Cleaned, NEW result \in Results,
           history' = Append(history, RecordOf(result))
    PROVE  Cleaned'
<1>1. RecordOf(result).key = MakeText[result.knobs] /\ result.knobs \in Spellings
  BY DEF RecordOf, Results
<1>2. RecordOf(result) \in Records /\ history \in Seq(Records)
  BY Handed DEF LogTypeOK
<1> DEFINE r == RecordOf(result)
<1>3. r \in Records /\ history' = Append(history, r) /\ r.key = MakeText[result.knobs]
  BY <1>1, <1>2
<1> HIDE DEF r
<1>4. \A j \in DOMAIN history' : \/ j \in DOMAIN history /\ history'[j] = history[j]
                                \/ history'[j] = r
  BY <1>2, <1>3
<1>5. QED
  BY <1>1, <1>3, <1>4 DEF Cleaned

\* A record more in the history.
LEMMA HistoryGrows ==
    ASSUME history \in Seq(Records), NEW r \in Records, history' = Append(history, r)
    PROVE  /\ history' \in Seq(Records) /\ Len(history') = Len(history) + 1
           /\ Noted' = Noted \cup {r} /\ Noted' \subseteq Records
<1>1. /\ Len(history) \in Nat /\ DOMAIN history = 1..Len(history)
      /\ history' \in Seq(Records) /\ Len(history') = Len(history) + 1
      /\ DOMAIN history' = DOMAIN history \cup {Len(history) + 1}
      /\ \A j \in DOMAIN history : history'[j] = history[j] /\ history'[j] \in Records
      /\ history'[Len(history) + 1] = r
  OBVIOUS
<1>2. Noted' = {history'[j] : j \in DOMAIN history'}
  BY DEF Noted
<1>3. \A x \in Noted' : x \in Noted \cup {r}
  BY <1>1, <1>2 DEF Noted
<1>4. \A x \in Noted \cup {r} : x \in Noted'
  BY <1>1, <1>2 DEF Noted
<1>5. Noted' \subseteq Records
  BY <1>1, <1>2
<1>6. QED
  BY <1>1, <1>3, <1>4, <1>5

LEMMA NotedRecords ==
    ASSUME history \in Seq(Records)
    PROVE  Noted \subseteq Records
BY DEF Noted

\* record.
LEMMA RecordStep ==
    ASSUME LogInv, NEW result \in Results, Record(result)
    PROVE  LogInv'
<1> DEFINE r == RecordOf(result)
<1>1. r \in Records /\ r \in Pieces /\ r # Torn
  BY Handed
<1> HIDE DEF r
<1>2. /\ memory' = Upsert(memory, r) /\ lines' = Appended(r) /\ ended' = TRUE
      /\ history' = Append(history, r) /\ up /\ up' = up /\ tears' = tears
  BY DEF Record, WriteLine, r
<1>3. /\ memory \in Seq(Noted) /\ IsDict(memory) /\ lines \in Seq(Seq(Pieces))
      /\ history \in Seq(Records) /\ tears \in 0..MaxTears /\ MaxTears \in Nat
      /\ ~ended => lines # <<>>
      /\ \A n \in DOMAIN lines : lines[n] # <<>>
      /\ \A n \in DOMAIN lines : Legible(lines[n]) => lines[n][1] \in Noted
  BY BoundsAssumption DEF LogInv, LogTypeOK, OnlyNoted, Pieces
<1>4. /\ history' \in Seq(Records) /\ Len(history') = Len(history) + 1 /\ Len(history) \in Nat
      /\ Noted' = Noted \cup {r} /\ Noted' \subseteq Records
  BY <1>1, <1>2, <1>3, HistoryGrows
<1>5. memory' \in Seq(Noted') /\ IsDict(memory')
  <2>1. memory \in Seq(Noted') /\ r \in Noted'
    BY <1>3, <1>4
  <2>2. Upsert(memory, r) \in Seq(Noted') /\ IsDict(Upsert(memory, r))
    BY <1>3, <1>4, <2>1, UpsertDict
  <2>3. QED
    BY <1>2, <2>2 DEF IsDict
<1>6. /\ lines' \in Seq(Seq(Pieces)) /\ lines' # <<>>
      /\ ended => /\ DOMAIN lines' = DOMAIN lines \cup {Len(lines) + 1}
                  /\ lines'[Len(lines) + 1] = <<r>>
  BY <1>1, <1>2, <1>3, AppendedText
<1>7. /\ \A n \in DOMAIN lines' : lines'[n] # <<>>
      /\ \A n \in LegibleLines(lines') :
            \/ n \in LegibleLines(lines) /\ lines'[n] = lines[n]
            \/ ended /\ n = Len(lines) + 1
      /\ Cardinality(LegibleLines(lines)) \in Nat
      /\ Cardinality(LegibleLines(lines'))
            = Cardinality(LegibleLines(lines))
                + (IF ended THEN 1 ELSE IF Legible(lines[Len(lines)]) THEN -1 ELSE 0)
  BY <1>1, <1>2, <1>3, LegibleAfter
<1>8. \A n \in DOMAIN lines' : Legible(lines'[n]) => lines'[n][1] \in Noted'
  <2> SUFFICES ASSUME NEW n \in LegibleLines(lines') PROVE lines'[n][1] \in Noted'
    BY DEF LegibleLines
  <2>1. CASE n \in LegibleLines(lines) /\ lines'[n] = lines[n]
    BY <1>3, <1>4, <2>1 DEF LegibleLines
  <2>2. CASE ended /\ n = Len(lines) + 1
    BY <1>4, <1>6, <2>2
  <2>3. QED
    BY <1>7, <2>1, <2>2
<1>9. LogTypeOK'
  <2>1. memory' \in Seq(Records)
    BY <1>4, <1>5
  <2>2. QED
    BY <1>2, <1>3, <1>4, <1>5, <1>6, <2>1 DEF LogTypeOK, LogInv, IsDict, Pieces
<1>10. OnlyNoted'
  BY <1>5, <1>8 DEF OnlyNoted, IsDict
<1>11. ReloadExact'
  <2> SUFFICES ASSUME tears = 0 PROVE Load(lines') = memory'
    BY <1>2 DEF ReloadExact
  <2>1. ended /\ Load(lines) = memory
    BY <1>2 DEF LogInv, ReloadExact
  <2>2. lines' = Append(lines, <<r>>)
    BY <1>2, <2>1 DEF Appended
  <2>3. <<r>> \in Seq(Pieces)
    BY <1>1
  <2>4. Load(lines') = Read(memory, <<r>>)
    BY <1>3, <2>1, <2>2, <2>3, LoadOneMore
  <2>5. Read(memory, <<r>>) = Upsert(memory, r)
    BY <1>1 DEF Read, Legible
  <2>6. QED
    BY <1>2, <2>4, <2>5
<1>12. Len(history') + AtStake' <= Cardinality(LegibleLines(lines')) + 2 * tears'
  <2>1. Len(history) + AtStake <= Cardinality(LegibleLines(lines)) + 2 * tears
    BY DEF LogInv
  <2>2. AtStake' = 0
    BY <1>2 DEF AtStake
  <2>3. CASE ended
    BY <1>2, <1>3, <1>4, <1>7, <2>1, <2>2, <2>3 DEF AtStake
  <2>4. CASE ~ended
    BY <1>2, <1>3, <1>4, <1>7, <2>1, <2>2, <2>4 DEF AtStake
  <2>5. QED
    BY <2>3, <2>4
<1>13. tears' = 0 => ended'
  BY <1>2
<1>14. ~ended' => lines' # <<>>
  BY <1>2
<1>15. Cleaned'
  BY <1>2, HandedCleaned DEF LogInv, r
<1>16. QED
  BY <1>7, <1>9, <1>10, <1>11, <1>12, <1>13, <1>14, <1>15 DEF LogInv, LegibleLines
\* The driver is killed in the middle of a write.
LEMMA DieWritingStep ==
    ASSUME LogInv, NEW result \in Results, DieWriting(result)
    PROVE  LogInv'
<1> DEFINE r == RecordOf(result)
<1>1. r \in Records /\ r \in Pieces /\ r # Torn /\ Torn \in Pieces
  BY Handed
<1> HIDE DEF r
<1>2. /\ memory' = <<>> /\ history' = Append(history, r)
      /\ up' = FALSE /\ tears' = tears + 1 /\ tears < MaxTears
      /\ \/ lines' = lines /\ ended' = ended
         \/ \E piece \in {Torn, r} : lines' = Appended(piece) /\ ended' = FALSE
  BY Zenon DEF DieWriting, r
<1>3. /\ lines \in Seq(Seq(Pieces)) /\ ended \in BOOLEAN
      /\ history \in Seq(Records) /\ tears \in 0..MaxTears /\ MaxTears \in Nat
      /\ ~ended => lines # <<>>
      /\ \A n \in DOMAIN lines : lines[n] # <<>>
      /\ \A n \in DOMAIN lines : Legible(lines[n]) => lines[n][1] \in Noted
      /\ Len(history) + AtStake <= Cardinality(LegibleLines(lines)) + 2 * tears
  BY BoundsAssumption DEF LogInv, LogTypeOK, OnlyNoted, Pieces
<1>4. /\ history' \in Seq(Records) /\ Len(history') = Len(history) + 1 /\ Len(history) \in Nat
      /\ Noted' = Noted \cup {r} /\ Noted' \subseteq Records
  BY <1>1, <1>2, <1>3, HistoryGrows
<1>5. Cardinality(LegibleLines(lines)) \in Nat
  BY <1>1, <1>3, LegibleAfter
<1>6. /\ lines' \in Seq(Seq(Pieces)) /\ ended' \in BOOLEAN
      /\ ~ended' => lines' # <<>>
      /\ \A n \in DOMAIN lines' : lines'[n] # <<>>
      /\ \A n \in DOMAIN lines' : Legible(lines'[n]) => lines'[n][1] \in Noted'
      /\ Len(history') + AtStake' <= Cardinality(LegibleLines(lines')) + 2 * tears'
  <2>1. CASE lines' = lines /\ ended' = ended
    <3>1. AtStake' = AtStake
      BY <2>1 DEF AtStake
    <3>2. Len(history') + AtStake' <= Cardinality(LegibleLines(lines')) + 2 * tears'
      BY <1>2, <1>3, <1>4, <1>5, <2>1, <3>1 DEF AtStake
    <3>3. QED
      BY <1>3, <1>4, <2>1, <3>2
  <2>2. ASSUME NEW piece \in {Torn, r}, lines' = Appended(piece), ended' = FALSE
        PROVE  <1>6!1 /\ <1>6!2 /\ <1>6!3 /\ <1>6!4 /\ <1>6!5
    <3>1. piece \in Pieces
      BY <1>1
    <3>2. /\ lines' \in Seq(Seq(Pieces)) /\ lines' # <<>>
          /\ ended => /\ Len(lines') = Len(lines) + 1
                      /\ lines'[Len(lines) + 1] = <<piece>>
          /\ ~ended => Len(lines') = Len(lines)
      BY <1>3, <2>2, <3>1, AppendedText
    <3>3. /\ \A n \in DOMAIN lines' : lines'[n] # <<>>
          /\ \A n \in LegibleLines(lines') :
                \/ n \in LegibleLines(lines) /\ lines'[n] = lines[n]
                \/ ended /\ n = Len(lines) + 1 /\ piece # Torn
          /\ Cardinality(LegibleLines(lines'))
                = Cardinality(LegibleLines(lines))
                    + (IF ended THEN IF piece = Torn THEN 0 ELSE 1
                       ELSE IF Legible(lines[Len(lines)]) THEN -1 ELSE 0)
          /\ ended => (Legible(lines'[Len(lines) + 1]) <=> piece # Torn)
          /\ ~ended => ~Legible(lines'[Len(lines)])
      BY <1>3, <2>2, <3>1, LegibleAfter
    <3>4. \A n \in DOMAIN lines' : Legible(lines'[n]) => lines'[n][1] \in Noted'
      <4> SUFFICES ASSUME NEW n \in LegibleLines(lines') PROVE lines'[n][1] \in Noted'
        BY DEF LegibleLines
      <4>1. CASE n \in LegibleLines(lines) /\ lines'[n] = lines[n]
        BY <1>3, <1>4, <4>1 DEF LegibleLines
      <4>2. CASE ended /\ n = Len(lines) + 1 /\ piece # Torn
        BY <1>4, <3>2, <4>2
      <4>3. QED
        BY <3>3, <4>1, <4>2
    <3>5. AtStake' = IF Legible(lines'[Len(lines')]) THEN 2 ELSE 1
      BY <2>2 DEF AtStake
    <3>6. Len(history') + AtStake' <= Cardinality(LegibleLines(lines')) + 2 * tears'
      <4>1. CASE ended
        <5>1. AtStake' = IF piece # Torn THEN 2 ELSE 1
          BY <3>2, <3>3, <3>5, <4>1
        <5>2. AtStake = 0
          BY <4>1 DEF AtStake
        <5>3. Cardinality(LegibleLines(lines'))
                = Cardinality(LegibleLines(lines)) + (IF piece = Torn THEN 0 ELSE 1)
          BY <3>3, <4>1
        <5>4. QED
          BY <1>2, <1>3, <1>4, <1>5, <5>1, <5>2, <5>3
      <4>2. CASE ~ended
        <5>1. AtStake' = 1
          BY <3>2, <3>3, <3>5, <4>2
        <5>2. AtStake = IF Legible(lines[Len(lines)]) THEN 2 ELSE 1
          BY <4>2 DEF AtStake
        <5>3. Cardinality(LegibleLines(lines'))
                = Cardinality(LegibleLines(lines))
                    + (IF Legible(lines[Len(lines)]) THEN -1 ELSE 0)
          BY <3>3, <4>2
        <5>4. QED
          BY <1>2, <1>3, <1>4, <1>5, <5>1, <5>2, <5>3
      <4>3. QED
        BY <4>1, <4>2
    <3>7. QED
      BY <2>2, <3>2, <3>3, <3>4, <3>6
  <2>3. QED
    BY <1>2, <2>1, <2>2
<1>7. LogTypeOK'
  <2>1. history' \in Seq(Records) /\ tears' \in 0..MaxTears
    BY <1>2, <1>3, <1>4
  <2>2. up' \in BOOLEAN
    BY <1>2, Zenon
  <2>3. QED
    BY <1>2, <1>6, <2>1, <2>2, NoEntries, Zenon DEF LogTypeOK, IsDict, Pieces
<1>8. OnlyNoted'
  BY <1>2, <1>6 DEF OnlyNoted, IsDict
<1>9. ReloadExact' /\ (tears' = 0 => ended')
  BY <1>2, <1>3 DEF ReloadExact
<1>10. Cleaned'
  BY <1>2, HandedCleaned DEF LogInv, r
<1>11. QED
  BY <1>6, <1>7, <1>8, <1>9, <1>10 DEF LogInv, LegibleLines

\* It dies between two writes.
LEMMA DieStep ==
    ASSUME LogInv, Die
    PROVE  LogInv'
<1>1. memory' = <<>> /\ up' = FALSE /\ UNCHANGED <<lines, ended, history, tears>>
  BY DEF Die
<1>2. LogTypeOK'
  <2>1. /\ lines' \in Seq(Seq(Records \cup {Torn})) /\ ended' \in BOOLEAN
        /\ history' \in Seq(Records) /\ tears' \in 0..MaxTears
    BY <1>1, Zenon DEF LogInv, LogTypeOK
  <2>2. up' \in BOOLEAN
    BY <1>1
  <2>3. QED
    BY <1>1, <2>1, <2>2, NoEntries, Zenon DEF LogTypeOK, IsDict
<1>3. OnlyNoted'
  BY <1>1 DEF LogInv, OnlyNoted, IsDict, Noted
<1>4. ReloadExact'
  BY <1>1 DEF ReloadExact
<1>5. AtStake' = AtStake /\ LegibleLines(lines') = LegibleLines(lines)
  BY <1>1 DEF AtStake
<1>6. Cleaned'
  BY <1>1 DEF LogInv, Cleaned
<1>7. QED
  BY <1>1, <1>2, <1>3, <1>4, <1>5, <1>6 DEF LogInv

\* The next driver reads the file.
LEMMA RestartStep ==
    ASSUME LogInv, Restart
    PROVE  LogInv'
<1>1. memory' = Load(lines) /\ up' = TRUE /\ UNCHANGED <<lines, ended, history, tears>>
  BY DEF Restart
<1>2. Load(lines) \in Seq(Noted) /\ IsDict(Load(lines))
  <2>1. Noted \subseteq Records
    BY NotedRecords DEF LogInv, LogTypeOK
  <2>2. Len(lines) \in Nat /\ DOMAIN lines = 1..Len(lines)
    BY DEF LogInv, LogTypeOK
  <2>3. \A n \in 1..Len(lines) : Legible(lines[n]) => lines[n][1] \in Noted
    BY <2>2 DEF LogInv, OnlyNoted
  <2>4. QED
    BY <2>1, <2>2, <2>3, LoadDict
<1>3. LogTypeOK'
  <2>1. Noted \subseteq Records
    BY NotedRecords DEF LogInv, LogTypeOK
  <2>2. memory' \in Seq(Records)
    BY <1>1, <1>2, <2>1
  <2>3. /\ lines' \in Seq(Seq(Records \cup {Torn})) /\ ended' \in BOOLEAN
        /\ history' \in Seq(Records) /\ tears' \in 0..MaxTears
    BY <1>1, Zenon DEF LogInv, LogTypeOK
  <2>4. IsDict(memory') /\ up' \in BOOLEAN
    BY <1>1, <1>2
  <2>5. QED
    BY <2>2, <2>3, <2>4, Zenon DEF LogTypeOK, IsDict
<1>4. OnlyNoted'
  BY <1>1, <1>2 DEF LogInv, OnlyNoted, IsDict, Noted
<1>5. ReloadExact'
  BY <1>1 DEF ReloadExact
<1>6. AtStake' = AtStake /\ LegibleLines(lines') = LegibleLines(lines)
  BY <1>1 DEF AtStake
<1>7. Cleaned'
  BY <1>1 DEF LogInv, Cleaned
<1>8. QED
  BY <1>1, <1>3, <1>4, <1>5, <1>6, <1>7 DEF LogInv
-----------------------------------------------------------------------------
(***************************************************************************)
(* The theorems.                                                           *)
(***************************************************************************)

\* The invariant is inductive.
THEOREM LogInductive == Spec => []LogInv
<1>1. ASSUME LogInv, [Next]_vars PROVE LogInv'
  <2>1. CASE \E result \in Results : Record(result)
    BY <1>1, <2>1, RecordStep
  <2>2. CASE \E result \in Results : DieWriting(result)
    BY <1>1, <2>2, DieWritingStep
  <2>3. CASE Die
    BY <1>1, <2>3, DieStep
  <2>4. CASE Restart
    BY <1>1, <2>4, RestartStep
  <2>5. CASE UNCHANGED vars
    <3>1. /\ memory' = memory /\ lines' = lines /\ ended' = ended /\ up' = up
          /\ history' = history /\ tears' = tears
      BY <2>5 DEF vars
    <3>2. LogTypeOK' /\ OnlyNoted'
      BY <1>1, <3>1, Zenon DEF LogInv, LogTypeOK, OnlyNoted, IsDict, Noted
    <3>3. Cleaned' /\ ReloadExact'
      BY <1>1, <3>1 DEF LogInv, Cleaned, ReloadExact
    <3>4. AtStake' = AtStake /\ LegibleLines(lines') = LegibleLines(lines)
      BY <3>1 DEF AtStake
    <3>5. QED
      BY <1>1, <3>1, <3>2, <3>3, <3>4 DEF LogInv
  <2>6. QED
    BY <1>1, <2>1, <2>2, <2>3, <2>4, <2>5 DEF Next
<1>2. QED
  BY LogInit, <1>1, PTL DEF Spec

\* The dict has one entry per key, and what is in it and in the file are records.
THEOREM LogTypeCorrect == Spec => []LogTypeOK
<1>1. LogInv => LogTypeOK
  BY DEF LogInv
<1>2. QED
  BY <1>1, LogInductive, PTL

\* Of mappings that hold no bool known_bad refuses only what has failed, for any
\* spellings of any knobs, bools among the failed ones included, however many
\* deaths and however many garbled lines lie between.
THEOREM RefusedHasFailed == Spec => []KnownBadSound
<1>1. ASSUME LogInv PROVE KnownBadSound
  <2> SUFFICES ASSUME NEW s \in Spellings \ Booleans, NEW i \in DOMAIN memory,
                      memory[i].key = StrText[s]
               PROVE  \E j \in DOMAIN history : history[j].key = MakeText[s]
    BY DEF KnownBadSound, KnownBad
  <2>1. memory[i] \in Noted
    BY <1>1 DEF LogInv, OnlyNoted
  <2>2. PICK j \in DOMAIN history : memory[i] = history[j]
    BY <2>1 DEF Noted
  <2>3. PICK u \in Spellings : history[j].key = MakeText[u]
    BY <1>1 DEF LogInv, Cleaned
  <2>4. MakeText[s] = MakeText[u]
    BY <2>2, <2>3, SpellingAssumption
  <2>5. QED
    BY <2>3, <2>4
<1>2. QED
  BY <1>1, LogInductive, PTL

\* Reading back a file in which no write was cut short gives the very dict the
\* driver holds, for a log of any length.
THEOREM CleanReloadExact == Spec => []ReloadExact
<1>1. LogInv => ReloadExact
  BY DEF LogInv
<1>2. QED
  BY <1>1, LogInductive, PTL

\* A death inside a write costs two records at most.
THEOREM TornWritesCostTwo == Spec => []LossBounded
<1>1. ASSUME LogInv PROVE LossBounded
  <2>1. Len(history) + AtStake <= Cardinality(LegibleLines(lines)) + 2 * tears
    BY <1>1 DEF LogInv
  <2>2. AtStake \in Nat /\ Len(history) \in Nat /\ tears \in Nat
    BY <1>1, BoundsAssumption DEF LogInv, LogTypeOK, AtStake
  <2>3. Cardinality(LegibleLines(lines)) \in Nat
    <3>1. /\ lines \in Seq(Seq(Pieces)) /\ (~ended => lines # <<>>)
          /\ \A n \in DOMAIN lines : lines[n] # <<>>
      BY <1>1 DEF LogInv, LogTypeOK, Pieces
    <3>2. Torn \in Pieces
      BY DEF Pieces
    <3>3. QED
      BY <3>1, <3>2, LegibleAfter
  <2>4. Len(history) <= Cardinality(LegibleLines(lines)) + 2 * tears
    BY <2>1, <2>2, <2>3
  <2>5. QED
    BY <2>4 DEF LossBounded, LegibleLines
<1>2. QED
  BY <1>1, LogInductive, PTL
=============================================================================
