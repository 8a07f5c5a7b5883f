-------------------------- MODULE AgentToolProofs --------------------------
(***************************************************************************)
(* Proofs about AgentTool, for any knobs, policy, number of slots, rows    *)
(* and restarts, and for an agent that calls the handlers in any order.    *)
(***************************************************************************)
EXTENDS AgentTool, FiniteSetTheorems, WellFoundedInduction, TLAPS

-----------------------------------------------------------------------------
(***************************************************************************)
(* Sequences as ledgers.                                                   *)
(***************************************************************************)

\* Writing a row leaves the others alone.
LEMMA RowAdded ==
    ASSUME NEW S, NEW s \in Seq(S), NEW r \in S
    PROVE  /\ Append(s, r) \in Seq(S)
           /\ Len(Append(s, r)) = Len(s) + 1
           /\ DOMAIN Append(s, r) = DOMAIN s \cup {Len(s) + 1}
           /\ Len(s) + 1 \notin DOMAIN s
           /\ \A i \in DOMAIN s : Append(s, r)[i] = s[i]
           /\ Append(s, r)[Len(s) + 1] = r
OBVIOUS

\* So does updating one.
LEMMA RowUpdated ==
    ASSUME NEW S, NEW s \in Seq(S), NEW i \in DOMAIN s, NEW r \in S
    PROVE  /\ [s EXCEPT ![i] = r] \in Seq(S)
           /\ Len([s EXCEPT ![i] = r]) = Len(s)
           /\ DOMAIN [s EXCEPT ![i] = r] = DOMAIN s
           /\ \A j \in DOMAIN s :
                 [s EXCEPT ![i] = r][j] = IF j = i THEN r ELSE s[j]
OBVIOUS

\* A set of positions has a last one.
LEMMA LastPosition ==
    ASSUME NEW n \in Nat, NEW P, P \subseteq 1..n, P # {}
    PROVE  \E i \in P : \A j \in P : j <= i
<1> DEFINE back == {n - i : i \in P}
           less == {ss \in Nat \X Nat : ss[1] < ss[2]}
<1>1. back \subseteq Nat /\ back # {}
  <2>1. \A i \in P : i \in Nat /\ i <= n
    OBVIOUS
  <2>2. \A i \in P : n - i \in Nat
    BY <2>1
  <2>3. QED
    BY <2>2
<1>2. PICK b \in back : \A c \in back : ~ (<<c, b>> \in OpToRel(<, Nat))
  BY <1>1, NatLessThanWellFounded, WFMin
<1>3. OpToRel(<, Nat) = less
  BY Zenon DEF OpToRel
<1>4. \A c \in back : b <= c
  <2>1. \A c \in back : ~ (<<c, b>> \in less)
    BY <1>2, <1>3
  <2>2. \A j, k \in Nat : j < k => <<j, k>> \in less
    OBVIOUS
  <2>3. b \in Nat /\ \A c \in back : c \in Nat
    BY <1>1
  <2> HIDE DEF back, less
  <2>4. \A c \in back : ~ (c < b)
    BY <2>1, <2>2, <2>3
  <2>5. \A j, k \in Nat : ~ (j < k) => k <= j
    BY SMT
  <2>6. QED
    BY <2>3, <2>4, <2>5
<1>5. PICK i \in P : b = n - i
  BY <1>2
<1>6. \A j \in P : j <= i
  <2> TAKE j \in P
  <2>1. n - j \in back
    OBVIOUS
  <2>2. b <= n - j
    BY <2>1, <1>4
  <2>3. QED
    BY <2>2, <1>5
<1>7. QED
  BY <1>5, <1>6

-----------------------------------------------------------------------------
(***************************************************************************)
(* The inductive invariant.                                                *)
(***************************************************************************)

\* A task in flight belongs to a row that waits for its outcome: proposed, or
\* built and being promoted.
InFlight ==
    \A id \in DOMAIN tasks :
        rows[id].status = IF tasks[id].promoted THEN "built" ELSE "proposed"

\* No row is of a run that is still to come.
RunsPast == \A i \in DOMAIN rows : rows[i].run <= run

\* What the log can still lose to a last line without newline: the next record,
\* and the one that the line holds.
AtStake == IF ended THEN 0 ELSE 1 + Cardinality(loose)

\* LogMatchesLedger, with what is at stake counted in.
LogKept ==
    /\ logged \subseteq knownBad /\ knownBad \subseteq FailedKeys
    /\ ended => loose = {}
    /\ IsFiniteSet(Missing) /\ IsFiniteSet(loose)
    /\ Cardinality(Missing) + AtStake <= 2 * (run - 1)

\* What was built, or is being built, the policy let through.
SettledLegal ==
    \A i \in DOMAIN rows :
        rows[i].status \in Settled \/ i \in DOMAIN tasks => Legal(rows[i].knobs)

ToolInv ==
    /\ ToolTypeOK
    /\ RunsPast
    /\ InFlight
    /\ LogKept
    /\ SettledLegal
    /\ SeedInherited
    /\ NothingForgotten

-----------------------------------------------------------------------------
(***************************************************************************)
(* The failure log.                                                        *)
(***************************************************************************)

\* A mapping, as proposed and as cleaned, is a key of the log.
LEMMA KeysOfConfigs ==
    ASSUME NEW c \in Configs
    PROVE  Key(c) \in Keys /\ Clean(c) \in Keys
<1>1. \A k \in Knobs : c[k] \in Values \cup {Unset}
  BY DEF Configs
<1>2. \A k \in Knobs : c[k] # Unset =>
         Str[c[k]] \in Texts /\ Coerce[k][c[k]] \in Texts
  BY <1>1, ToolAssumption
<1>3. QED
  BY <1>2 DEF Key, Clean, Written, Keys

\* A set that gains at most the elements of another gains at most their number.
LEMMA Gains ==
    ASSUME NEW M, NEW D, IsFiniteSet(M), IsFiniteSet(D), NEW N, N \subseteq M \cup D
    PROVE  /\ IsFiniteSet(N)
           /\ Cardinality(N) \in Nat /\ Cardinality(M) \in Nat /\ Cardinality(D) \in Nat
           /\ Cardinality(N) <= Cardinality(M) + Cardinality(D)
<1>1. IsFiniteSet(M \cup D)
  BY FS_Union
<1>2. /\ Cardinality(M \cup D) =
             Cardinality(M) + Cardinality(D) - Cardinality(M \cap D)
      /\ IsFiniteSet(M \cap D)
  BY FS_Union, FS_Intersection
<1>3. IsFiniteSet(N) /\ Cardinality(N) <= Cardinality(M \cup D)
  BY <1>1, FS_Subset
<1>4. /\ Cardinality(N) \in Nat /\ Cardinality(M) \in Nat
      /\ Cardinality(D) \in Nat /\ Cardinality(M \cap D) \in Nat
  BY <1>2, <1>3, FS_CardinalityType
<1>5. QED
  BY <1>2, <1>3, <1>4

\* The same for one element.
LEMMA GainsOne ==
    ASSUME NEW M, IsFiniteSet(M), NEW x, NEW N, N \subseteq M \cup {x}
    PROVE  /\ IsFiniteSet(N)
           /\ Cardinality(N) \in Nat /\ Cardinality(M) \in Nat
           /\ Cardinality(N) <= Cardinality(M) + 1
<1>1. IsFiniteSet({x}) /\ Cardinality({x}) = 1
  BY FS_Singleton
<1>2. QED
  BY <1>1, Gains

\* What the type invariant says of the log.
LogTypeOK ==
    /\ knownBad \subseteq Keys /\ logged \subseteq Keys /\ loose \subseteq logged
    /\ ended \in BOOLEAN

\* A step that leaves the log and the failed rows alone.
LEMMA LogUntouched ==
    ASSUME ToolInv, UNCHANGED <<logVars, run>>, FailedKeys' = FailedKeys
    PROVE  LogKept' /\ LogTypeOK'
BY DEF ToolInv, ToolTypeOK, LogKept, LogTypeOK, AtStake, Missing, logVars

\* A record written to its end.
LEMMA LogRecorded ==
    ASSUME ToolInv, NEW x \in Keys, RecordFailure(x),
           FailedKeys' = FailedKeys \cup {x}, run' = run
    PROVE  LogKept' /\ LogTypeOK'
<1>1. /\ knownBad' = knownBad \cup {x}
      /\ logged' = IF ended THEN logged \cup {x} ELSE logged \ loose
      /\ ended' = TRUE /\ loose' = {}
  BY DEF RecordFailure
<1>2. LogTypeOK'
  BY <1>1 DEF ToolInv, ToolTypeOK, LogTypeOK
<1>3. logged' \subseteq knownBad' /\ knownBad' \subseteq FailedKeys'
  BY <1>1 DEF ToolInv, LogKept
<1>4. IsFiniteSet(loose') /\ AtStake' = 0
  BY <1>1, FS_EmptySet DEF AtStake
<1>5. /\ IsFiniteSet(Missing) /\ IsFiniteSet(loose) /\ ended \in BOOLEAN
      /\ Cardinality(Missing) + AtStake <= 2 * (run - 1) /\ run \in Nat
  BY ToolAssumption DEF ToolInv, ToolTypeOK, LogKept
<1>6. CASE ended
  <2>1. Missing' \subseteq Missing \cup {}
    BY <1>1, <1>6 DEF Missing
  <2>2. AtStake = 0
    BY <1>6 DEF AtStake
  <2>3. /\ IsFiniteSet(Missing') /\ Cardinality(Missing') \in Nat
        /\ Cardinality(Missing) \in Nat /\ Cardinality(Missing') <= Cardinality(Missing)
    BY <1>5, <2>1, Gains, FS_EmptySet
  <2>4. Cardinality(Missing)' + AtStake' <= 2 * (run' - 1)
    BY <1>4, <1>5, <2>2, <2>3
  <2>5. QED
    BY <1>1, <1>2, <1>3, <1>4, <2>3, <2>4 DEF LogKept
<1>7. CASE ~ ended
  <2>1. Missing' \subseteq Missing \cup (loose \cup {x})
    BY <1>1, <1>7 DEF Missing
  <2>2. AtStake = 1 + Cardinality(loose)
    BY <1>7 DEF AtStake
  <2>3. /\ IsFiniteSet(loose \cup {x}) /\ Cardinality(loose) \in Nat
        /\ Cardinality(loose \cup {x}) \in Nat
        /\ Cardinality(loose \cup {x}) <= Cardinality(loose) + 1
    BY <1>5, GainsOne
  <2>4. /\ IsFiniteSet(Missing') /\ Cardinality(Missing') \in Nat
        /\ Cardinality(Missing) \in Nat
        /\ Cardinality(Missing') <= Cardinality(Missing) + Cardinality(loose \cup {x})
    BY <1>5, <2>1, <2>3, Gains
  <2>5. Cardinality(Missing)' + AtStake' <= 2 * (run' - 1)
    BY <1>4, <1>5, <2>2, <2>3, <2>4
  <2>6. QED
    BY <1>1, <1>2, <1>3, <1>4, <2>4, <2>5 DEF LogKept
<1>8. QED
  BY <1>5, <1>6, <1>7

\* The driver dies and reads the log again.  The record of the row it was
\* settling is written, or cut short, or not begun.
LEMMA LogAgain ==
    ASSUME ToolInv, Again, NEW x \in Keys,
           \/ UNCHANGED <<logged, ended, loose>>
           \/ CutShort(x) /\ x \in FailedKeys',
           FailedKeys \subseteq FailedKeys', FailedKeys' \subseteq FailedKeys \cup {x}
    PROVE  LogKept' /\ LogTypeOK'
<1>0. IsFiniteSet(Missing) /\ IsFiniteSet(loose)
  BY DEF ToolInv, LogKept
<1>1. /\ run \in Nat /\ run' = run + 1 /\ knownBad' = logged' /\ ended \in BOOLEAN
      /\ ended => loose = {}
      /\ Cardinality(Missing) + AtStake <= 2 * (run - 1)
  BY ToolAssumption DEF ToolInv, ToolTypeOK, LogKept, Again
<1>2. logged \subseteq FailedKeys /\ logged \subseteq Keys /\ loose \subseteq logged
  BY DEF ToolInv, ToolTypeOK, LogKept
<1>3. Cardinality(Missing) \in Nat /\ Cardinality(loose) \in Nat
  BY <1>0, FS_CardinalityType
<1>4. CASE UNCHANGED <<logged, ended, loose>>
  <2>1. Missing' \subseteq Missing \cup {x}
    BY <1>4 DEF Missing
  <2>2. /\ IsFiniteSet(Missing') /\ Cardinality(Missing') \in Nat
        /\ Cardinality(Missing') <= Cardinality(Missing) + 1
    BY <1>0, <2>1, GainsOne
  <2>3. AtStake' = AtStake /\ AtStake \in Nat
    BY <1>1, <1>3, <1>4 DEF AtStake
  <2>4. Cardinality(Missing)' + AtStake' <= 2 * (run' - 1)
    BY <1>1, <1>3, <2>2, <2>3
  <2>5. LogTypeOK'
    BY <1>1, <1>2, <1>4 DEF LogTypeOK
  <2>6. QED
    BY <1>0, <1>1, <1>2, <1>4, <2>2, <2>4, <2>5 DEF LogKept
<1>5. CASE ended /\ CutShort(x) /\ x \in FailedKeys'
  <2>1. /\ ended' = FALSE
        /\ \/ logged' = logged /\ loose' = loose
           \/ logged' = logged \cup {x} /\ loose' = {x} \ logged
    BY <1>5 DEF CutShort
  <2>2. AtStake = 0 /\ AtStake' = 1 + Cardinality(loose')
    BY <1>5, <2>1 DEF AtStake
  <2>3. logged' \subseteq FailedKeys' /\ LogTypeOK'
    BY <1>1, <1>2, <1>5, <2>1 DEF LogTypeOK
  <2>4. CASE logged' = logged /\ loose' = loose
    <3>1. Missing' \subseteq Missing \cup {x}
      BY <2>4 DEF Missing
    <3>2. /\ IsFiniteSet(Missing') /\ Cardinality(Missing') \in Nat
          /\ Cardinality(Missing') <= Cardinality(Missing) + 1
      BY <1>0, <3>1, GainsOne
    <3>3. Cardinality(loose') = 0
      <4>1. loose' = {}
        BY <1>1, <1>5, <2>4
      <4>2. QED
        BY <4>1, FS_EmptySet
    <3>4. Cardinality(Missing)' + AtStake' <= 2 * (run' - 1)
      BY <1>1, <1>3, <2>2, <3>2, <3>3
    <3>5. QED
      BY <1>0, <1>1, <2>1, <2>3, <2>4, <3>2, <3>4 DEF LogKept
  <2>5. CASE logged' = logged \cup {x} /\ loose' = {x} \ logged
    <3>1. Missing' \subseteq Missing \cup {} /\ loose' \subseteq {} \cup {x}
      BY <2>5 DEF Missing
    <3>2. /\ IsFiniteSet(Missing') /\ Cardinality(Missing') \in Nat
          /\ Cardinality(Missing') <= Cardinality(Missing)
      BY <1>0, <3>1, Gains, FS_EmptySet
    <3>3. /\ IsFiniteSet(loose') /\ Cardinality(loose') \in Nat
          /\ Cardinality(loose') <= 1
      BY <3>1, GainsOne, FS_EmptySet
    <3>4. Cardinality(Missing)' + AtStake' <= 2 * (run' - 1)
      BY <1>1, <1>3, <2>2, <3>2, <3>3
    <3>5. QED
      BY <1>1, <2>1, <2>3, <3>2, <3>3, <3>4 DEF LogKept
  <2>6. QED
    BY <2>1, <2>4, <2>5
<1>6. CASE ~ ended /\ CutShort(x) /\ x \in FailedKeys'
  <2>1. ended' = FALSE /\ logged' = logged \ loose /\ loose' = {}
    BY <1>6 DEF CutShort
  <2>2. /\ AtStake = 1 + Cardinality(loose) /\ AtStake' = 1
        /\ IsFiniteSet(loose')
    BY <1>6, <2>1, FS_EmptySet DEF AtStake
  <2>3. logged' \subseteq FailedKeys' /\ LogTypeOK'
    BY <1>1, <1>2, <2>1 DEF LogTypeOK
  <2>4. Missing' \subseteq Missing \cup (loose \cup {x})
    BY <2>1 DEF Missing
  <2>5. /\ IsFiniteSet(loose \cup {x}) /\ Cardinality(loose \cup {x}) \in Nat
        /\ Cardinality(loose \cup {x}) <= Cardinality(loose) + 1
    BY <1>0, GainsOne
  <2>6. /\ IsFiniteSet(Missing') /\ Cardinality(Missing') \in Nat
        /\ Cardinality(Missing') <= Cardinality(Missing) + Cardinality(loose \cup {x})
    BY <1>0, <2>4, <2>5, Gains
  <2>7. Cardinality(Missing)' + AtStake' <= 2 * (run' - 1)
    BY <1>1, <1>3, <2>2, <2>5, <2>6
  <2>8. QED
    BY <1>1, <2>1, <2>2, <2>3, <2>6, <2>7 DEF LogKept
<1>7. QED
  BY <1>1, <1>4, <1>5, <1>6

\* Recording an outcome gives a row again, with the same knobs.
LEMMA RecordedRow ==
    ASSUME ToolTypeOK, NEW row \in RowType, NEW results \in Results
    PROVE  /\ Recorded(row, results) \in RowType
           /\ Recorded(row, results).knobs = row.knobs
           /\ Recorded(row, results).run = row.run
           /\ Recorded(row, results).status \in {"built", "failed", "rejected"}
           /\ Recorded(row, results).status = "failed" <=> Fails(results)
<1>1. PICK p \in BOOLEAN : results \in Outcomes(quick, p)
  BY DEF Results
<1>2. CASE results = <<>>
  BY <1>2 DEF Recorded, RowType, Settled, Fails
<1>3. ASSUME NEW s \in {"gate", "finish"}, NEW b \in BOOLEAN,
             results = <<[stage |-> s, success |-> b]>>
      PROVE  /\ Len(results) = 1 /\ Last(results).stage \in {"gate", "finish"}
             /\ Fails(results) <=> ~ Last(results).success
             /\ Last(results).success \in BOOLEAN
  BY <1>3 DEF Last, Fails
<1>4. ASSUME NEW b \in BOOLEAN,
             results = <<[stage |-> "gate", success |-> TRUE],
                         [stage |-> "finish", success |-> b]>>
      PROVE  /\ Len(results) = 2 /\ Last(results).stage \in {"gate", "finish"}
             /\ Fails(results) <=> ~ Last(results).success
             /\ Last(results).success \in BOOLEAN
  BY <1>4 DEF Last, Fails
<1>5. results # <<>> =>
        /\ Len(results) \in 0..2
        /\ Last(results).stage \in {"gate", "finish"}
        /\ Fails(results) <=> ~ Last(results).success
        /\ Last(results).success \in BOOLEAN
  <2> HAVE results # <<>>
  <2>1. \/ \E s \in {"gate", "finish"}, b \in BOOLEAN :
             results = <<[stage |-> s, success |-> b]>>
        \/ \E b \in BOOLEAN :
             results = <<[stage |-> "gate", success |-> TRUE],
                         [stage |-> "finish", success |-> b]>>
    BY <1>1 DEF Outcomes
  <2>2. QED
    BY <2>1, <1>3, <1>4
<1>6. CASE results # <<>>
  BY <1>5, <1>6 DEF Recorded, RowType, Settled
<1>7. QED
  BY <1>2, <1>6

\* A refinement is a configuration that sets what its parent sets.
LEMMA MergedConfig ==
    ASSUME ToolTypeOK, NEW delta \in Deltas, NEW parent \in 0..MaxRows
    PROVE  /\ Merged(delta, parent) \in Configs
           /\ parent \in DOMAIN rows =>
                 \A k \in Knobs : rows[parent].knobs[k] # Unset =>
                                      Merged(delta, parent)[k] # Unset
<1>1. delta \in Configs
  BY ToolAssumption
<1>2. CASE parent \in DOMAIN rows
  <2>0. rows[parent] \in RowType
    BY <1>2 DEF ToolTypeOK
  <2>1. rows[parent].knobs \in Configs
    BY <2>0 DEF RowType
  <2>2. Merged(delta, parent) =
           [k \in Knobs |-> IF delta[k] # Unset THEN delta[k]
                                               ELSE rows[parent].knobs[k]]
    BY <1>2 DEF Merged
  <2>3. ASSUME NEW k \in Knobs
        PROVE  /\ delta[k] \in Values \cup {Unset}
               /\ rows[parent].knobs[k] \in Values \cup {Unset}
    BY <1>1, <2>1 DEF Configs
  <2>4. Merged(delta, parent) \in Configs
    BY <2>2, <2>3 DEF Configs
  <2>5. ASSUME NEW k \in Knobs, rows[parent].knobs[k] # Unset
        PROVE  Merged(delta, parent)[k] # Unset
    BY <2>2, <2>5
  <2>6. QED
    BY <2>4, <2>5
<1>3. CASE parent \notin DOMAIN rows
  BY <1>1, <1>3 DEF Merged
<1>4. QED
  BY <1>2, <1>3

\* A row that is not failed, added to the ledger while the log stays, leaves the
\* log part of the invariant be.
LEMMA AddRow ==
    ASSUME ToolInv, NEW c \in Configs, NEW st \in {"proposed", "rejected"},
           Len(rows) < MaxRows,
           rows' = Append(rows, Row(c, st)),
           UNCHANGED <<logVars, run>>
    PROVE  /\ rows' \in Seq(RowType) /\ Len(rows') <= MaxRows
           /\ DOMAIN rows' = DOMAIN rows \cup {Len(rows) + 1}
           /\ Len(rows) + 1 \notin DOMAIN rows
           /\ \A i \in DOMAIN rows : rows'[i] = rows[i]
           /\ rows'[Len(rows) + 1] = Row(c, st)
           /\ LogKept' /\ LogTypeOK' /\ RunsPast'
<1>1. Row(c, st) \in RowType
  BY DEF ToolInv, ToolTypeOK, Row, RowType
<1>2. /\ rows' \in Seq(RowType) /\ Len(rows') <= MaxRows
      /\ DOMAIN rows' = DOMAIN rows \cup {Len(rows) + 1}
      /\ Len(rows) + 1 \notin DOMAIN rows
      /\ \A i \in DOMAIN rows : rows'[i] = rows[i]
      /\ rows'[Len(rows) + 1] = Row(c, st)
  <2>1. rows \in Seq(RowType) /\ MaxRows \in Nat /\ Len(rows) \in Nat
    BY ToolAssumption DEF ToolInv, ToolTypeOK
  <2>2. QED
    BY <2>1, <1>1, RowAdded
<1>3. FailedKeys' = FailedKeys
  <2>1. Row(c, st).status # "failed"
    BY DEF Row
  <2>2. \A i : (i \in DOMAIN rows' /\ rows'[i].status = "failed") <=>
              (i \in DOMAIN rows /\ rows[i].status = "failed")
    BY <1>2, <2>1
  <2>3. QED
    BY <1>2, <2>2 DEF FailedKeys
<1>4. LogKept' /\ LogTypeOK'
  BY <1>3, LogUntouched
<1>5. RunsPast'
  BY <1>2 DEF ToolInv, ToolTypeOK, RunsPast, Row
<1>6. QED
  BY <1>2, <1>4, <1>5

LEMMA RefuseStep ==
    ASSUME ToolInv, NEW delta \in Deltas, NEW parent \in 0..MaxRows,
           Refuse(delta, parent)
    PROVE  ToolInv'
<1> DEFINE c == Merged(delta, parent)
           id == Len(rows) + 1
<1>1. c \in Configs
  BY MergedConfig DEF ToolInv
<1>2. /\ Len(rows) < MaxRows /\ rows' = Append(rows, Row(c, "rejected"))
      /\ UNCHANGED <<logVars, tasks, run, quick>>
  BY DEF Refuse
<1> HIDE DEF c
<1>4. /\ rows' \in Seq(RowType) /\ Len(rows') <= MaxRows
      /\ DOMAIN rows' = DOMAIN rows \cup {id} /\ id \notin DOMAIN rows
      /\ \A i \in DOMAIN rows : rows'[i] = rows[i]
      /\ rows'[id] = Row(c, "rejected")
      /\ LogKept' /\ LogTypeOK' /\ RunsPast'
  BY <1>1, <1>2, AddRow
<1> HIDE DEF id
<1>5. ToolTypeOK'
  <2>1. Results' = Results
    BY <1>2 DEF Results, Outcomes
  <2>2. QED
    BY <1>2, <1>4, <2>1 DEF ToolInv, ToolTypeOK, LogTypeOK, TaskType
<1>6. InFlight'
  BY <1>2, <1>4 DEF ToolInv, ToolTypeOK, InFlight
<1>7. SeedInherited'
  BY <1>2, <1>4 DEF ToolInv, ToolTypeOK, SeedInherited
<1>8. NothingForgotten'
  BY <1>2, <1>4 DEF ToolInv, ToolTypeOK, NothingForgotten, Row
<1>9. SettledLegal'
  BY <1>2, <1>4 DEF ToolInv, ToolTypeOK, SettledLegal, Settled, Row
<1>10. QED
  BY <1>4, <1>5, <1>6, <1>7, <1>8, <1>9 DEF ToolInv

LEMMA SubmitStep ==
    ASSUME ToolInv, NEW delta \in Deltas, NEW parent \in 0..MaxRows,
           Submit(delta, parent)
    PROVE  ToolInv'
<1> DEFINE c == Merged(delta, parent)
           id == Len(rows) + 1
<1>1. /\ c \in Configs
      /\ parent \in DOMAIN rows =>
            \A k \in Knobs : rows[parent].knobs[k] # Unset => c[k] # Unset
  BY MergedConfig DEF ToolInv
<1>2. /\ Len(rows) < MaxRows /\ rows' = Append(rows, Row(c, "proposed"))
      /\ tasks' = [i \in DOMAIN tasks \cup {id} |->
                      IF i = id THEN Task(SeedOf(parent), FALSE) ELSE tasks[i]]
      /\ UNCHANGED <<logVars, run, quick>>
  BY DEF Submit
<1>3. Legal(c)
  BY DEF Submit, Refused
<1>4. /\ SeedOf(parent) \in 0..MaxRows
      /\ SeedOf(parent) # 0 => /\ SeedOf(parent) = parent
                               /\ parent \in DOMAIN rows
  BY ToolAssumption DEF SeedOf
<1> HIDE DEF c
<1>5. /\ rows' \in Seq(RowType) /\ Len(rows') <= MaxRows
      /\ DOMAIN rows' = DOMAIN rows \cup {id} /\ id \notin DOMAIN rows
      /\ \A i \in DOMAIN rows : rows'[i] = rows[i]
      /\ rows'[id] = Row(c, "proposed")
      /\ LogKept' /\ LogTypeOK' /\ RunsPast'
  BY <1>1, <1>2, AddRow
<1> HIDE DEF id
<1>6. /\ DOMAIN tasks' = DOMAIN tasks \cup {id}
      /\ \A i \in DOMAIN tasks : tasks'[i] = tasks[i]
      /\ tasks'[id] = Task(SeedOf(parent), FALSE)
      /\ DOMAIN tasks \subseteq DOMAIN rows
  BY <1>2, <1>5 DEF ToolInv, ToolTypeOK
<1>7. ToolTypeOK'
  <2>1. Results' = Results /\ <<>> \in Results
    BY <1>2 DEF Results, Outcomes
  <2>2. Task(SeedOf(parent), FALSE) \in TaskType
    BY <1>4, <2>1 DEF Task, TaskType
  <2>3. TaskType' = TaskType
    BY <2>1 DEF TaskType
  <2>4. tasks' \in [DOMAIN tasks' -> TaskType]
    BY <1>2, <1>6, <2>2 DEF ToolInv, ToolTypeOK
  <2>5. DOMAIN tasks' \subseteq DOMAIN rows'
    BY <1>5, <1>6
  <2>6. QED
    BY <1>2, <1>5, <2>3, <2>4, <2>5 DEF ToolInv, ToolTypeOK, LogTypeOK
<1>8. InFlight'
  BY <1>5, <1>6 DEF ToolInv, InFlight, Row, Task
<1>9. SeedInherited'
  BY <1>1, <1>4, <1>5, <1>6 DEF ToolInv, SeedInherited, Row, Task
<1>10. NothingForgotten'
  BY <1>2, <1>5, <1>6 DEF ToolInv, NothingForgotten, Row
<1>11. SettledLegal'
  BY <1>3, <1>5, <1>6 DEF ToolInv, SettledLegal, Settled, Row
<1>12. QED
  BY <1>5, <1>7, <1>8, <1>9, <1>10, <1>11 DEF ToolInv

\* A promotion of a candidate of this run that was built and is at rest.
LEMMA PromoteStep ==
    ASSUME ToolInv, NEW id \in DOMAIN rows \ DOMAIN tasks, Promote(id),
           rows[id].status = "built", rows[id].run = run
    PROVE  ToolInv'
<1>1. /\ tasks' = [i \in DOMAIN tasks \cup {id} |->
                      IF i = id THEN Task(0, TRUE) ELSE tasks[i]]
      /\ UNCHANGED <<rows, logVars, run, quick>>
  BY DEF Promote
<1>2. /\ DOMAIN tasks' = DOMAIN tasks \cup {id}
      /\ \A i \in DOMAIN tasks : tasks'[i] = tasks[i]
      /\ tasks'[id] = Task(0, TRUE)
  BY <1>1
<1>3. ToolTypeOK'
  <2>1. Results' = Results /\ <<>> \in Results
    BY <1>1 DEF Results, Outcomes
  <2>2. Task(0, TRUE) \in TaskType
    BY <2>1, ToolAssumption DEF Task, TaskType
  <2>3. TaskType' = TaskType
    BY <2>1 DEF TaskType
  <2>4. tasks' \in [DOMAIN tasks' -> TaskType]
    BY <1>1, <1>2, <2>2 DEF ToolInv, ToolTypeOK
  <2>5. QED
    BY <1>1, <1>2, <2>3, <2>4 DEF ToolInv, ToolTypeOK, logVars
<1>4. InFlight'
  BY <1>1, <1>2 DEF ToolInv, InFlight, Task
<1>5. LogKept' /\ RunsPast' /\ SettledLegal'
  <2>1. FailedKeys' = FailedKeys
    BY <1>1 DEF FailedKeys
  <2>2. LogKept'
    BY <1>1, <2>1, LogUntouched
  <2>3. QED
    BY <1>1, <1>2, <2>2 DEF ToolInv, RunsPast, SettledLegal, Settled
<1>6. SeedInherited'
  BY <1>1, <1>2 DEF ToolInv, SeedInherited, Task
<1>7. NothingForgotten'
  BY <1>1, <1>2 DEF ToolInv, NothingForgotten
<1>8. QED
  BY <1>3, <1>4, <1>5, <1>6, <1>7 DEF ToolInv

LEMMA PlaceStep ==
    ASSUME ToolInv, NEW id \in DOMAIN tasks, Place(id)
    PROVE  ToolInv'
<1>1. /\ tasks' = [tasks EXCEPT ![id].state = "running"]
      /\ UNCHANGED <<rows, logVars, run, quick>>
  BY DEF Place
<1>2. tasks \in [DOMAIN tasks -> TaskType] /\ tasks[id] \in TaskType
  BY DEF ToolInv, ToolTypeOK
<1>3. /\ DOMAIN tasks' = DOMAIN tasks
      /\ \A i \in DOMAIN tasks : /\ tasks'[i] \in TaskType
                                 /\ tasks'[i].seed = tasks[i].seed
                                 /\ tasks'[i].promoted = tasks[i].promoted
  BY <1>1, <1>2 DEF TaskType
<1>4. ToolTypeOK'
  <2>1. TaskType' = TaskType
    BY <1>1 DEF TaskType, Results, Outcomes
  <2>2. tasks' \in [DOMAIN tasks' -> TaskType]
    BY <1>1, <1>3
  <2>3. QED
    BY <1>1, <1>3, <2>1, <2>2 DEF ToolInv, ToolTypeOK, logVars
<1>5. InFlight'
  BY <1>1, <1>3 DEF ToolInv, InFlight
<1>6. LogKept' /\ RunsPast' /\ SettledLegal'
  <2>1. FailedKeys' = FailedKeys
    BY <1>1 DEF FailedKeys
  <2>2. LogKept'
    BY <1>1, <2>1, LogUntouched
  <2>3. QED
    BY <1>1, <1>3, <2>2 DEF ToolInv, RunsPast, SettledLegal
<1>7. SeedInherited'
  BY <1>1, <1>3 DEF ToolInv, SeedInherited
<1>8. NothingForgotten'
  BY <1>1, <1>3 DEF ToolInv, NothingForgotten
<1>9. QED
  BY <1>4, <1>5, <1>6, <1>7, <1>8 DEF ToolInv

LEMMA FinishStep ==
    ASSUME ToolInv, NEW id \in DOMAIN tasks, Finish(id)
    PROVE  ToolInv'
<1>1. PICK results \in Outcomes(quick, tasks[id].promoted) :
         /\ tasks' = [tasks EXCEPT ![id].state = "done", ![id].results = results]
         /\ rows' = [rows EXCEPT ![id].spent = @ + Len(results)]
         /\ UNCHANGED <<logVars, run, quick>>
  BY DEF Finish
<1>2. /\ tasks \in [DOMAIN tasks -> TaskType] /\ tasks[id] \in TaskType
      /\ rows \in Seq(RowType) /\ id \in DOMAIN rows /\ rows[id] \in RowType
  BY DEF ToolInv, ToolTypeOK
<1>3. results \in Results /\ Len(results) \in Nat
  <2>1. tasks[id].promoted \in BOOLEAN
    BY <1>2 DEF TaskType
  <2>2. QED
    BY <2>1 DEF Results, Outcomes
<1>4. /\ DOMAIN tasks' = DOMAIN tasks
      /\ \A i \in DOMAIN tasks : /\ tasks'[i] \in TaskType
                                 /\ tasks'[i].seed = tasks[i].seed
                                 /\ tasks'[i].promoted = tasks[i].promoted
  BY <1>1, <1>2, <1>3 DEF TaskType
<1> DEFINE r == [rows[id] EXCEPT !.spent = @ + Len(results)]
<1>5. /\ r \in RowType /\ r.knobs = rows[id].knobs
      /\ r.status = rows[id].status /\ r.run = rows[id].run
  <2>1. rows[id].spent \in Nat /\ rows[id].spent + Len(results) \in Nat
    BY <1>2, <1>3 DEF RowType
  <2>2. QED
    BY <1>2, <2>1 DEF RowType
<1>6. rows' = [rows EXCEPT ![id] = r]
  BY <1>1
<1> HIDE DEF r
<1>7. /\ rows' \in Seq(RowType) /\ Len(rows') = Len(rows)
      /\ DOMAIN rows' = DOMAIN rows
      /\ \A i \in DOMAIN rows : /\ rows'[i].knobs = rows[i].knobs
                                /\ rows'[i].status = rows[i].status
                                /\ rows'[i].run = rows[i].run
  BY <1>2, <1>5, <1>6, RowUpdated
<1>8. ToolTypeOK'
  <2>1. TaskType' = TaskType
    BY <1>1 DEF TaskType, Results, Outcomes
  <2>2. tasks' \in [DOMAIN tasks' -> TaskType]
    BY <1>1, <1>4
  <2>3. QED
    BY <1>1, <1>4, <1>7, <2>1, <2>2 DEF ToolInv, ToolTypeOK, logVars
<1>9. InFlight'
  BY <1>4, <1>7 DEF ToolInv, ToolTypeOK, InFlight
<1>10. LogKept' /\ RunsPast' /\ SettledLegal'
  <2>1. FailedKeys' = FailedKeys
    BY <1>7 DEF FailedKeys
  <2>2. LogKept'
    BY <1>1, <2>1, LogUntouched
  <2>3. QED
    BY <1>1, <1>4, <1>7, <2>2 DEF ToolInv, RunsPast, SettledLegal
<1>11. SeedInherited'
  <2> SUFFICES ASSUME NEW i \in DOMAIN tasks', tasks'[i].seed # 0
               PROVE  /\ tasks'[i].seed \in DOMAIN rows'
                      /\ \A k \in Knobs :
                            rows'[tasks'[i].seed].knobs[k] # Unset =>
                               rows'[i].knobs[k] # Unset
    BY DEF SeedInherited
  <2>1. /\ i \in DOMAIN tasks /\ i \in DOMAIN rows
        /\ tasks'[i].seed = tasks[i].seed
    BY <1>4 DEF ToolInv, ToolTypeOK
  <2>2. /\ tasks[i].seed \in DOMAIN rows
        /\ \A k \in Knobs : rows[tasks[i].seed].knobs[k] # Unset =>
                               rows[i].knobs[k] # Unset
    BY <2>1 DEF ToolInv, SeedInherited
  <2>3. QED
    BY <1>7, <2>1, <2>2
<1>12. NothingForgotten'
  BY <1>1, <1>4, <1>7 DEF ToolInv, ToolTypeOK, NothingForgotten
<1>13. QED
  BY <1>8, <1>9, <1>10, <1>11, <1>12 DEF ToolInv

\* How one row that fails changes the set of failed keys.
LEMMA FailedKeysAfter ==
    ASSUME NEW id \in DOMAIN rows, rows[id].status # "failed",
           DOMAIN rows' = DOMAIN rows,
           \A i \in DOMAIN rows :
              /\ rows'[i].knobs = rows[i].knobs
              /\ i # id => rows'[i].status = rows[i].status
    PROVE  /\ rows'[id].status = "failed" =>
                 FailedKeys' = FailedKeys \cup {Clean(rows[id].knobs)}
           /\ rows'[id].status # "failed" => FailedKeys' = FailedKeys
<1>1. \A x : x \in FailedKeys' <=>
         \E i \in DOMAIN rows : rows'[i].status = "failed" /\ x = Clean(rows[i].knobs)
  BY DEF FailedKeys
<1>2. \A x : x \in FailedKeys <=>
         \E i \in DOMAIN rows : rows[i].status = "failed" /\ x = Clean(rows[i].knobs)
  BY DEF FailedKeys
<1>3. CASE rows'[id].status = "failed"
  <2>1. \A x : x \in FailedKeys' <=> x \in FailedKeys \/ x = Clean(rows[id].knobs)
    BY <1>1, <1>2, <1>3
  <2>2. QED
    BY <1>3, <2>1
<1>4. CASE rows'[id].status # "failed"
  <2>1. \A x : x \in FailedKeys' <=> x \in FailedKeys
    BY <1>1, <1>2, <1>4
  <2>2. QED
    BY <1>4, <2>1
<1>5. QED
  BY <1>3, <1>4

\* Recording an outcome in the ledger: the row's key is a failed key now if a
\* stage failed, and no failed row is lost, because a row with a task in
\* flight is not a failed one.
LEMMA SettleRow ==
    ASSUME ToolInv, NEW id \in DOMAIN tasks,
           rows' = [rows EXCEPT ![id] = Recorded(@, tasks[id].results)]
    PROVE  /\ rows' \in Seq(RowType) /\ Len(rows') = Len(rows)
           /\ DOMAIN rows' = DOMAIN rows /\ id \in DOMAIN rows
           /\ rows'[id].status # "proposed"
           /\ \A i \in DOMAIN rows : /\ rows'[i].knobs = rows[i].knobs
                                     /\ rows'[i].run = rows[i].run
                                     /\ i # id => rows'[i] = rows[i]
           /\ Clean(rows[id].knobs) \in Keys /\ Legal(rows[id].knobs)
           /\ FailedKeys' = FailedKeys \cup
                  (IF Fails(tasks[id].results) THEN {Clean(rows[id].knobs)} ELSE {})
<1> DEFINE r == Recorded(rows[id], tasks[id].results)
<1>1. /\ rows \in Seq(RowType) /\ id \in DOMAIN rows /\ rows[id] \in RowType
      /\ tasks[id] \in TaskType /\ ToolTypeOK
  BY DEF ToolInv, ToolTypeOK
<1>2. tasks[id].results \in Results /\ rows[id].knobs \in Configs
  BY <1>1 DEF TaskType, RowType
<1>3. /\ r \in RowType /\ r.knobs = rows[id].knobs /\ r.run = rows[id].run
      /\ r.status \in {"built", "failed", "rejected"}
      /\ r.status = "failed" <=> Fails(tasks[id].results)
  BY <1>1, <1>2, RecordedRow
<1>4. rows' = [rows EXCEPT ![id] = r]
  OBVIOUS
<1> HIDE DEF r
<1>5. /\ rows' \in Seq(RowType) /\ Len(rows') = Len(rows)
      /\ DOMAIN rows' = DOMAIN rows
      /\ \A i \in DOMAIN rows : rows'[i] = IF i = id THEN r ELSE rows[i]
  BY <1>1, <1>3, <1>4, RowUpdated
<1>6. rows[id].status # "failed"
  BY DEF ToolInv, InFlight
<1>7. rows'[id].status = "failed" <=> Fails(tasks[id].results)
  BY <1>1, <1>3, <1>5
<1>8. \A i \in DOMAIN rows : /\ rows'[i].knobs = rows[i].knobs
                            /\ rows'[i].run = rows[i].run
                            /\ i # id => rows'[i] = rows[i]
  BY <1>3, <1>5
<1>9. FailedKeys' = FailedKeys \cup
         (IF Fails(tasks[id].results) THEN {Clean(rows[id].knobs)} ELSE {})
  <2>1. DOMAIN rows' = DOMAIN rows
    BY <1>5
  <2>2. \A i \in DOMAIN rows :
           /\ rows'[i].knobs = rows[i].knobs
           /\ i # id => rows'[i].status = rows[i].status
    BY <1>3, <1>5
  <2>3. /\ rows'[id].status = "failed" =>
              FailedKeys' = FailedKeys \cup {Clean(rows[id].knobs)}
        /\ rows'[id].status # "failed" => FailedKeys' = FailedKeys
    BY <1>1, <1>6, <2>1, <2>2, FailedKeysAfter, Zenon
  <2>4. QED
    BY <1>7, <2>3
<1>10. QED
  <2>1. Clean(rows[id].knobs) \in Keys
    BY <1>2, KeysOfConfigs
  <2>2. Legal(rows[id].knobs)
    BY <1>1 DEF ToolInv, SettledLegal
  <2>3. QED
    BY <1>1, <1>3, <1>5, <1>8, <1>9, <2>1, <2>2

LEMMA CollectStep ==
    ASSUME ToolInv, NEW id \in DOMAIN tasks, Collect(id)
    PROVE  ToolInv'
<1>1. /\ tasks' = Drop(id)
      /\ rows' = [rows EXCEPT ![id] = Recorded(@, tasks[id].results)]
      /\ IF Fails(tasks[id].results)
         THEN RecordFailure(Clean(rows[id].knobs)) ELSE UNCHANGED logVars
      /\ UNCHANGED <<run, quick>>
  BY DEF Collect
<1>2. /\ rows' \in Seq(RowType) /\ Len(rows') = Len(rows)
      /\ DOMAIN rows' = DOMAIN rows /\ id \in DOMAIN rows
      /\ rows'[id].status # "proposed"
      /\ \A i \in DOMAIN rows : /\ rows'[i].knobs = rows[i].knobs
                                /\ rows'[i].run = rows[i].run
                                /\ i # id => rows'[i] = rows[i]
      /\ Clean(rows[id].knobs) \in Keys /\ Legal(rows[id].knobs)
      /\ FailedKeys' = FailedKeys \cup
             (IF Fails(tasks[id].results) THEN {Clean(rows[id].knobs)} ELSE {})
  BY <1>1, SettleRow
<1>3. /\ DOMAIN tasks' = DOMAIN tasks \ {id}
      /\ \A i \in DOMAIN tasks' : tasks'[i] = tasks[i]
  BY <1>1 DEF Drop
<1> DEFINE x == Clean(rows[id].knobs)
<1>4. LogKept' /\ LogTypeOK'
  <2> HIDE DEF x
  <2>1. CASE Fails(tasks[id].results)
    <3>1. RecordFailure(x) /\ FailedKeys' = FailedKeys \cup {x} /\ x \in Keys
      BY <1>1, <1>2, <2>1 DEF x
    <3>2. QED
      BY <1>1, <3>1, LogRecorded
  <2>2. CASE ~ Fails(tasks[id].results)
    <3>1. UNCHANGED logVars /\ FailedKeys' = FailedKeys
      BY <1>1, <1>2, <2>2
    <3>2. QED
      BY <1>1, <3>1, LogUntouched
  <2>3. QED
    BY <2>1, <2>2
<1>5. ToolTypeOK'
  <2>1. TaskType' = TaskType
    BY <1>1 DEF TaskType, Results, Outcomes
  <2>2. tasks' \in [DOMAIN tasks' -> TaskType]
    BY <1>1, <1>3 DEF Drop, ToolInv, ToolTypeOK
  <2>3. DOMAIN tasks' \subseteq DOMAIN rows'
    BY <1>2, <1>3 DEF ToolInv, ToolTypeOK
  <2>4. QED
    BY <1>1, <1>2, <1>4, <2>1, <2>2, <2>3 DEF ToolInv, ToolTypeOK, LogTypeOK
<1>6. InFlight'
  BY <1>2, <1>3 DEF ToolInv, ToolTypeOK, InFlight
<1>7. RunsPast' /\ SettledLegal'
  BY <1>1, <1>2, <1>3 DEF ToolInv, RunsPast, SettledLegal
<1>8. SeedInherited'
  <2> SUFFICES ASSUME NEW i \in DOMAIN tasks', tasks'[i].seed # 0
               PROVE  /\ tasks'[i].seed \in DOMAIN rows'
                      /\ \A k \in Knobs :
                            rows'[tasks'[i].seed].knobs[k] # Unset =>
                               rows'[i].knobs[k] # Unset
    BY DEF SeedInherited
  <2>1. /\ i \in DOMAIN tasks /\ i \in DOMAIN rows
        /\ tasks'[i].seed = tasks[i].seed
    BY <1>3 DEF ToolInv, ToolTypeOK
  <2>2. /\ tasks[i].seed \in DOMAIN rows
        /\ \A k \in Knobs : rows[tasks[i].seed].knobs[k] # Unset =>
                               rows[i].knobs[k] # Unset
    BY <2>1 DEF ToolInv, SeedInherited
  <2>3. QED
    BY <1>2, <2>1, <2>2
<1>9. NothingForgotten'
  BY <1>1, <1>2, <1>3 DEF ToolInv, ToolTypeOK, NothingForgotten
<1>10. QED
  BY <1>5, <1>6, <1>7, <1>8, <1>9, <1>4 DEF ToolInv

\* The driver starts again: the tasks are gone, ledger and log are what the
\* last run left of them.
LEMMA AgainStep ==
    ASSUME ToolInv, Again,
           rows' \in Seq(RowType), Len(rows') <= MaxRows,
           \A i \in DOMAIN rows' : rows'[i].run <= run,
           \A i \in DOMAIN rows' :
              rows'[i].status \in Settled => Legal(rows'[i].knobs),
           LogKept', LogTypeOK'
    PROVE  ToolInv'
<1>1. /\ run' = run + 1 /\ run < MaxRuns /\ DOMAIN tasks' = {}
      /\ tasks' = <<>> /\ quick' = quick
  BY DEF Again
<1>2. run \in Nat /\ MaxRuns \in Nat /\ run' \in 1..MaxRuns
  BY <1>1, ToolAssumption DEF ToolInv, ToolTypeOK
<1>3. ToolTypeOK'
  <2>1. TaskType' = TaskType
    BY <1>1 DEF TaskType, Results, Outcomes
  <2>2. tasks' \in [DOMAIN tasks' -> TaskType]
    BY <1>1
  <2>3. QED
    BY <1>1, <1>2, <2>1, <2>2 DEF ToolInv, ToolTypeOK, LogTypeOK
<1>4. SettledLegal'
  BY <1>1 DEF SettledLegal
<1>5. RunsPast' /\ NothingForgotten'
  <2>0. \A i \in DOMAIN rows' : rows'[i] \in RowType
    OBVIOUS
  <2>1. \A i \in DOMAIN rows' : rows'[i].run \in Nat
    BY <2>0, ToolAssumption DEF RowType
  <2>2. \A i \in DOMAIN rows' : rows'[i].run <= run' /\ rows'[i].run # run'
    BY <1>1, <1>2, <2>1
  <2>3. QED
    BY <1>1, <2>2 DEF RunsPast, NothingForgotten
<1>6. InFlight' /\ SeedInherited'
  BY <1>1 DEF InFlight, SeedInherited
<1>7. QED
  BY <1>3, <1>4, <1>5, <1>6 DEF ToolInv

\* Some configuration is a key: the log's lemmas ask for one.
LEMMA SomeKey == Keys # {}
<1>1. [k \in Knobs |-> Unset] \in Keys
  BY DEF Keys
<1>2. QED
  BY <1>1

LEMMA RestartStep ==
    ASSUME ToolInv, Restart
    PROVE  ToolInv'
<1>1. Again /\ UNCHANGED <<rows, logged, ended, loose>>
  BY DEF Restart
<1>2. FailedKeys' = FailedKeys
  BY <1>1 DEF FailedKeys
<1>3. LogKept' /\ LogTypeOK'
  <2>1. PICK x \in Keys : TRUE
    BY SomeKey
  <2>2. QED
    BY <1>1, <1>2, <2>1, LogAgain
<1>4. QED
  BY <1>1, <1>3, AgainStep DEF ToolInv, ToolTypeOK, RunsPast, SettledLegal

LEMMA DieProposingStep ==
    ASSUME ToolInv, NEW delta \in Deltas, NEW parent \in 0..MaxRows,
           DieProposing(delta, parent)
    PROVE  ToolInv'
<1> DEFINE c == Merged(delta, parent)
<1>1. /\ Len(rows) < MaxRows /\ Again
      /\ rows' = Append(rows, Row(c, "proposed"))
      /\ UNCHANGED <<logged, ended, loose>>
  BY DEF DieProposing
<1>2. c \in Configs
  BY MergedConfig DEF ToolInv
<1> HIDE DEF c
<1>3. Row(c, "proposed") \in RowType
  BY <1>2 DEF ToolInv, ToolTypeOK, Row, RowType
<1>4. /\ rows' \in Seq(RowType) /\ Len(rows') <= MaxRows
      /\ DOMAIN rows' = DOMAIN rows \cup {Len(rows) + 1}
      /\ \A i \in DOMAIN rows : rows'[i] = rows[i]
      /\ rows'[Len(rows) + 1] = Row(c, "proposed")
  <2>1. rows \in Seq(RowType) /\ MaxRows \in Nat /\ Len(rows) \in Nat
    BY ToolAssumption DEF ToolInv, ToolTypeOK
  <2>2. QED
    BY <1>1, <1>3, <2>1, RowAdded
<1>5. FailedKeys' = FailedKeys
  <2>1. \A i : (i \in DOMAIN rows' /\ rows'[i].status = "failed") <=>
              (i \in DOMAIN rows /\ rows[i].status = "failed")
    BY <1>4 DEF Row
  <2>2. QED
    BY <1>4, <2>1 DEF FailedKeys
<1>6. \A i \in DOMAIN rows' : rows'[i].run <= run
  BY <1>4 DEF ToolInv, ToolTypeOK, RunsPast, Row
<1>7. QED
  <2>1. LogKept' /\ LogTypeOK'
    <3>1. PICK x \in Keys : TRUE
      BY SomeKey
    <3>2. QED
      BY <1>1, <1>5, <3>1, LogAgain
  <2>2. \A i \in DOMAIN rows' :
           rows'[i].status \in Settled => Legal(rows'[i].knobs)
    BY <1>4 DEF ToolInv, SettledLegal, Settled, Row
  <2>3. QED
    BY <1>1, <1>4, <1>6, <2>1, <2>2, AgainStep

LEMMA DieCollectingStep ==
    ASSUME ToolInv, NEW id \in DOMAIN tasks, DieCollecting(id)
    PROVE  ToolInv'
<1> DEFINE x == Clean(rows[id].knobs)
<1>1. /\ Again
      /\ rows' = [rows EXCEPT ![id] = Recorded(@, tasks[id].results)]
      /\ \/ UNCHANGED <<logged, ended, loose>>
         \/ Fails(tasks[id].results) /\ CutShort(x)
  BY DEF DieCollecting
<1>2. /\ rows' \in Seq(RowType) /\ Len(rows') = Len(rows)
      /\ DOMAIN rows' = DOMAIN rows
      /\ \A i \in DOMAIN rows : /\ rows'[i].knobs = rows[i].knobs
                                /\ rows'[i].run = rows[i].run
                                /\ i # id => rows'[i] = rows[i]
      /\ x \in Keys /\ Legal(rows[id].knobs)
      /\ FailedKeys' = FailedKeys \cup
             (IF Fails(tasks[id].results) THEN {x} ELSE {})
  BY <1>1, SettleRow
<1> HIDE DEF x
<1>3. LogKept' /\ LogTypeOK'
  <2>1. FailedKeys \subseteq FailedKeys' /\ FailedKeys' \subseteq FailedKeys \cup {x}
    BY <1>2
  <2>2. Fails(tasks[id].results) => x \in FailedKeys'
    BY <1>2
  <2>3. QED
    BY <1>1, <1>2, <2>1, <2>2, LogAgain
<1>4. \A i \in DOMAIN rows' : rows'[i].run <= run
  BY <1>2 DEF ToolInv, RunsPast
<1>5. \A i \in DOMAIN rows' :
         rows'[i].status \in Settled => Legal(rows'[i].knobs)
  BY <1>2 DEF ToolInv, SettledLegal
<1>6. Len(rows') <= MaxRows
  BY <1>2 DEF ToolInv, ToolTypeOK
<1>7. QED
  BY <1>1, <1>2, <1>3, <1>4, <1>5, <1>6, AgainStep

-----------------------------------------------------------------------------
(***************************************************************************)
(* The theorems.                                                           *)
(***************************************************************************)

LEMMA ToolInitially == ToolInit => ToolInv
<1> SUFFICES ASSUME ToolInit PROVE ToolInv
  OBVIOUS
<1>1. ToolTypeOK
  BY ToolAssumption DEF ToolInit, ToolTypeOK
<1>2. LogKept
  <2>1. Missing = {}
    BY DEF ToolInit, Missing, FailedKeys
  <2>2. QED
    BY <2>1, FS_EmptySet DEF ToolInit, LogKept, AtStake
<1>3. RunsPast /\ InFlight /\ SettledLegal /\ SeedInherited /\ NothingForgotten
  BY DEF ToolInit, RunsPast, InFlight, SettledLegal, SeedInherited, NothingForgotten
<1>4. QED
  BY <1>1, <1>2, <1>3 DEF ToolInv

LEMMA ToolStep == ToolInv /\ [ToolNext]_toolVars => ToolInv'
<1> SUFFICES ASSUME ToolInv, [ToolNext]_toolVars PROVE ToolInv'
  OBVIOUS
<1>1. ASSUME NEW delta \in Deltas, NEW parent \in 0..MaxRows,
             Propose(delta, parent)
      PROVE  ToolInv'
  BY <1>1, RefuseStep, SubmitStep DEF Propose
<1>2. ASSUME NEW id \in DOMAIN tasks, Collect(id)
      PROVE  ToolInv'
  BY <1>2, CollectStep
<1>3. CASE Cluster
  BY <1>3, PlaceStep, FinishStep DEF Cluster
<1>4. CASE Death
  BY <1>4, RestartStep, DieProposingStep, DieCollectingStep DEF Death
<1>5. CASE UNCHANGED toolVars
  <2>1. Results' = Results
    BY <1>5 DEF toolVars, Results, Outcomes
  <2>2. FailedKeys' = FailedKeys
    BY <1>5 DEF toolVars, FailedKeys
  <2>3. LogKept'
    BY <1>5, <2>2, LogUntouched DEF toolVars
  <2>4. QED
    BY <1>5, <2>1, <2>3 DEF toolVars, logVars, ToolInv, ToolTypeOK, TaskType, RunsPast,
          InFlight, SettledLegal, SeedInherited, NothingForgotten
<1>6. QED
  BY <1>1, <1>2, <1>3, <1>4, <1>5 DEF ToolNext

\* The invariant behind the theorems below holds in every state, whatever the
\* agent calls and wherever the driver dies.
THEOREM ToolInductive == ToolSpec => []ToolInv
BY ToolInitially, ToolStep, PTL DEF ToolSpec

\* Type correctness of ledger, log and tasks.
THEOREM ToolTypeCorrect == ToolSpec => []ToolTypeOK
<1>1. ToolInv => ToolTypeOK
  BY DEF ToolInv
<1>2. QED
  BY <1>1, ToolInductive, PTL

\* The theorem on the log, as it follows from the invariant.
LEMMA KeptLog == ToolInv => LogMatchesLedger
<1> SUFFICES ASSUME ToolInv PROVE LogMatchesLedger
  OBVIOUS
<1>1. /\ IsFiniteSet(Missing) /\ IsFiniteSet(loose) /\ ended \in BOOLEAN
      /\ Cardinality(Missing) + AtStake <= 2 * (run - 1) /\ run \in Nat
  BY ToolAssumption DEF ToolInv, ToolTypeOK, LogKept
<1>2. /\ Cardinality(Missing) \in Nat
      /\ Cardinality(loose) \in Nat
  BY <1>1, FS_CardinalityType
<1>3. AtStake \in Nat
  BY <1>1, <1>2 DEF AtStake
<1>4. Cardinality(Missing) <= 2 * (run - 1)
  BY <1>1, <1>2, <1>3
<1>5. QED
  BY <1>4 DEF ToolInv, LogKept, LogMatchesLedger

\* Ledger and failure log agree but for two configurations per death.
THEOREM LogAndLedgerAgree == ToolSpec => []LogMatchesLedger
BY KeptLog, ToolInductive, PTL

\* A child sets every knob that shaped the tree it branches from.
THEOREM ChildrenInherit == ToolSpec => []SeedInherited
<1>1. ToolInv => SeedInherited
  BY DEF ToolInv
<1>2. QED
  BY <1>1, ToolInductive, PTL

\* No candidate of a living driver is forgotten.
THEOREM NoneForgotten == ToolSpec => []NothingForgotten
<1>1. ToolInv => NothingForgotten
  BY DEF ToolInv
<1>2. QED
  BY <1>1, ToolInductive, PTL

\* What no death has kept out of the file is in it: in the first run, all.
LEMMA FirstRunComplete ==
    ASSUME ToolInv, Missing # {}
    PROVE  run > 1
<1>1. /\ IsFiniteSet(Missing) /\ IsFiniteSet(loose) /\ ended \in BOOLEAN
      /\ Cardinality(Missing) + AtStake <= 2 * (run - 1) /\ run \in Nat
  BY ToolAssumption DEF ToolInv, ToolTypeOK, LogKept
<1>2. /\ Cardinality(Missing) \in Nat /\ Cardinality(Missing) # 0
      /\ Cardinality(loose) \in Nat
  BY <1>1, FS_CardinalityType, FS_EmptySet
<1>3. AtStake \in Nat
  BY <1>1, <1>2 DEF AtStake
<1>4. QED
  BY <1>1, <1>2, <1>3

\* Two legal mappings, one of them written the way make is given it: if they are
\* proposed in the same words, make is given the same.
LEMMA SameWords ==
    ASSUME NEW b \in Configs, NEW c \in Configs, Legal(b), Legal(c),
           Key(b) = Key(c), Key(c) = Clean(c)
    PROVE  Clean(b) = Clean(c)
<1>1. ASSUME NEW k \in Knobs
      PROVE  (IF b[k] = Unset THEN Unset ELSE Coerce[k][b[k]])
                = (IF c[k] = Unset THEN Unset ELSE Coerce[k][c[k]])
  <2>1. /\ b[k] # Unset => b[k] \in Values /\ b[k] \in Allowed[k]
        /\ c[k] # Unset => c[k] \in Values /\ c[k] \in Allowed[k]
    BY DEF Configs, Legal
  <2>2. /\ b[k] # Unset => Str[b[k]] # Unset
        /\ c[k] # Unset => Str[c[k]] # Unset
    BY <2>1, ToolAssumption
  <2>3. /\ Key(b)[k] = IF b[k] = Unset THEN Unset ELSE Str[b[k]]
        /\ Key(c)[k] = IF c[k] = Unset THEN Unset ELSE Str[c[k]]
        /\ Clean(c)[k] = IF c[k] = Unset THEN Unset ELSE Coerce[k][c[k]]
    BY DEF Key, Clean, Written
  <2>4. (b[k] = Unset) <=> (c[k] = Unset)
    BY <2>2, <2>3
  <2>5. c[k] # Unset => Str[b[k]] = Coerce[k][c[k]]
    BY <2>3, <2>4
  <2>6. \A v, w \in Allowed[k] :
           Str[v] = Coerce[k][w] => Coerce[k][v] = Coerce[k][w]
    BY ToolAssumption
  <2>7. QED
    BY <2>1, <2>4, <2>5, <2>6
<1>2. QED
  BY <1>1 DEF Clean, Written

\* A configuration that is on record and passes the checks of
\* propose_candidate is one whose failure a death kept out of the file.
LEMMA OnRecordOnlyIfMissing ==
    ASSUME ToolInv, NEW c \in Configs, ~ Refused(c), Key(c) = Clean(c),
           NEW i \in DOMAIN rows, OnRecord(i, c)
    PROVE  run > 1 /\ Clean(c) \in Missing
<1>1. Clean(c) \notin logged
  BY DEF Refused, ToolInv, LogKept
<1>2. \A j \in DOMAIN rows : rows[j].knobs \in Configs
  <2>1. \A j \in DOMAIN rows : rows[j] \in RowType
    BY DEF ToolInv, ToolTypeOK
  <2>2. QED
    BY <2>1 DEF RowType
<1>3. Clean(c) \in FailedKeys
  <2>1. CASE rows[i].status = "failed" /\ Clean(rows[i].knobs) = Clean(c)
    BY <2>1, Zenon DEF FailedKeys
  <2>2. CASE rows[i].status = "built" /\ Key(rows[i].knobs) = Key(c)
    <3> DEFINE same == {j \in DOMAIN rows : /\ Key(rows[j].knobs) = Key(c)
                                            /\ rows[j].status \in Settled}
    <3>1. same \subseteq 1..Len(rows) /\ same # {} /\ Len(rows) \in Nat
      BY <2>2 DEF ToolInv, ToolTypeOK, Settled
    <3>2. PICK n \in same : \A j \in same : j <= n
      BY <3>1, LastPosition
    <3>3. /\ n \in DOMAIN rows /\ n \in Nat
          /\ Key(rows[n].knobs) = Key(c) /\ rows[n].status \in Settled
      BY <3>1, <3>2
    <3>4. \A j \in DOMAIN rows : j > n => j \notin same
      <4> SUFFICES ASSUME NEW j \in DOMAIN rows, j > n, j \in same PROVE FALSE
        OBVIOUS
      <4>1. j <= n /\ j \in Nat
        BY <3>1, <3>2
      <4>2. QED
        BY <4>1, <3>3
    <3>5. rows[n].status # "built"
      BY <3>3, <3>4 DEF Refused, SeenBuilt
    <3>6. Legal(rows[n].knobs) /\ Legal(c)
      BY <3>3 DEF ToolInv, SettledLegal, Refused
    <3>7. Clean(rows[n].knobs) = Clean(c)
      BY <1>2, <3>3, <3>6, SameWords
    <3>8. rows[n].status = "failed"
      BY <3>3, <3>5 DEF Settled
    <3>9. QED
      BY <3>3, <3>7, <3>8, Zenon DEF FailedKeys
  <2>3. QED
    BY <2>1, <2>2 DEF OnRecord
<1>4. Clean(c) \in Missing
  BY <1>1, <1>3 DEF Missing
<1>5. QED
  BY <1>4, FirstRunComplete

\* A task that is new, and no promotion, is of a configuration that is not on
\* record, or whose failure a death kept out of the file.
NewToTheRecord ==
    \A id \in DOMAIN tasks' \ DOMAIN tasks :
        LET c == rows'[id].knobs IN
        ~ tasks'[id].promoted /\ Key(c) = Clean(c) =>
            \A i \in DOMAIN rows :
                OnRecord(i, c) => run > 1 /\ Clean(c) \in Missing

LEMMA SubmitsNew ==
    ASSUME ToolInv, NEW delta \in Deltas, NEW parent \in 0..MaxRows, Submit(delta, parent)
    PROVE  NewToTheRecord
<1> DEFINE c == Merged(delta, parent)
           id == Len(rows) + 1
<1>1. /\ ~ Refused(c)
      /\ rows' = Append(rows, Row(c, "proposed"))
      /\ DOMAIN tasks' \ DOMAIN tasks \subseteq {id}
  BY DEF Submit
<1>2. rows \in Seq(RowType) /\ c \in Configs
  BY MergedConfig DEF ToolInv, ToolTypeOK
<1> HIDE DEF c
<1>3. rows'[id].knobs = c
  BY <1>1, <1>2 DEF Row
<1> HIDE DEF id
<1>4. Key(c) = Clean(c) =>
         \A i \in DOMAIN rows : OnRecord(i, c) => run > 1 /\ Clean(c) \in Missing
  BY <1>1, <1>2, OnRecordOnlyIfMissing
<1>5. QED
  BY <1>1, <1>3, <1>4 DEF NewToTheRecord

\* What is on record is not built again, unless a death kept it out of the file.
THEOREM NothingRebuilt == ToolSpec => NoRebuild
<1>1. ToolInv /\ ToolNext => NewToTheRecord
  <2> SUFFICES ASSUME ToolInv, ToolNext PROVE NewToTheRecord
    OBVIOUS
  <2>1. ASSUME DOMAIN tasks' \subseteq DOMAIN tasks
        PROVE  NewToTheRecord
    BY <2>1 DEF NewToTheRecord
  <2>2. ASSUME NEW delta \in Deltas, NEW parent \in 0..MaxRows,
               Propose(delta, parent)
        PROVE  NewToTheRecord
    BY <2>1, <2>2, SubmitsNew DEF Propose, Refuse
  <2>3. ASSUME NEW id \in DOMAIN tasks, Collect(id)
        PROVE  DOMAIN tasks' \subseteq DOMAIN tasks
    BY <2>3 DEF Collect, Drop
  <2>4. ASSUME Cluster
        PROVE  DOMAIN tasks' \subseteq DOMAIN tasks
    BY <2>4 DEF Cluster, Place, Finish
  <2>5. ASSUME Death
        PROVE  DOMAIN tasks' \subseteq DOMAIN tasks
    BY <2>5 DEF Death, Restart, DieProposing, DieCollecting, Again
  <2>6. QED
    BY <2>1, <2>2, <2>3, <2>4, <2>5 DEF ToolNext
<1>2. ToolInv /\ [ToolNext]_toolVars => [NewToTheRecord]_toolVars
  BY <1>1
<1>3. [][NewToTheRecord]_toolVars => NoRebuild
  <2>1. [NewToTheRecord]_toolVars =>
          [\A id \in DOMAIN tasks' \ DOMAIN tasks :
              LET c == rows'[id].knobs IN
              ~ tasks'[id].promoted /\ Key(c) = Clean(c) =>
                 \A i \in DOMAIN rows :
                    OnRecord(i, c) => run > 1 /\ Clean(c) \in Missing]_toolVars
    BY DEF NewToTheRecord
  <2>2. QED
    BY <2>1, PTL DEF NoRebuild
<1>4. QED
  BY <1>2, <1>3, ToolInductive, PTL DEF ToolSpec
=============================================================================
