----------------------------- MODULE Calibrate -----------------------------
(***************************************************************************)
(* Measuring where a knob builds (calibrate.py, run_calibration.py) and    *)
(* the policy a driver makes of it (load_policy, KnobPolicy).  A probe is  *)
(* a gated flow in a directory of its own; it builds or it does not, and   *)
(* the same value asked again answers the same.  What a value answers is   *)
(* left open until it is first probed.                                     *)
(*                                                                         *)
(* Values are integers: whole numbers for an "int" knob, multiples of      *)
(* 1/10000 (the precision the code rounds to) for a "float" knob.          *)
(***************************************************************************)
EXTENDS Integers, Sequences, FiniteSetsExt

CONSTANTS
    Knobs,    \* the policy's knobs
    Spec,     \* knob -> [kind, low, high, values], the nominal KnobSpec
    Targets,  \* the lists of names calibrate may be asked for
    Budget,   \* probes per knob
    Tol,      \* tolerance, in hundredths of the nominal span
    TiesUp,   \* the sums round() takes up when their half has a fifth decimal
    MaxRuns,  \* bound: times the program is started
    NoFile, Torn, NoPolicy

ASSUME CalibrateAssumption ==
    /\ Spec \in [Knobs -> [kind : {"int", "float", "choice"}, low : Int, high : Int,
                           values : Seq(Int)]]
    /\ \A k \in Knobs : IF Spec[k].kind = "choice" THEN Spec[k].values # <<>>
                        ELSE Spec[k].low < Spec[k].high
    /\ Targets \subseteq Seq(Knobs)
    /\ Budget \in Nat \ {0} /\ Tol \in Nat /\ MaxRuns \in Nat

VARIABLES
    tried,   \* knob -> value -> did it build: the probe directories
    at,      \* "idle", or where the program is
    names,   \* knobs still to calibrate; the first is being calibrated
    probes,  \* cal.probes of that knob
    rest,    \* values still to try: fallback points, or choices
    seed,    \* the value that built first
    good, bad,  \* the bracket of the running bisection
    top,     \* cal.high, once bisected
    out,     \* knob -> KnobCalibration, of the knobs done
    file,    \* the JSON file: NoFile, Torn or the calibrations dumped
    runs

bracket == <<seed, good, bad, top>>
calVars == <<tried, at, names, probes, rest, bracket, out, file, runs>>

knob == Head(names)
span == Spec[knob].high - Spec[knob].low

Empty == [x \in {} |-> 0]

CalInit ==
    /\ tried = [k \in Knobs |-> Empty]
    /\ at = "idle" /\ names = <<>> /\ rest = <<>> /\ out = Empty
    /\ probes = 0 /\ seed = 0 /\ good = 0 /\ bad = 0 /\ top = 0
    /\ file = NoFile /\ runs = 0

-----------------------------------------------------------------------------
Abs(n) == IF n < 0 THEN -n ELSE n

Nearest(n, d) == {m \in (n \div d)..(n \div d + 1) : 2 * Abs(m * d - n) <= d}

\* round(n/d, 4): half way between two values, which one is returned depends
\* on the binary fraction nearest to n/d.
Round(n, d) == IF n \in TiesUp THEN Max(Nearest(n, d)) ELSE Min(Nearest(n, d))

\* int(round(n/2)): a tie goes to the even number.
RoundEven(n) == CHOOSE m \in Nearest(n, 2) : n % 2 = 0 \/ m % 2 = 0

\* The points besides the bisection's, n/d, that are values of the knob.  An int
\* knob's are not rounded, and _coerce refuses one that is no whole number.
Points(k, n, d) ==
    IF Spec[k].kind = "float" THEN {Round(n, d)}
    ELSE IF n % d = 0 THEN {n \div d} ELSE {}

\* Where the bisection looks next.
Mid(k, a, b) == IF Spec[k].kind = "float" THEN Round(a + b, 2) ELSE RoundEven(a + b)

\* _try: whether the value builds, known if it was probed before.
Verdicts(k, v) == IF v \in DOMAIN tried[k] THEN {tried[k][v]} ELSE BOOLEAN

Learn(k, v, ok) ==
    [tried EXCEPT ![k] = [x \in DOMAIN @ \cup {v} |-> IF x = v THEN ok ELSE @[x]]]

\* A measured band, and what is left of a knob nothing built for.
Band(lo, hi, n) == [measured |-> TRUE, low |-> lo, high |-> hi, probes |-> n]
Nothing(n) == [measured |-> FALSE, low |-> 0, high |-> 0, probes |-> n]

FirstStep(k) == IF Spec[k].kind = "choice" THEN "choices" ELSE "mid"

\* The four values tried when the midpoint failed, as quotients by four.
Fallbacks(k) ==
    LET s == Spec[k].high - Spec[k].low
    IN  <<4 * Spec[k].low, 4 * Spec[k].high, 4 * Spec[k].low + s, 4 * Spec[k].high - s>>

Forget == probes' = 0 /\ seed' = 0 /\ good' = 0 /\ bad' = 0 /\ top' = 0

\* Go on to the next knob, or to writing the file.
TakeUp(ns) ==
    /\ names' = ns
    /\ at' = IF ns = <<>> THEN "save" ELSE FirstStep(Head(ns))
    /\ rest' = IF ns # <<>> /\ Spec[Head(ns)].kind = "choice" THEN Spec[Head(ns)].values ELSE <<>>
    /\ Forget

Done(cal) ==
    /\ out' = [k \in DOMAIN out \cup {knob} |-> IF k = knob THEN cal ELSE out[k]]
    /\ TakeUp(Tail(names))

\* The program is gone, and with it everything it has not written.
Gone == at' = "idle" /\ names' = <<>> /\ rest' = <<>> /\ out' = Empty /\ Forget

-----------------------------------------------------------------------------
\* run_calibration is started with a list of knobs.
Begin(ns) ==
    /\ at = "idle" /\ runs < MaxRuns
    /\ TakeUp(ns)
    /\ out' = Empty /\ runs' = runs + 1
    /\ UNCHANGED <<tried, file>>

\* A choice knob: every value is tried, the budget notwithstanding.
ProbeChoice ==
    /\ at = "choices" /\ rest # <<>>
    /\ \E ok \in Verdicts(knob, Head(rest)) : tried' = Learn(knob, Head(rest), ok)
    /\ rest' = Tail(rest) /\ probes' = probes + 1
    /\ UNCHANGED <<at, names, bracket, out, file, runs>>

ChoicesDone ==
    /\ at = "choices" /\ rest = <<>>
    /\ LET built == {v \in DOMAIN tried[knob] : tried[knob][v]}
       IN  Done(IF built = {} THEN Nothing(probes) ELSE Band(Min(built), Max(built), probes))
    /\ UNCHANGED <<tried, file, runs>>

\* The seed has been found: bisect towards the upper limit first.
BisectFrom(v) ==
    /\ at' = "up" /\ seed' = v /\ good' = v /\ bad' = Spec[knob].high
    /\ rest' = <<>> /\ UNCHANGED top

ProbeMid ==
    /\ at = "mid"
    /\ \E v \in Points(knob, Spec[knob].low + Spec[knob].high, 2) :
       \E ok \in Verdicts(knob, v) :
          /\ tried' = Learn(knob, v, ok)
          /\ \/ ok /\ BisectFrom(v)
             \/ ~ok /\ at' = "fallback" /\ rest' = Fallbacks(knob) /\ UNCHANGED bracket
    /\ probes' = probes + 1
    /\ UNCHANGED <<names, out, file, runs>>

\* The midpoint failed: the first of four other points that builds is the seed.
ProbeFallback ==
    /\ at = "fallback" /\ rest # <<>>
    /\ \E v \in Points(knob, Head(rest), 4) : \E ok \in Verdicts(knob, v) :
          /\ tried' = Learn(knob, v, ok)
          /\ \/ ok /\ BisectFrom(v)
             \/ ~ok /\ rest' = Tail(rest) /\ UNCHANGED <<at, bracket>>
    /\ probes' = probes + 1
    /\ UNCHANGED <<names, out, file, runs>>

NothingBuilt ==
    /\ at = "fallback" /\ rest = <<>>
    /\ Done(Nothing(probes))
    /\ UNCHANGED <<tried, file, runs>>

\* The point to probe is no value of the knob: ValueError, up to the top.
Refused ==
    /\ \/ at = "mid" /\ Points(knob, Spec[knob].low + Spec[knob].high, 2) = {}
       \/ at = "fallback" /\ rest # <<>> /\ Points(knob, Head(rest), 4) = {}
    /\ Gone
    /\ UNCHANGED <<tried, file, runs>>

\* Mutant: the budget is dropped from the loop's condition.
OpenUnbudgeted == 100 * Abs(bad - good) > Tol * span

\* Mutant: the loop stops one probe early.
OpenStopsEarly == probes + 1 < Budget /\ 100 * Abs(bad - good) > Tol * span

Open == probes < Budget /\ 100 * Abs(bad - good) > Tol * span

mid == Mid(knob, good, bad)

\* Between two neighbouring whole numbers there is none to try.
Stuck == Spec[knob].kind = "int" /\ mid \in {good, bad}

Narrow ==
    /\ at \in {"up", "down"} /\ Open /\ ~Stuck
    /\ \E ok \in Verdicts(knob, mid) :
          /\ tried' = Learn(knob, mid, ok)
          /\ good' = IF ok THEN mid ELSE good
          /\ bad' = IF ok THEN bad ELSE mid
    /\ probes' = probes + 1
    /\ UNCHANGED <<at, names, rest, seed, top, out, file, runs>>

\* Mutant: bisect returns the end that failed.
ReturnedBad == bad

Returned == good

\* bisect returns; the lower side starts again at the seed.
EndSide ==
    /\ at \in {"up", "down"}
    /\ Open => Stuck
    /\ \/ /\ at = "up"
          /\ at' = "down" /\ top' = Returned /\ good' = seed /\ bad' = Spec[knob].low
          /\ UNCHANGED <<names, probes, rest, seed, out>>
       \/ at = "down" /\ Done(Band(Returned, top, probes))
    /\ UNCHANGED <<tried, file, runs>>

\* json.dump of all knobs into a file opened for writing.
Save ==
    /\ at = "save"
    /\ file' = out
    /\ Gone
    /\ UNCHANGED <<tried, runs>>

\* The program dies; in the middle of the write it leaves half a file.
Die ==
    /\ at # "idle"
    /\ file' \in IF at = "save" THEN {file, Torn} ELSE {file}
    /\ Gone
    /\ UNCHANGED <<tried, runs>>

-----------------------------------------------------------------------------
Nominal(k) == [low |-> Spec[k].low, high |-> Spec[k].high, calibrated |-> FALSE]

\* with_calibration: a choice knob keeps all its values, an unmeasured knob
\* its nominal range.
Calibrated(cals) ==
    [k \in Knobs |->
        IF k \in DOMAIN cals /\ Spec[k].kind # "choice" /\ cals[k].measured
        THEN [low |-> cals[k].low, high |-> cals[k].high, calibrated |-> TRUE]
        ELSE Nominal(k)]

\* load_policy, by a driver that starts now; half a file raises out of it.
LoadPolicy ==
    IF file = NoFile THEN [k \in Knobs |-> Nominal(k)]
    ELSE IF file = Torn THEN NoPolicy
    ELSE Calibrated(file)

Measuring == ProbeChoice \/ ChoicesDone \/ ProbeMid \/ ProbeFallback \/ NothingBuilt
                \/ Refused \/ Narrow \/ EndSide \/ Save

Next == (\E ns \in Targets : Begin(ns)) \/ Measuring \/ Die

CalSpec == CalInit /\ [][Next]_calVars

-----------------------------------------------------------------------------
Limits(k) == Spec[k].low..Spec[k].high

\* What may be spent on a knob: the fallback points are not held to the budget.
MostProbes(k) ==
    IF Spec[k].kind = "choice" THEN Len(Spec[k].values) ELSE Max({Budget, 5})

\* Type invariant; in it, no knob costs more runs of the flow than the budget,
\* or the midpoint and its four fallbacks if those are more.
CalTypeOK ==
    /\ at \in {"idle", "choices", "mid", "fallback", "up", "down", "save"}
    /\ at \in {"idle", "save"} <=> names = <<>>
    /\ names # <<>> => probes \in 0..MostProbes(knob)
    /\ at \in {"up", "down"} => {seed, good, bad} \subseteq Limits(knob)
    /\ DOMAIN out \subseteq Knobs
    /\ \A k \in DOMAIN out : out[k].probes \in 0..MostProbes(k)

Numeric(cals) == {k \in DOMAIN cals : Spec[k].kind # "choice" /\ cals[k].measured}

MidBuilt(k) ==
    \E v \in DOMAIN tried[k] : tried[k][v] /\ v \in Points(k, Spec[k].low + Spec[k].high, 2)

Failed(k) == {v \in DOMAIN tried[k] : ~tried[k][v]}

\* An edge is located when a value that failed, or the nominal limit, is no
\* further from it than the tolerance, or than the next whole number.
Near(k, edge, other) ==
    \/ 100 * Abs(other - edge) <= Tol * (Spec[k].high - Spec[k].low)
    \/ Spec[k].kind = "int" /\ Abs(other - edge) <= 1

Located(k, c) ==
    /\ \E b \in Failed(k) \cup {Spec[k].high} : b >= c.high /\ Near(k, c.high, b)
    /\ \E b \in Failed(k) \cup {Spec[k].low} : b <= c.low /\ Near(k, c.low, b)

\* How wide a bracket may still be, n halvings after it began at the midpoint:
\* a middle is rounded by half a unit at most.
Widest(k) ==
    LET width[n \in 0..Budget] ==
            IF n = 0 THEN (Spec[k].high - Spec[k].low + 1) \div 2
            ELSE (width[n - 1] + 1) \div 2
    IN  width

\* n halvings locate an edge, and the budget has them for both.
Suffices(k, n) ==
    /\ n \in 0..Budget /\ 1 + 2 * n <= Budget
    /\ \/ 100 * Widest(k)[n] <= Tol * (Spec[k].high - Spec[k].low)
       \/ Spec[k].kind = "int" /\ Widest(k)[n] <= 1

Affordable(k) == \E n \in 0..Budget : Suffices(k, n)

\* Both edges of a measured band are located (the tolerance of calibrate_knob's
\* docstring) unless the budget ran out; where the midpoint built it does not,
\* if it is enough to halve both sides: as that of run_calibration is for every
\* knob of the default policy, probes of an earlier run included.
EdgesLocated ==
    \A k \in Numeric(out) :
        (out[k].probes < Budget \/ (MidBuilt(k) /\ Affordable(k))) => Located(k, out[k])

\* Whatever a driver loads, at any moment and after any deaths of the program
\* that measures: a range marked as calibrated has ends that were built, lies
\* in the nominal one, and holds no value that failed where the midpoint built.
BandMeasured ==
    LET p == LoadPolicy
    IN  p # NoPolicy => \A k \in {j \in Knobs : p[j].calibrated} :
            /\ {p[k].low, p[k].high} \subseteq DOMAIN tried[k] \cap Limits(k)
            /\ tried[k][p[k].low] /\ tried[k][p[k].high] /\ p[k].low <= p[k].high
            /\ MidBuilt(k) => \A v \in Failed(k) : v < p[k].low \/ p[k].high < v
=============================================================================
