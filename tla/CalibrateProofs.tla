-------------------------- MODULE CalibrateProofs --------------------------
(***************************************************************************)
(* Proofs about Calibrate: the bands a driver loads have built ends, lie   *)
(* in the nominal ranges and hold no failure, for any knobs, ranges,       *)
(* budget and tolerance, however round() decides its ties.                 *)
(***************************************************************************)
EXTENDS Calibrate, WellFoundedInduction, TLAPS

Numerics == {k \in Knobs : Spec[k].kind # "choice"}

-----------------------------------------------------------------------------
(***************************************************************************)
(* Rounding.                                                               *)
(***************************************************************************)

\* The greater and the lesser of some one or two numbers are among them.
LEMMA MaxMinOfTwo ==
    ASSUME NEW a \in Int, NEW b \in Int
    PROVE  /\ Max({a, b}) \in {a, b} /\ Max({a, b}) >= a /\ Max({a, b}) >= b
           /\ Min({a, b}) \in {a, b}
<1>1. \E x \in {a, b} : \A y \in {a, b} : x >= y
  BY SMT
<1>2. \E x \in {a, b} : \A y \in {a, b} : x =< y
  BY SMT
<1>3. Max({a, b}) \in {a, b} /\ \A y \in {a, b} : Max({a, b}) >= y
  BY <1>1, Zenon DEF Max
<1>4. Min({a, b}) \in {a, b}
  BY <1>2, Zenon DEF Min
<1>5. QED
  BY <1>3, <1>4

\* A half or a quarter is rounded to a neighbour of it.
LEMMA NearestPair ==
    ASSUME NEW n \in Int, NEW d \in {2, 4}
    PROVE  /\ \E a, b \in Int : Nearest(n, d) = {a, b}
           /\ \A m \in Nearest(n, d) : m \in Int /\ 2 * Abs(m * d - n) <= d
<1>1. \A m \in Nearest(n, d) : m \in Int /\ 2 * Abs(m * d - n) <= d
  BY DEF Nearest
<1>2. ASSUME NEW q \in Int, q = n \div d
      PROVE  \E a, b \in Int : Nearest(n, d) = {a, b}
  <2>1. q * d <= n /\ n < q * d + d
    BY <1>2, SMT
  <2>2. Nearest(n, d) \subseteq {q, q + 1}
    <3>1. Nearest(n, d) \subseteq q..(q + 1)
      BY <1>2, Zenon DEF Nearest
    <3>2. q..(q + 1) \subseteq {q, q + 1}
      OBVIOUS
    <3>3. QED
      BY <3>1, <3>2
  <2>3. q \in Nearest(n, d) \/ q + 1 \in Nearest(n, d)
    BY <1>2, <2>1 DEF Nearest, Abs
  <2>4. Nearest(n, d) \in {{q, q}, {q + 1, q + 1}, {q, q + 1}}
    BY <2>2, <2>3
  <2>5. QED
    BY <2>4
<1>3. n \div d \in Int
  BY SMT
<1>4. QED
  BY <1>1, <1>2, <1>3

LEMMA RoundNear ==
    ASSUME NEW n \in Int, NEW d \in {2, 4}
    PROVE  Round(n, d) \in Int /\ 2 * Abs(Round(n, d) * d - n) <= d
<1>1. PICK a \in Int, b \in Int : Nearest(n, d) = {a, b}
  BY NearestPair
<1>2. Round(n, d) \in {a, b}
  BY <1>1, MaxMinOfTwo DEF Round
<1>3. QED
  BY <1>1, <1>2, NearestPair

LEMMA RoundEvenNear ==
    ASSUME NEW n \in Int
    PROVE  RoundEven(n) \in Int /\ 2 * Abs(RoundEven(n) * 2 - n) <= 2
<1>1. \E m \in Nearest(n, 2) : n % 2 = 0 \/ m % 2 = 0
  <2>1. CASE n % 2 = 0
    BY <2>1, NearestPair
  <2>2. CASE n % 2 # 0
    <3>1. PICK q \in Int : q = n \div 2
      BY SMT
    <3>2. n = 2 * q + 1
      BY <2>2, <3>1, SMT
    <3>3. q \in Nearest(n, 2) /\ q + 1 \in Nearest(n, 2)
      BY <3>1, <3>2 DEF Nearest, Abs
    <3>4. q % 2 = 0 \/ (q + 1) % 2 = 0
      BY SMT
    <3>5. QED
      BY <3>3, <3>4
  <2>3. QED
    BY <2>1, <2>2
<1>2. RoundEven(n) \in Nearest(n, 2)
  BY <1>1, Zenon DEF RoundEven
<1>3. QED
  BY <1>2, NearestPair

\* Where the bisection looks next lies between the ends of the bracket; of a
\* whole-number knob it is an end only if the ends are neighbours.
LEMMA MidBetween ==
    ASSUME NEW k \in Knobs, NEW a \in Int, NEW b \in Int
    PROVE  /\ Mid(k, a, b) \in Int
           /\ a <= b => a <= Mid(k, a, b) /\ Mid(k, a, b) <= b
           /\ b <= a => b <= Mid(k, a, b) /\ Mid(k, a, b) <= a
           /\ Mid(k, a, b) \in {a, b} => Abs(b - a) <= 1 /\ Abs(a - b) <= 1
<1>1. PICK m \in Int : m = Mid(k, a, b) /\ 2 * Abs(m * 2 - (a + b)) <= 2
  BY RoundNear, RoundEvenNear DEF Mid
<1>2. QED
  BY <1>1 DEF Abs

\* The points besides the bisection's are values of the nominal range.
LEMMA PointsInLimits ==
    ASSUME NEW k \in Knobs, NEW n \in Int, NEW d \in {2, 4},
           d * Spec[k].low <= n, n <= d * Spec[k].high,
           NEW v \in Points(k, n, d)
    PROVE  v \in Limits(k) /\ v \in Int
<1>1. Spec[k].low \in Int /\ Spec[k].high \in Int
  BY CalibrateAssumption
<1>2. v \in Int /\ 2 * Abs(v * d - n) <= d
  <2>1. CASE Spec[k].kind = "float"
    BY <2>1, RoundNear DEF Points
  <2>2. CASE Spec[k].kind # "float"
    <3>1. n % d = 0 /\ v = n \div d
      BY <2>2 DEF Points
    <3>2. n = v * d /\ v \in Int
      BY <3>1, SMT
    <3>3. QED
      BY <3>2 DEF Abs
  <2>3. QED
    BY <2>1, <2>2
<1>3. Spec[k].low <= v /\ v <= Spec[k].high
  BY <1>1, <1>2 DEF Abs
<1>4. QED
  BY <1>1, <1>2, <1>3 DEF Limits
\* The midpoint of the nominal range.
MidPoint(k) ==
    IF Spec[k].kind = "float" THEN Round(Spec[k].low + Spec[k].high, 2)
    ELSE (Spec[k].low + Spec[k].high) \div 2

\* If it is a value of the knob at all it is the point the calibration starts at.
LEMMA MidPointOnly ==
    ASSUME NEW k \in Numerics, NEW v \in Points(k, Spec[k].low + Spec[k].high, 2)
    PROVE  v = MidPoint(k) /\ v \in Limits(k) /\ v \in Int
<1>1. v = MidPoint(k)
  BY DEF Points, MidPoint
<1>2. /\ Spec[k].low \in Int /\ Spec[k].high \in Int /\ Spec[k].low < Spec[k].high
      /\ k \in Knobs
  BY CalibrateAssumption DEF Numerics
<1>3. /\ Spec[k].low + Spec[k].high \in Int
      /\ 2 * Spec[k].low <= Spec[k].low + Spec[k].high
      /\ Spec[k].low + Spec[k].high <= 2 * Spec[k].high
  BY <1>2
<1>4. v \in Limits(k) /\ v \in Int
  BY <1>2, <1>3, PointsInLimits
<1>5. QED
  BY <1>1, <1>4

-----------------------------------------------------------------------------
(***************************************************************************)
(* What has been tried.                                                    *)
(***************************************************************************)

TriedType ==
    /\ tried = [k \in Knobs |-> tried[k]]
    /\ \A k \in Knobs : /\ DOMAIN tried[k] \subseteq Int
                        /\ tried[k] \in [DOMAIN tried[k] -> BOOLEAN]

\* Probing a value adds its answer and leaves every other as it was; a value
\* probed before gives the answer it gave then.
LEMMA Learned ==
    ASSUME TriedType, NEW k \in Knobs, NEW v \in Int, NEW ok \in Verdicts(k, v),
           tried' = Learn(k, v, ok)
    PROVE  /\ TriedType'
           /\ \A j \in Knobs : DOMAIN tried[j] \subseteq DOMAIN tried'[j]
           /\ \A j \in Knobs : \A x \in DOMAIN tried[j] : tried'[j][x] = tried[j][x]
           /\ \A j \in Knobs \ {k} : tried'[j] = tried[j]
           /\ DOMAIN tried'[k] = DOMAIN tried[k] \cup {v}
           /\ tried'[k][v] = ok /\ ok \in BOOLEAN
<1> DEFINE more == [x \in DOMAIN tried[k] \cup {v} |-> IF x = v THEN ok ELSE tried[k][x]]
<1>1. tried' = [tried EXCEPT ![k] = more]
  BY Zenon DEF Learn
<1>2. ok \in BOOLEAN
  BY DEF Verdicts, TriedType
<1>3. \A x \in DOMAIN tried[k] : more[x] = tried[k][x]
  BY DEF Verdicts
<1>4. more \in [DOMAIN tried[k] \cup {v} -> BOOLEAN] /\ DOMAIN more = DOMAIN tried[k] \cup {v}
  <2>1. \A x \in DOMAIN tried[k] \cup {v} : (IF x = v THEN ok ELSE tried[k][x]) \in BOOLEAN
    BY <1>2, Zenon DEF TriedType
  <2>2. QED
    BY <2>1
<1>5. more[v] = ok
  OBVIOUS
<1> HIDE DEF more
<1>6. /\ tried'[k] = more /\ \A j \in Knobs \ {k} : tried'[j] = tried[j]
      /\ DOMAIN tried' = Knobs /\ tried' = [j \in Knobs |-> tried'[j]]
  BY <1>1 DEF TriedType
<1>7. TriedType'
  <2>1. ASSUME NEW j \in Knobs
        PROVE  DOMAIN tried'[j] \subseteq Int /\ tried'[j] \in [DOMAIN tried'[j] -> BOOLEAN]
    <3>1. CASE j = k
      BY <1>4, <1>6, <3>1 DEF TriedType
    <3>2. CASE j # k
      BY <1>6, <3>2 DEF TriedType
    <3>3. QED
      BY <3>1, <3>2
  <2>2. QED
    BY <1>6, <2>1, Zenon DEF TriedType
<1>8. QED
  BY <1>2, <1>3, <1>4, <1>5, <1>6, <1>7
-----------------------------------------------------------------------------
(***************************************************************************)
(* The inductive invariant.  A knob's probes are a function t from values  *)
(* to verdicts.                                                            *)
(***************************************************************************)

Built(t, v) == v \in DOMAIN t /\ t[v]

\* On one side of the seed, x is no further out than y.
Inner(side, x, y) == IF side = "up" THEN x <= y ELSE y <= x

Far(k, side) == IF side = "up" THEN Spec[k].high ELSE Spec[k].low

Sides == {"up", "down"}

\* The edge e is as near to a failure, or to the nominal limit, as asked.
Edge(t, k, side, e) ==
    \E b \in {v \in DOMAIN t : ~t[v]} \cup {Far(k, side)} :
        Inner(side, e, b) /\ Near(k, e, b)

\* What a measured band is.
GoodBand(t, k, c) ==
    /\ Built(t, c.low) /\ Built(t, c.high)
    /\ Spec[k].low <= c.low /\ c.low <= c.high /\ c.high <= Spec[k].high
    /\ MidPoint(k) \in DOMAIN t
    /\ t[MidPoint(k)] => c.low <= MidPoint(k) /\ MidPoint(k) <= c.high
    /\ c.probes < Budget => Edge(t, k, "up", c.high) /\ Edge(t, k, "down", c.low)

\* Nothing is tried before the midpoint.
MidFirst(t, k) ==
    DOMAIN t # {} => /\ MidPoint(k) \in DOMAIN t
                     /\ MidPoint(k) \in Points(k, Spec[k].low + Spec[k].high, 2)

\* The bracket that follows a bracket whose middle has been probed.
Half(t, k, p) ==
    LET m == Mid(k, p[1], p[2])
    IN  IF t[m] THEN <<m, p[2]>> ELSE <<p[1], m>>

\* P holds the brackets of the bisection from the midpoint to one side, as far
\* as it has ever gone: from each the next follows, or it is the narrowest, and
\* every value tried on that side is accounted for by one of them.
Path(t, k, side, P) ==
    /\ P \subseteq Int \X Int
    /\ <<MidPoint(k), Far(k, side)>> \in P
    /\ \A p \in P : /\ Inner(side, MidPoint(k), p[1])
                    /\ Inner(side, p[1], p[2])
                    /\ Inner(side, p[2], Far(k, side))
    /\ \A p, q \in P : Inner(side, p[1], q[2])
    /\ \A p \in P :
          \/ Mid(k, p[1], p[2]) \in DOMAIN t /\ Half(t, k, p) \in P
          \/ \A q \in P : Inner(side, q[1], p[1]) /\ Inner(side, p[2], q[2])
    /\ \A v \in DOMAIN t : Inner(side, MidPoint(k), v) =>
          /\ t[v] => \E p \in P : Inner(side, v, p[1])
          /\ ~t[v] => \E p \in P : Inner(side, p[2], v)

\* Where the midpoint built, a calibration that is started again goes the way
\* the earlier one went.
Searched(k, side) ==
    Built(tried[k], MidPoint(k)) =>
        \E P : /\ Path(tried[k], k, side, P)
               /\ (at = side /\ names # <<>> /\ knob = k) => <<good, bad>> \in P

Control ==
    /\ names \in Seq(Knobs)
    /\ at \in {"idle", "choices", "mid", "fallback", "up", "down", "save"}
    /\ at \in {"idle", "save"} <=> names = <<>>
    /\ at = "choices" => Spec[knob].kind = "choice"
    /\ at \in {"mid", "fallback", "up", "down"} => Spec[knob].kind # "choice"

\* What has been spent on the knob and what is still to be tried.
Spent ==
    /\ probes \in Nat
    /\ at = "choices" => rest \in Seq(Int) /\ probes + Len(rest) = Len(Spec[knob].values)
    /\ at = "mid" => probes = 0
    /\ at = "fallback" =>
          /\ rest \in Seq((4 * Spec[knob].low)..(4 * Spec[knob].high))
          /\ probes + Len(rest) = 5
          /\ MidPoint(knob) \in DOMAIN tried[knob] /\ ~tried[knob][MidPoint(knob)]
    /\ at \in Sides => probes <= Budget \/ probes <= 5

\* The bracket of a bisection, and what the upper side has left for the lower.
Bracketed ==
    at \in Sides =>
        /\ {seed, good, bad} \subseteq Int
        /\ Built(tried[knob], seed) /\ Built(tried[knob], good)
        /\ Spec[knob].low <= seed /\ seed <= Spec[knob].high
        /\ Inner(at, seed, good) /\ Inner(at, good, bad) /\ Inner(at, bad, Far(knob, at))
        /\ bad \in {v \in DOMAIN tried[knob] : ~tried[knob][v]} \cup {Far(knob, at)}
        /\ Built(tried[knob], MidPoint(knob)) => seed = MidPoint(knob)
        /\ at = "down" =>
              /\ Built(tried[knob], top) /\ seed <= top /\ top <= Spec[knob].high
              /\ probes < Budget => Edge(tried[knob], knob, "up", top)

\* The calibrations of some knobs: no overspending, and good bands.
Sound(probed, cals) ==
    /\ DOMAIN cals \subseteq Knobs
    /\ \A k \in DOMAIN cals :
          /\ cals[k].probes \in 0..MostProbes(k)
          /\ (k \in Numerics /\ cals[k].measured) => GoodBand(probed[k], k, cals[k])

CalInv ==
    /\ TriedType
    /\ Control
    /\ Spent
    /\ Bracketed
    /\ \A k \in Numerics : MidFirst(tried[k], k)
    /\ \A k \in Numerics, side \in Sides : Searched(k, side)
    /\ Sound(tried, out)
    /\ file \notin {NoFile, Torn} => Sound(tried, file)
-----------------------------------------------------------------------------
(***************************************************************************)
(* Trying more values.                                                     *)
(***************************************************************************)

\* u knows what t knows, and perhaps one value more.
Extends(t, u, x) ==
    /\ DOMAIN u = DOMAIN t \cup {x}
    /\ \A v \in DOMAIN t : u[v] = t[v]

LEMMA EdgeKept ==
    ASSUME NEW t, NEW u, NEW x, Extends(t, u, x), NEW k, NEW side, NEW e,
           Edge(t, k, side, e)
    PROVE  Edge(u, k, side, e)
<1>1. PICK b \in {v \in DOMAIN t : ~t[v]} \cup {Far(k, side)} :
            Inner(side, e, b) /\ Near(k, e, b)
  BY Zenon DEF Edge
<1>2. b \in {v \in DOMAIN u : ~u[v]} \cup {Far(k, side)}
  BY DEF Extends
<1>3. QED
  BY <1>1, <1>2, Zenon DEF Edge

\* A band that is good stays good.
LEMMA GoodBandKept ==
    ASSUME NEW t, NEW u, NEW x, Extends(t, u, x), NEW k, NEW c,
           GoodBand(t, k, c)
    PROVE  GoodBand(u, k, c)
<1>1. Built(u, c.low) /\ Built(u, c.high)
  BY DEF GoodBand, Built, Extends
<1>2. MidPoint(k) \in DOMAIN u /\ u[MidPoint(k)] = t[MidPoint(k)]
  BY DEF GoodBand, Extends
<1>3. c.probes < Budget => Edge(u, k, "up", c.high) /\ Edge(u, k, "down", c.low)
  BY EdgeKept DEF GoodBand
<1>4. QED
  BY <1>1, <1>2, <1>3 DEF GoodBand

\* Both sides are ordered.
LEMMA InnerOrder ==
    ASSUME NEW side \in Sides
    PROVE  /\ \A x \in Int : Inner(side, x, x)
           /\ \A x, y, z \in Int : Inner(side, x, y) /\ Inner(side, y, z) => Inner(side, x, z)
           /\ \A x, y \in Int : Inner(side, x, y) \/ Inner(side, y, x)
           /\ \A x, y \in Int : Inner(side, x, y) /\ Inner(side, y, x) => x = y
BY DEF Inner, Sides

LEMMA FarNumber ==
    ASSUME NEW k \in Numerics, NEW side \in Sides
    PROVE  Far(k, side) \in Int
BY CalibrateAssumption DEF Far, Numerics

\* The first probe begins the path.
LEMMA PathBegins ==
    ASSUME NEW k \in Numerics, NEW side \in Sides, NEW t,
           MidPoint(k) \in Limits(k), MidPoint(k) \in Int,
           DOMAIN t = {MidPoint(k)}, t[MidPoint(k)]
    PROVE  \E P : Path(t, k, side, P) /\ <<MidPoint(k), Far(k, side)>> \in P
<1> DEFINE m == MidPoint(k)
           f == Far(k, side)
           P == {<<m, f>>}
<1>1. Inner(side, m, f)
  BY DEF Inner, Far, Limits, Sides
<1>2. Far(k, side) \in Int
  BY FarNumber
<1> HIDE DEF m, f
<1>3. m \in Int /\ f \in Int /\ DOMAIN t = {m} /\ t[m]
  BY <1>2 DEF m, f
<1>4. Inner(side, m, m) /\ Inner(side, f, f)
  BY <1>3, InnerOrder
<1>5. \A p \in P : p = <<m, f>> /\ p[1] = m /\ p[2] = f
  OBVIOUS
<1>6. P \subseteq Int \X Int /\ <<m, f>> \in P
  BY <1>3
<1> HIDE DEF P
<1>7. \A p \in P : Inner(side, m, p[1]) /\ Inner(side, p[1], p[2]) /\ Inner(side, p[2], f)
  BY <1>1, <1>4, <1>5
<1>8. \A p, q \in P : Inner(side, p[1], q[2])
  BY <1>1, <1>5
<1>9. \A p \in P : \A q \in P : Inner(side, q[1], p[1]) /\ Inner(side, p[2], q[2])
  BY <1>4, <1>5
<1>10. \A v \in DOMAIN t : v = m /\ t[v] /\ \E p \in P : Inner(side, v, p[1])
  BY <1>3, <1>4, <1>5, <1>6
<1>11. Path(t, k, side, P)
  BY <1>6, <1>7, <1>8, <1>9, <1>10, Zenon DEF Path, m, f
<1>12. QED
  BY <1>6, <1>11 DEF m, f

\* A probe on the other side of the midpoint does not touch the path.
LEMMA PathKept ==
    ASSUME NEW k \in Numerics, NEW side \in Sides, NEW t, NEW u, NEW x,
           Extends(t, u, x), NEW P, Path(t, k, side, P),
           x \in DOMAIN t \/ ~Inner(side, MidPoint(k), x)
    PROVE  Path(u, k, side, P)
<1>1. \A p \in P :
         \/ Mid(k, p[1], p[2]) \in DOMAIN u /\ Half(u, k, p) \in P
         \/ \A q \in P : Inner(side, q[1], p[1]) /\ Inner(side, p[2], q[2])
  <2> SUFFICES ASSUME NEW p \in P, Mid(k, p[1], p[2]) \in DOMAIN t, Half(t, k, p) \in P
               PROVE  Mid(k, p[1], p[2]) \in DOMAIN u /\ Half(u, k, p) \in P
    BY Zenon DEF Path
  <2>1. Mid(k, p[1], p[2]) \in DOMAIN u
    BY DEF Extends
  <2>2. u[Mid(k, p[1], p[2])] = t[Mid(k, p[1], p[2])]
    BY DEF Extends
  <2>3. Half(u, k, p) = Half(t, k, p)
    BY <2>2, Zenon DEF Half
  <2>4. QED
    BY <2>1, <2>3
<1>2. \A v \in DOMAIN u : Inner(side, MidPoint(k), v) => v \in DOMAIN t /\ u[v] = t[v]
  BY DEF Extends
<1>3. \A v \in DOMAIN u : Inner(side, MidPoint(k), v) =>
         /\ u[v] => \E p \in P : Inner(side, v, p[1])
         /\ ~u[v] => \E p \in P : Inner(side, p[2], v)
  BY <1>2, Zenon DEF Path
<1>4. QED
  BY <1>1, <1>3, Zenon DEF Path
\* The middle of a bracket lies in it.
LEMMA MidInner ==
    ASSUME NEW k \in Numerics, NEW side \in Sides, NEW a \in Int, NEW b \in Int,
           Inner(side, a, b)
    PROVE  /\ Mid(k, a, b) \in Int
           /\ Inner(side, a, Mid(k, a, b)) /\ Inner(side, Mid(k, a, b), b)
BY MidBetween DEF Inner, Numerics

\* Probing the middle of a bracket on the path leads to the next on it, which
\* was there before or makes the path one longer.
LEMMA PathGoesOn ==
    ASSUME NEW k \in Numerics, NEW side \in Sides, MidPoint(k) \in Int,
           NEW t, DOMAIN t \subseteq Int, NEW P, Path(t, k, side, P),
           NEW a \in Int, NEW b \in Int, <<a, b>> \in P,
           NEW u, Extends(t, u, Mid(k, a, b))
    PROVE  \E Q : Path(u, k, side, Q) /\ Half(u, k, <<a, b>>) \in Q
<1> DEFINE m == MidPoint(k)
           f == Far(k, side)
           x == Mid(k, a, b)
           h == Half(u, k, <<a, b>>)
           Q == P \cup {h}
<1>1. f \in Int /\ m \in Int
  BY FarNumber
<1>2. /\ Inner(side, m, a) /\ Inner(side, a, b) /\ Inner(side, b, f)
  BY DEF Path
<1>3. x \in Int /\ Inner(side, a, x) /\ Inner(side, x, b)
  BY <1>2, MidInner
<1>4. h = IF u[x] THEN <<x, b>> ELSE <<a, x>>
  BY DEF Half
<1>5. DOMAIN u = DOMAIN t \cup {x} /\ \A v \in DOMAIN t : u[v] = t[v]
  BY DEF Extends
<1>6. ASSUME NEW p \in P, Mid(k, p[1], p[2]) \in DOMAIN t, Half(t, k, p) \in P
      PROVE  Mid(k, p[1], p[2]) \in DOMAIN u /\ Half(u, k, p) \in P
  <2>1. u[Mid(k, p[1], p[2])] = t[Mid(k, p[1], p[2])] /\ Mid(k, p[1], p[2]) \in DOMAIN u
    BY <1>5, <1>6
  <2>2. Half(u, k, p) = Half(t, k, p)
    BY <2>1, Zenon DEF Half
  <2>3. QED
    BY <1>6, <2>1, <2>2
<1>7. CASE x \in DOMAIN t /\ Half(t, k, <<a, b>>) \in P
  <2>1. Half(u, k, <<a, b>>) = Half(t, k, <<a, b>>)
    BY <1>5, <1>7, Zenon DEF Half
  <2>2. Path(u, k, side, P)
    BY <1>7, PathKept
  <2>3. QED
    BY <1>7, <2>1, <2>2
<1>8. CASE \A q \in P : Inner(side, q[1], a) /\ Inner(side, b, q[2])
  <2>1. P \subseteq Int \X Int /\ \A q \in P : q[1] \in Int /\ q[2] \in Int /\ q = <<q[1], q[2]>>
    BY DEF Path
  <2> HIDE DEF x, h, m, f
  <2>2. h[1] \in {a, x} /\ h[2] \in {b, x} /\ h = <<h[1], h[2]>> /\ h \in Int \X Int
    BY <1>3, <1>4
  <2>3. /\ Inner(side, a, h[1]) /\ Inner(side, h[1], h[2]) /\ Inner(side, h[2], b)
        /\ h[1] \in Int /\ h[2] \in Int
    BY <1>2, <1>3, <1>4, InnerOrder
  <2>4. \A q \in P : /\ Inner(side, q[1], h[1]) /\ Inner(side, h[2], q[2])
                     /\ Inner(side, q[1], h[2]) /\ Inner(side, h[1], q[2])
    <3> TAKE q \in P
    <3>1. Inner(side, q[1], a) /\ Inner(side, b, q[2]) /\ q[1] \in Int /\ q[2] \in Int
      BY <1>8, <2>1
    <3>2. QED
      BY <1>3, <2>2, <2>3, <3>1, InnerOrder
  <2>5. Inner(side, m, h[1]) /\ Inner(side, h[2], f)
    BY <1>1, <1>2, <2>3, InnerOrder
  <2>6. \A p \in Q : p \in P \/ p = h
    OBVIOUS
  <2>7. P \subseteq Q /\ h \in Q /\ Q \subseteq Int \X Int
    BY <2>1, <2>2
  <2> HIDE DEF Q
  <2>8. \A p \in Q : Inner(side, m, p[1]) /\ Inner(side, p[1], p[2]) /\ Inner(side, p[2], f)
    BY <2>3, <2>5, <2>6 DEF Path, m, f
  <2>9. \A p, q \in Q : Inner(side, p[1], q[2])
    BY <2>3, <2>4, <2>6 DEF Path
  <2>10. \A p \in Q :
           \/ Mid(k, p[1], p[2]) \in DOMAIN u /\ Half(u, k, p) \in Q
           \/ \A q \in Q : Inner(side, q[1], p[1]) /\ Inner(side, p[2], q[2])
    <3>1. \A q \in Q : Inner(side, q[1], h[1]) /\ Inner(side, h[2], q[2])
      BY <2>3, <2>4, <2>6, InnerOrder
    <3>2. ASSUME NEW p \in P, p # <<a, b>>
          PROVE  Mid(k, p[1], p[2]) \in DOMAIN u /\ Half(u, k, p) \in Q
      <4>1. ~ \A q \in P : Inner(side, q[1], p[1]) /\ Inner(side, p[2], q[2])
        <5> SUFFICES ASSUME \A q \in P : Inner(side, q[1], p[1]) /\ Inner(side, p[2], q[2])
                     PROVE  p = <<a, b>>
          BY <3>2
        <5>1. Inner(side, a, p[1]) /\ Inner(side, p[2], b)
          OBVIOUS
        <5>2. Inner(side, p[1], a) /\ Inner(side, b, p[2])
          BY <1>8
        <5>3. p[1] = a /\ p[2] = b
          BY <2>1, <5>1, <5>2, InnerOrder
        <5>4. QED
          BY <2>1, <5>3
      <4>2. Mid(k, p[1], p[2]) \in DOMAIN t /\ Half(t, k, p) \in P
        BY <4>1, Zenon DEF Path
      <4>3. QED
        BY <1>6, <2>7, <4>2
    <3>3. ASSUME NEW p \in P, p = <<a, b>>
          PROVE  Mid(k, p[1], p[2]) \in DOMAIN u /\ Half(u, k, p) \in Q
      <4>1. p[1] = a /\ p[2] = b
        BY <3>3
      <4>2. x \in DOMAIN u
        BY <1>5
      <4>3. QED
        BY <2>7, <3>3, <4>1, <4>2 DEF x, h
    <3>4. QED
      BY <2>6, <3>1, <3>2, <3>3
  <2>11. ASSUME NEW v \in DOMAIN u, Inner(side, m, v)
         PROVE  /\ u[v] => \E p \in Q : Inner(side, v, p[1])
                /\ ~u[v] => \E p \in Q : Inner(side, p[2], v)
    <3>1. CASE v \in DOMAIN t
      <4>1. /\ t[v] => \E p \in P : Inner(side, v, p[1])
            /\ ~t[v] => \E p \in P : Inner(side, p[2], v)
        BY <2>11, <3>1, Zenon DEF Path, m
      <4>2. QED
        BY <1>5, <2>7, <3>1, <4>1
    <3>2. CASE v = x
      <4>1. CASE u[x]
        <5>1. h[1] = x
          BY <1>4, <4>1
        <5>2. QED
          BY <1>3, <2>7, <3>2, <4>1, <5>1, InnerOrder
      <4>2. CASE ~u[x]
        <5>1. h[2] = x
          BY <1>4, <4>2
        <5>2. QED
          BY <1>3, <2>7, <3>2, <4>2, <5>1, InnerOrder
      <4>3. QED
        BY <4>1, <4>2
    <3>3. QED
      BY <1>5, <3>1, <3>2
  <2>12. <<m, f>> \in Q
    BY <2>7 DEF Path, m, f
  <2>13. Path(u, k, side, Q)
    BY <2>7, <2>8, <2>9, <2>10, <2>11, <2>12, Zenon DEF Path, m, f
  <2>14. QED
    BY <2>7, <2>13 DEF h
<1>9. \/ x \in DOMAIN t /\ Half(t, k, <<a, b>>) \in P
      \/ \A q \in P : Inner(side, q[1], a) /\ Inner(side, b, q[2])
  BY Zenon DEF Path
<1>10. QED
  BY <1>7, <1>8, <1>9

\* On a path no value that failed is further in than one that built.
LEMMA PathSorts ==
    ASSUME NEW k \in Numerics, NEW side \in Sides, NEW t, DOMAIN t \subseteq Int,
           MidPoint(k) \in Int, NEW P, Path(t, k, side, P),
           NEW v \in DOMAIN t, t[v], NEW w \in DOMAIN t, ~t[w],
           Inner(side, MidPoint(k), v), Inner(side, MidPoint(k), w)
    PROVE  Inner(side, v, w) /\ v # w
<1>1. PICK p \in P : Inner(side, v, p[1])
  BY Zenon DEF Path
<1>2. PICK q \in P : Inner(side, q[2], w)
  BY Zenon DEF Path
<1>3. Inner(side, p[1], q[2]) /\ p[1] \in Int /\ q[2] \in Int
  BY DEF Path
<1>4. Inner(side, v, w)
  BY <1>1, <1>2, <1>3, InnerOrder
<1>5. QED
  BY <1>4
-----------------------------------------------------------------------------
(***************************************************************************)
(* The calibrations.                                                       *)
(***************************************************************************)

\* Probing more leaves them sound.
LEMMA SoundKept ==
    ASSUME NEW T, NEW U, NEW cals, Sound(T, cals), NEW k \in Knobs, NEW x,
           Extends(T[k], U[k], x), \A j \in Knobs \ {k} : U[j] = T[j]
    PROVE  Sound(U, cals)
<1> SUFFICES ASSUME NEW j \in DOMAIN cals, j \in Numerics, cals[j].measured
             PROVE  GoodBand(U[j], j, cals[j])
  BY DEF Sound
<1>1. GoodBand(T[j], j, cals[j]) /\ j \in Knobs
  BY DEF Sound
<1>2. CASE j = k
  BY <1>1, <1>2, GoodBandKept
<1>3. CASE j # k
  BY <1>1, <1>3
<1>4. QED
  BY <1>2, <1>3

\* So does one more that is good.
LEMMA SoundMore ==
    ASSUME NEW T, NEW cals, Sound(T, cals), NEW k \in Knobs, NEW c,
           c.probes \in 0..MostProbes(k),
           k \in Numerics /\ c.measured => GoodBand(T[k], k, c)
    PROVE  Sound(T, [j \in DOMAIN cals \cup {k} |-> IF j = k THEN c ELSE cals[j]])
BY DEF Sound

\* The limits on what is spent.
LEMMA MostProbesIs ==
    ASSUME NEW k \in Knobs
    PROVE  /\ Spec[k].kind = "choice" => MostProbes(k) = Len(Spec[k].values)
           /\ Spec[k].kind # "choice" =>
                 MostProbes(k) \in Int /\ MostProbes(k) >= Budget /\ MostProbes(k) >= 5
<1>1. Budget \in Int
  BY CalibrateAssumption
<1>2. Max({Budget, 5}) \in Int /\ Max({Budget, 5}) >= Budget /\ Max({Budget, 5}) >= 5
  BY <1>1, MaxMinOfTwo
<1>3. QED
  BY <1>2 DEF MostProbes

-----------------------------------------------------------------------------
(***************************************************************************)
(* Steps that probe nothing.                                               *)
(***************************************************************************)

LEMMA SpecOf ==
    ASSUME NEW k \in Knobs
    PROVE  /\ Spec[k].kind \in {"int", "float", "choice"}
           /\ Spec[k].low \in Int /\ Spec[k].high \in Int
           /\ Spec[k].values \in Seq(Int)
           /\ Spec[k].kind # "choice" => Spec[k].low < Spec[k].high
BY CalibrateAssumption

\* Going on to the next knob, or to the file.
LEMMA TakenUp ==
    ASSUME NEW ns, ns \in Seq(Knobs), TakeUp(ns)
    PROVE  Control' /\ Spent' /\ Bracketed' /\ at' \notin Sides
<1>1. /\ names' = ns /\ probes' = 0
      /\ at' = IF ns = <<>> THEN "save" ELSE FirstStep(Head(ns))
      /\ rest' = IF ns # <<>> /\ Spec[Head(ns)].kind = "choice"
                 THEN Spec[Head(ns)].values ELSE <<>>
  BY DEF TakeUp, Forget
<1>2. CASE ns = <<>>
  <2>1. at' = "save"
    BY <1>1, <1>2
  <2>2. QED
    BY <1>1, <1>2, <2>1 DEF Control, Spent, Bracketed, Sides
<1>3. CASE ns # <<>>
  <2>1. Head(ns) \in Knobs /\ knob' = Head(ns)
    BY <1>1, <1>3 DEF knob
  <2>2. CASE Spec[Head(ns)].kind = "choice"
    <3>1. at' = "choices" /\ rest' = Spec[Head(ns)].values
      BY <1>1, <1>3, <2>2 DEF FirstStep
    <3>2. Spec[Head(ns)].values \in Seq(Int) /\ Len(Spec[Head(ns)].values) \in Nat
      BY <2>1, SpecOf
    <3>3. QED
      BY <1>1, <1>3, <2>1, <2>2, <3>1, <3>2 DEF Control, Spent, Bracketed, Sides
  <2>3. CASE Spec[Head(ns)].kind # "choice"
    <3>1. at' = "mid"
      BY <1>1, <1>3, <2>3 DEF FirstStep
    <3>2. QED
      BY <1>1, <1>3, <2>1, <2>3, <3>1 DEF Control, Spent, Bracketed, Sides
  <2>4. QED
    BY <2>2, <2>3
<1>4. QED
  BY <1>2, <1>3

\* The program is gone.
LEMMA AllGone ==
    ASSUME Gone
    PROVE  Control' /\ Spent' /\ Bracketed' /\ at' \notin Sides /\ out' = Empty
BY DEF Gone, Forget, Control, Spent, Bracketed, Sides

LEMMA NothingSound ==
    ASSUME NEW T
    PROVE  Sound(T, Empty)
BY DEF Sound, Empty

\* When nothing is probed and no bisection goes on, the probes are as they were.
LEMMA NothingProbed ==
    ASSUME CalInv, UNCHANGED tried, at' \notin Sides,
           Control', Spent', Bracketed', Sound(tried, out'),
           file' \in {file, Torn} \/ Sound(tried, file')
    PROVE  CalInv'
<1>1. TriedType' /\ \A k \in Numerics : MidFirst(tried[k], k)'
  BY DEF CalInv, TriedType
<1>2. \A k \in Numerics, side \in Sides : Searched(k, side)'
  BY DEF CalInv, Searched
<1>3. Sound(tried, out)' /\ (file' \notin {NoFile, Torn} => Sound(tried', file'))
  BY DEF CalInv
<1>4. QED
  BY <1>1, <1>2, <1>3 DEF CalInv

LEMMA CalInitHolds == CalInit => CalInv
<1> SUFFICES ASSUME CalInit PROVE CalInv
  OBVIOUS
<1>1. tried = [k \in Knobs |-> Empty] /\ at = "idle" /\ names = <<>> /\ probes = 0
      /\ out = Empty /\ file = NoFile
  BY DEF CalInit
<1>2. DOMAIN Empty = {}
  BY DEF Empty
<1>3. TriedType
  <2>1. Empty \in [DOMAIN Empty -> BOOLEAN]
    BY DEF Empty
  <2>2. \A k \in Knobs : tried[k] = Empty
    BY <1>1
  <2>3. tried = [k \in Knobs |-> tried[k]]
    BY <1>1
  <2>4. QED
    BY <1>2, <2>1, <2>2, <2>3 DEF TriedType
<1>4. Control /\ Spent /\ Bracketed
  BY <1>1 DEF Control, Spent, Bracketed, Sides
<1>5. \A k \in Numerics : DOMAIN tried[k] = {}
  BY <1>1, <1>2 DEF Numerics
<1>6. /\ \A k \in Numerics : MidFirst(tried[k], k)
      /\ \A k \in Numerics, side \in Sides : Searched(k, side)
  BY <1>5 DEF MidFirst, Searched, Built
<1>7. QED
  BY <1>1, <1>3, <1>4, <1>6, NothingSound DEF CalInv
\* The knob being calibrated.
LEMMA KnobIs ==
    ASSUME CalInv, at \notin {"idle", "save"}
    PROVE  knob \in Knobs /\ names \in Seq(Knobs) /\ names # <<>> /\ Tail(names) \in Seq(Knobs)
<1>1. names \in Seq(Knobs) /\ names # <<>>
  BY DEF CalInv, Control
<1>2. QED
  BY <1>1 DEF knob

\* A knob is done.
LEMMA DoneStep ==
    ASSUME CalInv, at \notin {"idle", "save"}, UNCHANGED <<tried, file>>,
           NEW cal, Done(cal), cal.probes \in 0..MostProbes(knob),
           knob \in Numerics /\ cal.measured => GoodBand(tried[knob], knob, cal)
    PROVE  CalInv'
<1>1. knob \in Knobs /\ Tail(names) \in Seq(Knobs)
  BY KnobIs
<1>2. /\ out' = [k \in DOMAIN out \cup {knob} |-> IF k = knob THEN cal ELSE out[k]]
      /\ TakeUp(Tail(names))
  BY Zenon DEF Done
<1>3. Control' /\ Spent' /\ Bracketed' /\ at' \notin Sides
  BY <1>1, <1>2, TakenUp
<1>4. Sound(tried, out)
  BY DEF CalInv
<1>5. Sound(tried, [k \in DOMAIN out \cup {knob} |-> IF k = knob THEN cal ELSE out[k]])
  <2> DEFINE k0 == knob
  <2>1. k0 \in Knobs /\ cal.probes \in 0..MostProbes(k0)
    BY <1>1
  <2>2. k0 \in Numerics /\ cal.measured => GoodBand(tried[k0], k0, cal)
    OBVIOUS
  <2> HIDE DEF k0
  <2>3. Sound(tried, [k \in DOMAIN out \cup {k0} |-> IF k = k0 THEN cal ELSE out[k]])
    BY <1>4, <2>1, <2>2, SoundMore
  <2>4. QED
    BY <2>3 DEF k0
<1>6. Sound(tried, out')
  BY <1>2, <1>5
<1>7. file' = file /\ tried' = tried
  OBVIOUS
<1>8. file' \in {file, Torn} \/ Sound(tried, file')
  BY <1>7
<1>9. QED
  BY <1>3, <1>6, <1>7, <1>8, NothingProbed

LEMMA BeginStep ==
    ASSUME CalInv, NEW ns \in Targets, Begin(ns)
    PROVE  CalInv'
<1>1. TakeUp(ns) /\ out' = Empty /\ UNCHANGED <<tried, file>>
  BY DEF Begin
<1>2. ns \in Seq(Knobs)
  BY CalibrateAssumption
<1>3. Control' /\ Spent' /\ Bracketed' /\ at' \notin Sides
  BY <1>1, <1>2, TakenUp
<1>4. Sound(tried, out')
  BY <1>1, NothingSound
<1>5. QED
  BY <1>1, <1>3, <1>4, NothingProbed

LEMMA ChoicesDoneStep ==
    ASSUME CalInv, ChoicesDone
    PROVE  CalInv'
<1> DEFINE built == {v \in DOMAIN tried[knob] : tried[knob][v]}
           cal == IF built = {} THEN Nothing(probes) ELSE Band(Min(built), Max(built), probes)
<1>1. at = "choices" /\ rest = <<>> /\ Done(cal) /\ UNCHANGED <<tried, file>>
  BY Zenon DEF ChoicesDone
<1>2. at \notin {"idle", "save"}
  BY <1>1
<1>3. knob \in Knobs /\ Spec[knob].kind = "choice" /\ probes = Len(Spec[knob].values)
      /\ probes \in Nat
  BY <1>1, <1>2, KnobIs DEF CalInv, Control, Spent
<1>4. cal.probes = probes
  BY DEF Nothing, Band
<1> HIDE DEF cal
<1>5. cal.probes \in 0..MostProbes(knob)
  BY <1>3, <1>4, MostProbesIs
<1>6. knob \notin Numerics
  BY <1>3 DEF Numerics
<1>7. UNCHANGED <<tried, file>>
  BY <1>1
<1>8. QED
  BY <1>1, <1>2, <1>5, <1>6, <1>7, DoneStep

LEMMA NothingBuiltStep ==
    ASSUME CalInv, NothingBuilt
    PROVE  CalInv'
<1>1. at = "fallback" /\ rest = <<>> /\ Done(Nothing(probes)) /\ UNCHANGED <<tried, file>>
  BY DEF NothingBuilt
<1>2. at \notin {"idle", "save"}
  BY <1>1
<1>3. knob \in Knobs /\ Spec[knob].kind # "choice" /\ probes = 5
  BY <1>1, <1>2, KnobIs DEF CalInv, Control, Spent
<1> DEFINE cal == Nothing(probes)
<1>4. cal.probes = probes /\ cal.measured = FALSE /\ Done(cal)
  BY <1>1 DEF Nothing
<1> HIDE DEF cal
<1>5. cal.probes \in 0..MostProbes(knob)
  BY <1>3, <1>4, MostProbesIs
<1>6. UNCHANGED <<tried, file>>
  BY <1>1
<1>7. QED
  BY <1>2, <1>4, <1>5, <1>6, DoneStep

LEMMA GoneStep ==
    ASSUME CalInv, Gone, UNCHANGED tried, file' \in {file, Torn} \/ file' = out
    PROVE  CalInv'
<1>1. Control' /\ Spent' /\ Bracketed' /\ at' \notin Sides /\ out' = Empty
  BY AllGone
<1>2. Sound(tried, out')
  BY <1>1, NothingSound
<1>3. file' \in {file, Torn} \/ Sound(tried, file')
  BY DEF CalInv
<1>4. QED
  BY <1>1, <1>2, <1>3, NothingProbed

\* The bisection of one side stops within the budget only near its edge.
LEMMA SideEnds ==
    ASSUME CalInv, at \in Sides, Open => Stuck, probes < Budget
    PROVE  Edge(tried[knob], knob, at, good)
<1>1. knob \in Knobs
  BY KnobIs DEF Sides
<1>2. /\ good \in Int /\ bad \in Int
      /\ Inner(at, good, bad)
      /\ bad \in {v \in DOMAIN tried[knob] : ~tried[knob][v]} \cup {Far(knob, at)}
  BY DEF CalInv, Bracketed
<1>3. Near(knob, good, bad)
  <2>1. CASE Open
    <3>1. Spec[knob].kind = "int" /\ Mid(knob, good, bad) \in {good, bad}
      BY <2>1 DEF Stuck, mid
    <3>2. Abs(bad - good) <= 1
      BY <1>1, <1>2, <3>1, MidBetween
    <3>3. QED
      BY <3>1, <3>2 DEF Near
  <2>2. CASE ~Open
    <3>1. ~(100 * Abs(bad - good) > Tol * span)
      BY <2>2, Zenon DEF Open
    <3>2. Abs(bad - good) \in Int /\ Tol \in Int /\ span \in Int
      BY <1>1, <1>2, SpecOf, CalibrateAssumption DEF Abs, span
    <3>3. 100 * Abs(bad - good) <= Tol * span
      BY <3>1, <3>2, SMT
    <3>4. QED
      BY <3>3, Zenon DEF Near, span
  <2>3. QED
    BY <2>1, <2>2
<1>4. QED
  BY <1>2, <1>3, Zenon DEF Edge
\* The upper side is done: on to the lower.
LEMMA UpperEnds ==
    ASSUME CalInv, EndSide, at = "up", at' = "down"
    PROVE  CalInv'
<1>1. /\ top' = good /\ good' = seed /\ bad' = Spec[knob].low
      /\ UNCHANGED <<names, probes, rest, seed, out, tried, file>>
      /\ Open => Stuck
  <2>1. ~(at = "down")
    OBVIOUS
  <2>2. QED
    BY <2>1, Zenon DEF EndSide, Returned
<1>2. knob \in Knobs /\ knob' = knob /\ names # <<>>
  BY <1>1, KnobIs DEF knob
<1>3. /\ seed \in Int /\ good \in Int /\ bad \in Int /\ Built(tried[knob], seed)
      /\ Built(tried[knob], good)
      /\ Spec[knob].low <= seed /\ seed <= Spec[knob].high
      /\ seed <= good /\ good <= bad /\ bad <= Spec[knob].high
      /\ Built(tried[knob], MidPoint(knob)) => seed = MidPoint(knob)
  BY DEF CalInv, Bracketed, Sides, Inner, Far
<1>4. Spec[knob].low \in Int /\ Spec[knob].high \in Int
  BY <1>2, SpecOf
<1>5. probes < Budget => Edge(tried[knob], knob, "up", good)
  BY <1>1, SideEnds DEF Sides
<1>6. Control'
  <2>1. names' = names /\ at' = "down" /\ knob' = knob
    BY <1>1, <1>2
  <2>2. QED
    BY <1>2, <2>1 DEF CalInv, Control
<1>7. Spent'
  BY <1>1 DEF CalInv, Spent, Sides
<1>8. Bracketed'
  <2>1. {seed', good', bad'} \subseteq Int /\ at' = "down" /\ knob' = knob /\ tried' = tried
    BY <1>1, <1>2, <1>3, <1>4
  <2>2. /\ Inner(at', seed', good') /\ Inner(at', good', bad') /\ Inner(at', bad', Far(knob, at'))
        /\ bad' = Far(knob, at')
    BY <1>1, <1>3, <1>4, <2>1 DEF Inner, Far
  <2>3. /\ Built(tried'[knob'], seed') /\ Built(tried'[knob'], good')
        /\ Spec[knob'].low <= seed' /\ seed' <= Spec[knob'].high
        /\ Built(tried'[knob'], MidPoint(knob')) => seed' = MidPoint(knob')
    BY <1>1, <1>3, <2>1
  <2>4. /\ Built(tried'[knob'], top') /\ seed' <= top' /\ top' <= Spec[knob'].high
        /\ probes' < Budget => Edge(tried'[knob'], knob', "up", top')
    BY <1>1, <1>3, <1>4, <1>5, <2>1
  <2>5. QED
    BY <2>1, <2>2, <2>3, <2>4, Zenon DEF Bracketed
<1>9. \A k \in Numerics, side \in Sides : Searched(k, side)'
  <2> SUFFICES ASSUME NEW k \in Numerics, NEW side \in Sides, Built(tried[k], MidPoint(k))
               PROVE  \E P : /\ Path(tried[k], k, side, P)
                             /\ ("down" = side /\ knob = k) => <<seed, Spec[knob].low>> \in P
    BY <1>1, <1>2, Zenon DEF Searched
  <2>1. PICK P : Path(tried[k], k, side, P)
    BY Zenon DEF CalInv, Searched
  <2>2. <<MidPoint(k), Far(k, side)>> \in P
    BY <2>1, Zenon DEF Path
  <2>3. ("down" = side /\ knob = k) => <<seed, Spec[knob].low>> \in P
    BY <1>3, <2>2 DEF Far
  <2>4. QED
    BY <2>1, <2>3
<1>10. TriedType' /\ \A k \in Numerics : MidFirst(tried[k], k)'
  BY <1>1 DEF CalInv, TriedType
<1>11. Sound(tried, out)' /\ (file' \notin {NoFile, Torn} => Sound(tried', file'))
  BY <1>1 DEF CalInv
<1>12. QED
  BY <1>6, <1>7, <1>8, <1>9, <1>10, <1>11 DEF CalInv

\* The lower side is done, and with it the knob.
LEMMA LowerEnds ==
    ASSUME CalInv, at = "down", Open => Stuck, UNCHANGED <<tried, file>>,
           Done(Band(good, top, probes))
    PROVE  CalInv'
<1> DEFINE cal == Band(good, top, probes)
           t == tried[knob]
           k == knob
<1>1. at \notin {"idle", "save"} /\ at \in Sides
  BY DEF Sides
<1>2. k \in Knobs /\ Spec[k].kind # "choice" /\ k \in Numerics
  BY <1>1, KnobIs DEF CalInv, Control, Numerics
<1>3. /\ seed \in Int /\ good \in Int /\ bad \in Int /\ Built(t, seed) /\ Built(t, good)
      /\ good <= seed /\ bad <= good /\ Spec[k].low <= bad
      /\ Built(t, MidPoint(k)) => seed = MidPoint(k)
      /\ Built(t, top) /\ seed <= top /\ top <= Spec[k].high
      /\ probes < Budget => Edge(t, k, "up", top)
  BY <1>1 DEF CalInv, Bracketed, Inner, Far
<1>4. top \in Int /\ Spec[k].low \in Int /\ Spec[k].high \in Int
  BY <1>2, <1>3, SpecOf DEF CalInv, TriedType, Built
<1>5. probes < Budget => Edge(t, k, "down", good)
  BY <1>1, SideEnds
<1>6. MidPoint(k) \in DOMAIN t
  BY <1>2, <1>3 DEF CalInv, MidFirst, Built
<1>7. cal.low = good /\ cal.high = top /\ cal.probes = probes
  BY DEF Band
<1>8. probes \in Nat /\ (probes <= Budget \/ probes <= 5)
  BY <1>1 DEF CalInv, Spent
<1>9. Done(cal)
  OBVIOUS
<1> HIDE DEF cal, t
<1>10. GoodBand(t, k, cal)
  <2>1. t[MidPoint(k)] => good <= MidPoint(k) /\ MidPoint(k) <= top
    BY <1>3, <1>6 DEF Built
  <2>2. Spec[k].low <= good /\ good <= top
    BY <1>3, <1>4
  <2>3. QED
    BY <1>3, <1>5, <1>6, <1>7, <2>1, <2>2 DEF GoodBand
<1>11. cal.probes \in 0..MostProbes(k)
  BY <1>2, <1>7, <1>8, MostProbesIs, CalibrateAssumption
<1>12. UNCHANGED <<tried, file>>
  OBVIOUS
<1>13. QED
  BY <1>1, <1>9, <1>10, <1>11, <1>12, DoneStep DEF t
-----------------------------------------------------------------------------
(***************************************************************************)
(* Steps that probe.                                                       *)
(***************************************************************************)

\* What a probe leaves as it was.
LEMMA Probed ==
    ASSUME CalInv, NEW k \in Knobs, NEW v \in Int, NEW ok \in Verdicts(k, v),
           tried' = Learn(k, v, ok), UNCHANGED <<out, file>>
    PROVE  /\ TriedType' /\ Extends(tried[k], tried'[k], v)
           /\ tried'[k][v] = ok /\ ok \in BOOLEAN
           /\ \A j \in Knobs \ {k} : tried'[j] = tried[j]
           /\ Sound(tried, out)' /\ (file' \notin {NoFile, Torn} => Sound(tried', file'))
<1>1. TriedType
  BY DEF CalInv
<1>2. /\ TriedType'
      /\ \A x \in DOMAIN tried[k] : tried'[k][x] = tried[k][x]
      /\ \A j \in Knobs \ {k} : tried'[j] = tried[j]
      /\ DOMAIN tried'[k] = DOMAIN tried[k] \cup {v}
      /\ tried'[k][v] = ok /\ ok \in BOOLEAN
  BY <1>1, Learned
<1>3. Extends(tried[k], tried'[k], v)
  BY <1>2, Zenon DEF Extends
<1> DEFINE U == tried'
<1>4. U = tried'
  OBVIOUS
<1>5. Extends(tried[k], U[k], v) /\ \A j \in Knobs \ {k} : U[j] = tried[j]
  BY <1>2, <1>3
<1> HIDE DEF U
<1>6. Sound(tried, out) => Sound(U, out)
  BY <1>5, SoundKept
<1>7. Sound(tried, file) => Sound(U, file)
  BY <1>5, SoundKept
<1>8. Sound(U, out) /\ (file \notin {NoFile, Torn} => Sound(U, file))
  BY <1>6, <1>7 DEF CalInv
<1>9. Sound(tried, out)' /\ (file' \notin {NoFile, Torn} => Sound(tried', file'))
  BY <1>4, <1>8
<1>10. QED
  BY <1>2, <1>3, <1>9

\* The other knobs' probes and paths are as they were.
LEMMA OthersKept ==
    ASSUME CalInv, NEW k \in Knobs, \A j \in Knobs \ {k} : tried'[j] = tried[j],
           names' = names, knob = k
    PROVE  \A j \in Numerics \ {k} :
              MidFirst(tried'[j], j) /\ \A side \in Sides : Searched(j, side)'
<1> TAKE j \in Numerics \ {k}
<1>1. tried'[j] = tried[j] /\ knob' # j
  BY DEF Numerics, knob
<1>2. MidFirst(tried'[j], j)
  BY <1>1 DEF CalInv
<1>3. ASSUME NEW side \in Sides, Built(tried'[j], MidPoint(j))
      PROVE  \E P : Path(tried'[j], j, side, P)
  BY <1>1, <1>3, Zenon DEF CalInv, Searched
<1>4. \A side \in Sides : Searched(j, side)'
  BY <1>1, <1>3, Zenon DEF Searched
<1>5. QED
  BY <1>2, <1>4

\* A choice knob's value.
LEMMA ProbeChoiceStep ==
    ASSUME CalInv, ProbeChoice
    PROVE  CalInv'
<1>1. /\ at = "choices" /\ rest # <<>> /\ at' = at /\ names' = names
      /\ rest' = Tail(rest) /\ probes' = probes + 1 /\ UNCHANGED <<out, file>>
  BY DEF ProbeChoice
<1>2. PICK ok \in Verdicts(knob, Head(rest)) : tried' = Learn(knob, Head(rest), ok)
  BY DEF ProbeChoice
<1>3. knob \in Knobs /\ Spec[knob].kind = "choice" /\ names # <<>> /\ names \in Seq(Knobs)
  BY <1>1, KnobIs DEF CalInv, Control
<1>4. /\ rest \in Seq(Int) /\ probes \in Nat /\ probes + Len(rest) = Len(Spec[knob].values)
  BY <1>1 DEF CalInv, Spent
<1>5. Head(rest) \in Int /\ Tail(rest) \in Seq(Int) /\ Len(Tail(rest)) = Len(rest) - 1
      /\ Len(rest) \in Nat
  BY <1>1, <1>4
<1> DEFINE k == knob
           v == Head(rest)
<1>6. k \in Knobs /\ v \in Int /\ ok \in Verdicts(k, v) /\ tried' = Learn(k, v, ok)
  BY <1>2, <1>3, <1>5
<1>7. knob' = k
  BY <1>1 DEF knob
<1>8. k = knob
  OBVIOUS
<1> HIDE DEF k, v
<1>9. /\ TriedType' /\ \A j \in Knobs \ {k} : tried'[j] = tried[j]
      /\ Sound(tried, out)' /\ (file' \notin {NoFile, Torn} => Sound(tried', file'))
  BY <1>1, <1>6, Probed
<1>10. k \notin Numerics
  BY <1>3, <1>8 DEF Numerics
<1>11. \A j \in Numerics : MidFirst(tried'[j], j) /\ \A side \in Sides : Searched(j, side)'
  BY <1>1, <1>6, <1>8, <1>9, <1>10, OthersKept
<1>12. Control'
  BY <1>1, <1>3, <1>7, <1>8 DEF Control
<1>13. Spent'
  BY <1>1, <1>4, <1>5, <1>7, <1>8 DEF Spent, Sides
<1>14. Bracketed'
  BY <1>1 DEF Bracketed, Sides
<1>15. QED
  BY <1>9, <1>11, <1>12, <1>13, <1>14 DEF CalInv
\* The seed has been found.
LEMMA SeedFound ==
    ASSUME CalInv, at \in {"mid", "fallback"}, NEW v \in Limits(knob), v \in Int,
           NEW ok \in Verdicts(knob, v), ok, tried' = Learn(knob, v, ok),
           BisectFrom(v), UNCHANGED <<names, out, file>>,
           probes' = probes + 1, probes + 1 <= 5,
           MidFirst(tried'[knob], knob),
           Built(tried'[knob], MidPoint(knob)) => v = MidPoint(knob),
           \A side \in Sides : Built(tried'[knob], MidPoint(knob)) =>
              \E P : Path(tried'[knob], knob, side, P)
    PROVE  CalInv'
<1>k. PICK k \in Knobs : k = knob
  BY KnobIs
<1>1. k \in Knobs /\ names \in Seq(Knobs) /\ names # <<>> /\ Spec[k].kind # "choice"
  BY <1>k, KnobIs DEF CalInv, Control
<1>2. /\ at' = "up" /\ seed' = v /\ good' = v /\ bad' = Spec[k].high
      /\ names' = names /\ knob' = k
  BY <1>k DEF BisectFrom, knob
<1>3. ok \in Verdicts(k, v) /\ tried' = Learn(k, v, ok) /\ UNCHANGED <<out, file>>
  BY <1>k
<1>4. k = knob
  BY <1>k
<1>5. /\ MidFirst(tried'[k], k)
      /\ Built(tried'[k], MidPoint(k)) => v = MidPoint(k)
      /\ \A side \in Sides : Built(tried'[k], MidPoint(k)) =>
            \E P : Path(tried'[k], k, side, P)
      /\ v \in Limits(k)
  BY <1>k
<1>6. /\ TriedType' /\ Extends(tried[k], tried'[k], v) /\ tried'[k][v] = ok
      /\ \A j \in Knobs \ {k} : tried'[j] = tried[j]
      /\ Sound(tried, out)' /\ (file' \notin {NoFile, Torn} => Sound(tried', file'))
  BY <1>1, <1>3, Probed
<1>7. Built(tried'[k], v)
  BY <1>6 DEF Built, Extends
<1>8. Spec[k].low \in Int /\ Spec[k].high \in Int /\ Spec[k].low <= v /\ v <= Spec[k].high
  BY <1>1, <1>5, SpecOf DEF Limits
<1>9. Control'
  BY <1>1, <1>2 DEF Control
<1>10. Spent'
  <2>1. probes \in Nat
    BY DEF CalInv, Spent
  <2>2. QED
    BY <1>2, <2>1 DEF Spent, Sides
<1>11. Bracketed'
  <2>1. {seed', good', bad'} \subseteq Int
    BY <1>2, <1>8
  <2>2. /\ Inner(at', seed', good') /\ Inner(at', good', bad') /\ Inner(at', bad', Far(k, at'))
        /\ bad' = Far(k, at')
    BY <1>2, <1>8 DEF Inner, Far
  <2>3. /\ Built(tried'[k], seed') /\ Built(tried'[k], good')
        /\ Spec[k].low <= seed' /\ seed' <= Spec[k].high
        /\ Built(tried'[k], MidPoint(k)) => seed' = MidPoint(k)
    BY <1>2, <1>5, <1>7, <1>8
  <2>4. at' # "down"
    BY <1>2
  <2>5. QED
    BY <1>2, <2>1, <2>2, <2>3, <2>4, Zenon DEF Bracketed
<1>12. \A j \in Numerics \ {k} : MidFirst(tried'[j], j) /\ \A side \in Sides : Searched(j, side)'
  BY <1>1, <1>2, <1>4, <1>6, OthersKept
<1>13. ASSUME NEW side \in Sides PROVE Searched(k, side)'
  <2> SUFFICES ASSUME Built(tried'[k], MidPoint(k))
               PROVE  \E P : /\ Path(tried'[k], k, side, P)
                             /\ at' = side => <<good', bad'>> \in P
    BY <1>2, Zenon DEF Searched
  <2>1. PICK P : Path(tried'[k], k, side, P)
    BY <1>5
  <2>2. <<MidPoint(k), Far(k, side)>> \in P
    BY <2>1, Zenon DEF Path
  <2>3. at' = side => <<good', bad'>> \in P
    BY <1>2, <1>5, <2>2 DEF Far
  <2>4. QED
    BY <2>1, <2>3
<1>14. \A j \in Numerics : MidFirst(tried'[j], j) /\ \A side \in Sides : Searched(j, side)'
  <2> TAKE j \in Numerics
  <2>1. CASE j = k
    BY <1>5, <1>13, <2>1
  <2>2. CASE j # k
    BY <1>12, <2>2
  <2>3. QED
    BY <2>1, <2>2
<1>15. QED
  BY <1>6, <1>9, <1>10, <1>11, <1>14 DEF CalInv

\* The midpoint.
LEMMA ProbeMidStep ==
    ASSUME CalInv, ProbeMid
    PROVE  CalInv'
<1>1. /\ at = "mid" /\ probes' = probes + 1 /\ UNCHANGED <<names, out, file>>
  BY DEF ProbeMid
<1>k. PICK k \in Knobs : k = knob
  BY <1>1, KnobIs
<1>2. PICK v \in Points(k, Spec[k].low + Spec[k].high, 2) :
        \E ok \in Verdicts(k, v) :
          /\ tried' = Learn(k, v, ok)
          /\ \/ ok /\ BisectFrom(v)
             \/ ~ok /\ at' = "fallback" /\ rest' = Fallbacks(k) /\ UNCHANGED bracket
  BY <1>k, Zenon DEF ProbeMid
<1>3. PICK ok \in Verdicts(k, v) :
          /\ tried' = Learn(k, v, ok)
          /\ \/ ok /\ BisectFrom(v)
             \/ ~ok /\ at' = "fallback" /\ rest' = Fallbacks(k) /\ UNCHANGED bracket
  BY <1>2, Zenon
<1>4. /\ k \in Knobs /\ names \in Seq(Knobs) /\ names # <<>> /\ Spec[k].kind # "choice"
      /\ k \in Numerics /\ probes = 0
  BY <1>k, <1>1, KnobIs DEF CalInv, Control, Numerics, Spent
<1>5. v = MidPoint(k) /\ v \in Limits(k) /\ v \in Int
  BY <1>4, MidPointOnly
<1>6. k = knob /\ knob' = k
  BY <1>k, <1>1 DEF knob
<1>7. UNCHANGED <<out, file>>
  BY <1>1
<1>8. /\ TriedType' /\ Extends(tried[k], tried'[k], v) /\ tried'[k][v] = ok /\ ok \in BOOLEAN
      /\ \A j \in Knobs \ {k} : tried'[j] = tried[j]
      /\ Sound(tried, out)' /\ (file' \notin {NoFile, Torn} => Sound(tried', file'))
  BY <1>3, <1>4, <1>5, <1>7, Probed
<1>9. v \in DOMAIN tried'[k] /\ MidFirst(tried'[k], k)
  BY <1>2, <1>5, <1>8 DEF Extends, MidFirst
<1>10. CASE ok /\ BisectFrom(v)
  <2>1. ASSUME NEW side \in Sides PROVE \E P : Path(tried'[k], k, side, P)
    <3>1. CASE DOMAIN tried[k] = {}
      <4>1. DOMAIN tried'[k] = {MidPoint(k)} /\ tried'[k][MidPoint(k)]
        BY <1>5, <1>8, <1>10, <3>1 DEF Extends
      <4>2. QED
        BY <1>4, <1>5, <4>1, PathBegins
    <3>2. CASE DOMAIN tried[k] # {}
      <4>1. v \in DOMAIN tried[k]
        BY <1>4, <1>5, <3>2 DEF CalInv, MidFirst
      <4>2. Built(tried[k], MidPoint(k))
        BY <1>5, <1>8, <1>10, <4>1 DEF Built, Extends
      <4>3. PICK P : Path(tried[k], k, side, P)
        BY <1>4, <4>2, Zenon DEF CalInv, Searched
      <4>4. Path(tried'[k], k, side, P)
        BY <1>4, <1>8, <4>1, <4>3, PathKept
      <4>5. QED
        BY <4>4
    <3>3. QED
      BY <3>1, <3>2
  <2>2. /\ at \in {"mid", "fallback"} /\ v \in Limits(knob) /\ v \in Int
        /\ ok \in Verdicts(knob, v) /\ ok /\ tried' = Learn(knob, v, ok)
        /\ BisectFrom(v) /\ UNCHANGED <<names, out, file>> /\ probes' = probes + 1
    BY <1>1, <1>3, <1>5, <1>6, <1>10, Zenon
  <2>3. /\ MidFirst(tried'[knob], knob)
        /\ Built(tried'[knob], MidPoint(knob)) => v = MidPoint(knob)
        /\ \A side \in Sides : Built(tried'[knob], MidPoint(knob)) =>
              \E P : Path(tried'[knob], knob, side, P)
    BY <1>5, <1>6, <1>9, <2>1
  <2>4. probes + 1 <= 5
    BY <1>4
  <2>5. QED
    BY <2>2, <2>3, <2>4, SeedFound
<1>11. CASE ~ok /\ at' = "fallback" /\ rest' = Fallbacks(k) /\ UNCHANGED bracket
  <2>1. /\ Spec[k].low \in Int /\ Spec[k].high \in Int /\ Spec[k].low < Spec[k].high
    BY <1>4, SpecOf
  <2>2. rest' \in Seq((4 * Spec[k].low)..(4 * Spec[k].high)) /\ Len(rest') = 4
    <3> DEFINE l == Spec[k].low
               h == Spec[k].high
    <3>1. rest' = <<4 * l, 4 * h, 4 * l + (h - l), 4 * h - (h - l)>>
      BY <1>11, Zenon DEF Fallbacks
    <3>2. /\ 4 * l \in (4 * l)..(4 * h) /\ 4 * h \in (4 * l)..(4 * h)
          /\ 4 * l + (h - l) \in (4 * l)..(4 * h) /\ 4 * h - (h - l) \in (4 * l)..(4 * h)
      BY <2>1
    <3>3. \A S : \A a, b, c, d \in S : <<a, b, c, d>> \in Seq(S) /\ Len(<<a, b, c, d>>) = 4
      OBVIOUS
    <3> HIDE DEF l, h
    <3>4. rest' \in Seq((4 * l)..(4 * h)) /\ Len(rest') = 4
      BY <3>1, <3>2, <3>3
    <3>5. QED
      BY <3>4 DEF l, h
  <2>3. ~tried'[k][MidPoint(k)] /\ MidPoint(k) \in DOMAIN tried'[k]
    BY <1>5, <1>8, <1>9, <1>11
  <2>4. Control'
    BY <1>1, <1>4, <1>6, <1>11 DEF Control
  <2>5. Spent'
    BY <1>1, <1>4, <1>6, <1>11, <2>2, <2>3 DEF Spent, Sides
  <2>6. Bracketed'
    BY <1>11 DEF Bracketed, Sides
  <2>7. \A j \in Numerics \ {k} : MidFirst(tried'[j], j) /\ \A side \in Sides : Searched(j, side)'
    BY <1>1, <1>4, <1>6, <1>8, OthersKept
  <2>8. \A side \in Sides : Searched(k, side)'
    BY <2>3 DEF Searched, Built
  <2>9. \A j \in Numerics : MidFirst(tried'[j], j) /\ \A side \in Sides : Searched(j, side)'
    <3> TAKE j \in Numerics
    <3>1. CASE j = k
      BY <1>9, <2>8, <3>1
    <3>2. CASE j # k
      BY <2>7, <3>2
    <3>3. QED
      BY <3>1, <3>2
  <2>10. QED
    BY <1>8, <2>4, <2>5, <2>6, <2>9 DEF CalInv
<1>12. QED
  BY <1>3, <1>10, <1>11
\* A point of the fallback.
LEMMA ProbeFallbackStep ==
    ASSUME CalInv, ProbeFallback
    PROVE  CalInv'
<1>1. /\ at = "fallback" /\ rest # <<>> /\ probes' = probes + 1
      /\ UNCHANGED <<names, out, file>>
  BY DEF ProbeFallback
<1>k. PICK k \in Knobs : k = knob
  BY <1>1, KnobIs
<1>2. PICK v \in Points(k, Head(rest), 4) : \E ok \in Verdicts(k, v) :
          /\ tried' = Learn(k, v, ok)
          /\ \/ ok /\ BisectFrom(v)
             \/ ~ok /\ rest' = Tail(rest) /\ UNCHANGED <<at, bracket>>
  BY <1>k, Zenon DEF ProbeFallback
<1>3. PICK ok \in Verdicts(k, v) :
          /\ tried' = Learn(k, v, ok)
          /\ \/ ok /\ BisectFrom(v)
             \/ ~ok /\ rest' = Tail(rest) /\ UNCHANGED <<at, bracket>>
  BY <1>2, Zenon
<1>4. /\ names \in Seq(Knobs) /\ names # <<>> /\ Spec[k].kind # "choice"
      /\ k \in Numerics
  BY <1>k, <1>1, KnobIs DEF CalInv, Control, Numerics
<1> DEFINE R == (4 * Spec[k].low)..(4 * Spec[k].high)
<1>5. /\ rest \in Seq(R) /\ probes + Len(rest) = 5 /\ probes \in Nat
      /\ MidPoint(k) \in DOMAIN tried[k] /\ ~tried[k][MidPoint(k)]
  BY <1>k, <1>1 DEF CalInv, Spent
<1>6. Spec[k].low \in Int /\ Spec[k].high \in Int
  BY SpecOf
<1>7. /\ Head(rest) \in R /\ Tail(rest) \in Seq(R) /\ Len(rest) \in Nat \ {0}
      /\ Len(Tail(rest)) = Len(rest) - 1
  <2> HIDE DEF R
  <2> QED
    BY <1>1, <1>5
<1>8. v \in Limits(k) /\ v \in Int
  <2>1. /\ Head(rest) \in Int /\ 4 * Spec[k].low <= Head(rest)
        /\ Head(rest) <= 4 * Spec[k].high
    BY <1>6, <1>7
  <2>2. QED
    BY <2>1, PointsInLimits
<1>9. k = knob /\ knob' = k
  BY <1>k, <1>1 DEF knob
<1>10. UNCHANGED <<out, file>>
  BY <1>1
<1>11. /\ TriedType' /\ Extends(tried[k], tried'[k], v) /\ tried'[k][v] = ok /\ ok \in BOOLEAN
       /\ \A j \in Knobs \ {k} : tried'[j] = tried[j]
       /\ Sound(tried, out)' /\ (file' \notin {NoFile, Torn} => Sound(tried', file'))
  BY <1>3, <1>8, <1>10, Probed
<1>12. MidPoint(k) \in DOMAIN tried'[k] /\ ~tried'[k][MidPoint(k)]
  BY <1>5, <1>11 DEF Extends
<1>13. MidFirst(tried'[k], k)
  BY <1>4, <1>5, <1>12 DEF CalInv, MidFirst
<1>14. CASE ok /\ BisectFrom(v)
  <2>1. /\ at \in {"mid", "fallback"} /\ v \in Limits(knob) /\ v \in Int
        /\ ok \in Verdicts(knob, v) /\ ok /\ tried' = Learn(knob, v, ok)
        /\ BisectFrom(v) /\ UNCHANGED <<names, out, file>> /\ probes' = probes + 1
    BY <1>1, <1>3, <1>8, <1>9, <1>14, Zenon
  <2>2. /\ MidFirst(tried'[knob], knob)
        /\ Built(tried'[knob], MidPoint(knob)) => v = MidPoint(knob)
        /\ \A side \in Sides : Built(tried'[knob], MidPoint(knob)) =>
              \E P : Path(tried'[knob], knob, side, P)
    BY <1>9, <1>12, <1>13, Zenon DEF Built
  <2>3. probes + 1 <= 5
    BY <1>5, <1>7
  <2>4. QED
    BY <2>1, <2>2, <2>3, SeedFound
<1>15. CASE ~ok /\ rest' = Tail(rest) /\ UNCHANGED <<at, bracket>>
  <2>1. Control'
    BY <1>1, <1>4, <1>9, <1>15 DEF Control
  <2>2. Spent'
    <3>1. at' = "fallback" /\ probes' + Len(rest') = 5 /\ rest' \in Seq(R) /\ probes' \in Nat
      BY <1>1, <1>5, <1>7, <1>15
    <3>2. QED
      BY <1>9, <1>12, <3>1 DEF Spent, Sides
  <2>3. Bracketed'
    BY <1>1, <1>15 DEF Bracketed, Sides
  <2>4. \A j \in Numerics \ {k} : MidFirst(tried'[j], j) /\ \A side \in Sides : Searched(j, side)'
    BY <1>1, <1>9, <1>11, OthersKept
  <2>5. \A side \in Sides : Searched(k, side)'
    BY <1>12 DEF Searched, Built
  <2>6. \A j \in Numerics : MidFirst(tried'[j], j) /\ \A side \in Sides : Searched(j, side)'
    <3> TAKE j \in Numerics
    <3>1. CASE j = k
      BY <1>13, <2>5, <3>1
    <3>2. CASE j # k
      BY <2>4, <3>2
    <3>3. QED
      BY <3>1, <3>2
  <2>7. QED
    BY <1>11, <2>1, <2>2, <2>3, <2>6 DEF CalInv
<1>16. QED
  BY <1>3, <1>14, <1>15
\* A step of the bisection.
LEMMA NarrowStep ==
    ASSUME CalInv, Narrow
    PROVE  CalInv'
<1>1. /\ at \in Sides /\ Open /\ probes' = probes + 1
      /\ UNCHANGED <<at, names, rest, seed, top, out, file>>
  BY DEF Narrow, Sides
<1>k. PICK k \in Knobs : k = knob
  BY <1>1, KnobIs DEF Sides
<1> DEFINE x == Mid(k, good, bad)
<1>2. PICK ok \in Verdicts(k, x) :
          /\ tried' = Learn(k, x, ok)
          /\ good' = IF ok THEN x ELSE good
          /\ bad' = IF ok THEN bad ELSE x
  BY <1>k, Zenon DEF Narrow, mid
<1>3. /\ names \in Seq(Knobs) /\ names # <<>> /\ Spec[k].kind # "choice"
      /\ k \in Numerics
  BY <1>k, <1>1, KnobIs DEF CalInv, Control, Numerics, Sides
<1>4. k = knob /\ knob' = k
  BY <1>k, <1>1 DEF knob
<1>5. /\ seed \in Int /\ good \in Int /\ bad \in Int
      /\ Built(tried[k], seed) /\ Built(tried[k], good)
      /\ Spec[k].low <= seed /\ seed <= Spec[k].high
      /\ Inner(at, seed, good) /\ Inner(at, good, bad) /\ Inner(at, bad, Far(k, at))
      /\ bad \in {v \in DOMAIN tried[k] : ~tried[k][v]} \cup {Far(k, at)}
      /\ Built(tried[k], MidPoint(k)) => seed = MidPoint(k)
      /\ at = "down" =>
            /\ Built(tried[k], top) /\ seed <= top /\ top <= Spec[k].high
            /\ probes < Budget => Edge(tried[k], k, "up", top)
  BY <1>1, <1>4 DEF CalInv, Bracketed
<1>6. x \in Int /\ Inner(at, good, x) /\ Inner(at, x, bad)
  BY <1>1, <1>3, <1>5, MidInner
<1>7. Far(k, at) \in Int
  BY <1>1, <1>3, FarNumber
<1>8. Inner(at, seed, x) /\ Inner(at, x, Far(k, at))
  BY <1>1, <1>5, <1>6, <1>7, InnerOrder
<1> HIDE DEF x
<1>9. UNCHANGED <<out, file>>
  BY <1>1
<1>10. /\ TriedType' /\ Extends(tried[k], tried'[k], x) /\ tried'[k][x] = ok /\ ok \in BOOLEAN
       /\ \A j \in Knobs \ {k} : tried'[j] = tried[j]
       /\ Sound(tried, out)' /\ (file' \notin {NoFile, Torn} => Sound(tried', file'))
  BY <1>2, <1>6, <1>9, Probed
<1>11. /\ \A v : Built(tried[k], v) => Built(tried'[k], v)
       /\ \A v \in DOMAIN tried[k] : v \in DOMAIN tried'[k] /\ tried'[k][v] = tried[k][v]
       /\ x \in DOMAIN tried'[k]
  BY <1>10 DEF Extends, Built
<1>12. MidPoint(k) \in DOMAIN tried[k]
  BY <1>3, <1>5 DEF CalInv, MidFirst, Built
<1>13. MidFirst(tried'[k], k)
  BY <1>3, <1>11, <1>12 DEF CalInv, MidFirst
<1>14. Control'
  BY <1>1, <1>3, <1>4 DEF CalInv, Control
<1>15. Spent'
  <2>1. probes \in Nat /\ probes < Budget /\ Budget \in Nat
    BY <1>1, CalibrateAssumption DEF CalInv, Spent, Open
  <2>2. probes' \in Nat /\ probes' <= Budget
    BY <1>1, <2>1
  <2>3. at' \in Sides
    BY <1>1
  <2>4. QED
    BY <2>2, <2>3 DEF Spent, Sides
<1>16. Bracketed'
  <2>1. /\ at' = at /\ seed' = seed /\ top' = top /\ knob' = k
    BY <1>1, <1>4
  <2>2. /\ {seed', good', bad'} \subseteq Int
        /\ Inner(at', seed', good') /\ Inner(at', good', bad')
        /\ Inner(at', bad', Far(k, at'))
    <3>1. CASE ok
      BY <1>2, <1>5, <1>6, <1>8, <2>1, <3>1
    <3>2. CASE ~ok
      BY <1>2, <1>5, <1>6, <1>8, <2>1, <3>2
    <3>3. QED
      BY <3>1, <3>2
  <2>3. /\ Built(tried'[k], seed') /\ Built(tried'[k], good')
        /\ bad' \in {v \in DOMAIN tried'[k] : ~tried'[k][v]} \cup {Far(k, at')}
    <3>1. CASE ok
      BY <1>2, <1>5, <1>10, <1>11, <2>1, <3>1 DEF Built
    <3>2. CASE ~ok
      BY <1>2, <1>5, <1>10, <1>11, <2>1, <3>2 DEF Built
    <3>3. QED
      BY <3>1, <3>2
  <2>4. Built(tried'[k], MidPoint(k)) => seed' = MidPoint(k)
    BY <1>5, <1>11, <1>12, <2>1 DEF Built
  <2>5. at' = "down" =>
            /\ Built(tried'[k], top') /\ seed' <= top' /\ top' <= Spec[k].high
            /\ probes' < Budget => Edge(tried'[k], k, "up", top')
    <3> SUFFICES ASSUME at = "down"
                 PROVE  /\ Built(tried'[k], top) /\ seed <= top /\ top <= Spec[k].high
                        /\ probes' < Budget => Edge(tried'[k], k, "up", top)
      BY <2>1
    <3>1. probes' < Budget => probes < Budget
      BY <1>1, CalibrateAssumption DEF CalInv, Spent
    <3>2. Edge(tried[k], k, "up", top) => Edge(tried'[k], k, "up", top)
      BY <1>10, EdgeKept
    <3>3. QED
      BY <1>5, <1>11, <3>1, <3>2
  <2>6. Spec[k].low <= seed' /\ seed' <= Spec[k].high
    BY <1>5, <2>1
  <2>7. QED
    BY <2>1, <2>2, <2>3, <2>4, <2>5, <2>6, Zenon DEF Bracketed
<1>17. \A j \in Numerics \ {k} : MidFirst(tried'[j], j) /\ \A side \in Sides : Searched(j, side)'
  BY <1>1, <1>4, <1>10, OthersKept
<1>18. ASSUME NEW side \in Sides PROVE Searched(k, side)'
  <2> SUFFICES ASSUME Built(tried'[k], MidPoint(k))
               PROVE  \E P : /\ Path(tried'[k], k, side, P)
                             /\ at = side => <<good', bad'>> \in P
    BY <1>1, <1>4, Zenon DEF Searched
  <2>1. Built(tried[k], MidPoint(k)) /\ seed = MidPoint(k)
    BY <1>5, <1>11, <1>12 DEF Built
  <2>2. PICK P : /\ Path(tried[k], k, side, P)
                 /\ at = side => <<good, bad>> \in P
    BY <1>3, <1>4, <2>1, Zenon DEF CalInv, Searched
  <2>3. MidPoint(k) \in Int
    BY <1>5, <2>1
  <2>4. CASE at = side
    <3>1. <<good, bad>> \in P /\ DOMAIN tried[k] \subseteq Int
      BY <2>2, <2>4 DEF CalInv, TriedType
    <3> DEFINE t == tried[k]
               u == tried'[k]
               a == good
               b == bad
    <3>2. /\ Path(t, k, side, P) /\ <<a, b>> \in P /\ a \in Int /\ b \in Int
          /\ DOMAIN t \subseteq Int /\ Extends(t, u, Mid(k, a, b))
      BY <1>5, <1>10, <2>2, <3>1 DEF x
    <3> HIDE DEF t, u, a, b
    <3>3. PICK Q : Path(u, k, side, Q) /\ Half(u, k, <<a, b>>) \in Q
      BY <1>3, <2>3, <3>2, PathGoesOn
    <3>4. Half(u, k, <<a, b>>) = <<good', bad'>>
      <4>1. Half(u, k, <<a, b>>) = IF u[x] THEN <<x, b>> ELSE <<a, x>>
        BY DEF Half, x, a, b
      <4>2. CASE ok
        BY <1>2, <1>10, <4>1, <4>2 DEF a, b, u
      <4>3. CASE ~ok
        BY <1>2, <1>10, <4>1, <4>3 DEF a, b, u
      <4>4. QED
        BY <4>2, <4>3
    <3>5. QED
      BY <3>3, <3>4 DEF u
  <2>5. CASE at # side
    <3>1. x \in DOMAIN tried[k] \/ ~Inner(side, MidPoint(k), x)
      <4>1. x = seed \/ ~Inner(side, seed, x)
        BY <1>1, <1>5, <1>6, <1>8, <2>5 DEF Inner, Sides
      <4>2. QED
        BY <1>5, <2>1, <4>1 DEF Built
    <3>2. Path(tried'[k], k, side, P)
      BY <1>3, <1>10, <2>2, <3>1, PathKept
    <3>3. QED
      BY <2>5, <3>2
  <2>6. QED
    BY <2>4, <2>5
<1>19. \A j \in Numerics : MidFirst(tried'[j], j) /\ \A side \in Sides : Searched(j, side)'
  <2> TAKE j \in Numerics
  <2>1. CASE j = k
    BY <1>13, <1>18, <2>1
  <2>2. CASE j # k
    BY <1>17, <2>2
  <2>3. QED
    BY <2>1, <2>2
<1>20. QED
  BY <1>10, <1>14, <1>15, <1>16, <1>19 DEF CalInv
-----------------------------------------------------------------------------
(***************************************************************************)
(* The theorems.                                                           *)
(***************************************************************************)

LEMMA EndSideStep ==
    ASSUME CalInv, EndSide
    PROVE  CalInv'
<1>1. CASE at = "up" /\ at' = "down"
  BY <1>1, UpperEnds
<1>2. CASE at = "down" /\ Done(Band(Returned, top, probes))
  <2>1. (Open => Stuck) /\ UNCHANGED <<tried, file>>
    BY Zenon DEF EndSide
  <2>2. Done(Band(good, top, probes))
    BY <1>2, Zenon DEF Returned
  <2>3. QED
    BY <1>2, <2>1, <2>2, LowerEnds
<1>3. QED
  BY <1>1, <1>2, Zenon DEF EndSide

\* The invariant is inductive.
THEOREM CalInductive == CalSpec => []CalInv
<1>1. ASSUME CalInv, [Next]_calVars PROVE CalInv'
  <2>1. CASE \E ns \in Targets : Begin(ns)
    BY <1>1, <2>1, BeginStep
  <2>2. CASE ProbeChoice
    BY <1>1, <2>2, ProbeChoiceStep
  <2>3. CASE ChoicesDone
    BY <1>1, <2>3, ChoicesDoneStep
  <2>4. CASE ProbeMid
    BY <1>1, <2>4, ProbeMidStep
  <2>5. CASE ProbeFallback
    BY <1>1, <2>5, ProbeFallbackStep
  <2>6. CASE NothingBuilt
    BY <1>1, <2>6, NothingBuiltStep
  <2>7. CASE Refused
    <3>1. Gone /\ tried' = tried /\ file' \in {file, Torn}
      BY <2>7, Zenon DEF Refused
    <3>2. QED
      BY <1>1, <3>1, GoneStep
  <2>8. CASE Narrow
    BY <1>1, <2>8, NarrowStep
  <2>9. CASE EndSide
    BY <1>1, <2>9, EndSideStep
  <2>10. CASE Save
    <3>1. Gone /\ tried' = tried /\ file' = out
      BY <2>10, Zenon DEF Save
    <3>2. QED
      BY <1>1, <3>1, GoneStep
  <2>11. CASE Die
    <3>1. Gone /\ tried' = tried /\ file' \in {file, Torn}
      BY <2>11 DEF Die
    <3>2. QED
      BY <1>1, <3>1, GoneStep
  <2>12. CASE UNCHANGED calVars
    <3>1. /\ tried' = tried /\ at' = at /\ names' = names /\ probes' = probes
          /\ rest' = rest /\ seed' = seed /\ good' = good /\ bad' = bad /\ top' = top
          /\ out' = out /\ file' = file /\ knob' = knob
      BY <2>12 DEF calVars, bracket, knob
    <3>2. TriedType' /\ Control' /\ Spent' /\ Bracketed'
      BY <1>1, <3>1 DEF CalInv, TriedType, Control, Spent, Bracketed
    <3>3. \A k \in Numerics : MidFirst(tried[k], k)' /\ \A side \in Sides : Searched(k, side)'
      BY <1>1, <3>1, Zenon DEF CalInv, Searched
    <3>4. Sound(tried, out)' /\ (file' \notin {NoFile, Torn} => Sound(tried', file'))
      BY <1>1, <3>1 DEF CalInv
    <3>5. QED
      BY <3>2, <3>3, <3>4 DEF CalInv
  <2>13. QED
    BY <1>1, <2>1, <2>2, <2>3, <2>4, <2>5, <2>6, <2>7, <2>8, <2>9, <2>10, <2>11, <2>12
       DEF Next, Measuring
<1>2. QED
  BY CalInitHolds, <1>1, PTL DEF CalSpec

\* A calibration never leaves the nominal range and never overspends: the
\* budget, or the midpoint and its four fallbacks if those are more.
THEOREM CalTypeCorrect == CalSpec => []CalTypeOK
<1>1. ASSUME CalInv PROVE CalTypeOK
  <2>1. Control /\ Sound(tried, out)
    BY <1>1 DEF CalInv
  <2>2. ASSUME names # <<>> PROVE probes \in 0..MostProbes(knob)
    <3>1. at \notin {"idle", "save"}
      BY <2>1, <2>2 DEF Control
    <3>2. knob \in Knobs
      BY <1>1, <3>1, KnobIs
    <3>3. CASE at = "choices"
      <4>1. Len(rest) \in Nat /\ probes \in Nat /\ probes + Len(rest) = Len(Spec[knob].values)
        BY <1>1, <3>3 DEF CalInv, Spent
      <4>2. MostProbes(knob) = Len(Spec[knob].values)
        BY <2>1, <3>2, <3>3, MostProbesIs DEF Control
      <4>3. QED
        BY <4>1, <4>2
    <3>4. CASE at # "choices"
      <4>1. /\ MostProbes(knob) \in Int /\ MostProbes(knob) >= Budget /\ MostProbes(knob) >= 5
        BY <2>1, <3>1, <3>2, <3>4, MostProbesIs DEF Control
      <4>2. probes \in Nat /\ (probes <= Budget \/ probes <= 5)
        <5>1. CASE at = "mid"
          BY <1>1, <5>1 DEF CalInv, Spent
        <5>2. CASE at = "fallback"
          <6>1. Len(rest) \in Nat /\ probes + Len(rest) = 5 /\ probes \in Nat
            BY <1>1, <5>2 DEF CalInv, Spent
          <6>2. QED
            BY <6>1
        <5>3. CASE at \in Sides
          BY <1>1, <5>3 DEF CalInv, Spent
        <5>4. QED
          BY <2>1, <3>1, <3>4, <5>1, <5>2, <5>3 DEF Control, Sides
      <4>3. QED
        BY <4>1, <4>2, CalibrateAssumption
    <3>5. QED
      BY <3>3, <3>4
  <2>3. ASSUME at \in Sides PROVE {seed, good, bad} \subseteq Limits(knob)
    <3>1. knob \in Knobs
      BY <1>1, <2>3, KnobIs DEF Sides
    <3>2. Spec[knob].low \in Int /\ Spec[knob].high \in Int
      BY <3>1, SpecOf
    <3>3. /\ seed \in Int /\ good \in Int /\ bad \in Int
          /\ Spec[knob].low <= seed /\ seed <= Spec[knob].high
          /\ Inner(at, seed, good) /\ Inner(at, good, bad) /\ Inner(at, bad, Far(knob, at))
      BY <1>1, <2>3 DEF CalInv, Bracketed
    <3>4. QED
      BY <2>3, <3>2, <3>3 DEF Limits, Inner, Far, Sides
  <2>4. QED
    BY <2>1, <2>2, <2>3 DEF CalTypeOK, Control, Sound, Sides
<1>2. QED
  BY <1>1, CalInductive, PTL

\* Where the midpoint built, a value that failed lies outside a good band.
LEMMA FailuresOutside ==
    ASSUME CalInv, NEW k \in Numerics, NEW c, GoodBand(tried[k], k, c), MidBuilt(k),
           NEW v \in Failed(k)
    PROVE  v < c.low \/ c.high < v
<1> DEFINE t == tried[k]
           m == MidPoint(k)
<1>1. Built(t, m) /\ m \in Int
  BY MidPointOnly DEF MidBuilt, Built
<1>2. /\ DOMAIN t \subseteq Int /\ v \in DOMAIN t /\ ~t[v] /\ v \in Int
  BY DEF CalInv, TriedType, Failed, Numerics
<1>3. /\ c.low \in DOMAIN t /\ t[c.low] /\ c.high \in DOMAIN t /\ t[c.high]
      /\ c.low <= m /\ m <= c.high /\ c.low \in Int /\ c.high \in Int
  BY <1>1, <1>2 DEF GoodBand, Built
<1>4. ASSUME NEW side \in Sides
      PROVE  \E P : Path(t, k, side, P)
  BY <1>1, <1>4, Zenon DEF CalInv, Searched
<1> HIDE DEF t
<1>5. CASE m <= v
  <2>1. "up" \in Sides /\ Inner("up", m, v) /\ Inner("up", m, c.high)
    BY <1>3, <1>5 DEF Inner, Sides
  <2>2. PICK P : Path(t, k, "up", P)
    BY <1>4, <2>1
  <2>3. Inner("up", c.high, v) /\ c.high # v
    BY <1>1, <1>2, <1>3, <2>1, <2>2, PathSorts
  <2>4. QED
    BY <1>2, <1>3, <2>3 DEF Inner
<1>6. CASE v <= m
  <2>1. "down" \in Sides /\ Inner("down", m, v) /\ Inner("down", m, c.low)
    BY <1>3, <1>6 DEF Inner, Sides
  <2>2. PICK P : Path(t, k, "down", P)
    BY <1>4, <2>1
  <2>3. Inner("down", c.low, v) /\ c.low # v
    BY <1>1, <1>2, <1>3, <2>1, <2>2, PathSorts
  <2>4. QED
    BY <1>2, <1>3, <2>3 DEF Inner
<1>7. QED
  BY <1>1, <1>2, <1>5, <1>6

\* Whatever a driver loads, at any moment and after any deaths of the program
\* that measures: the ends of a calibrated range were built, lie in the
\* nominal one, and hold no value that failed where the midpoint built.
THEOREM BandsAreMeasured == CalSpec => []BandMeasured
<1>1. ASSUME CalInv PROVE BandMeasured
  <2> DEFINE p == LoadPolicy
  <2> SUFFICES ASSUME p # NoPolicy, NEW k \in Knobs, p[k].calibrated
               PROVE  /\ {p[k].low, p[k].high} \subseteq DOMAIN tried[k] \cap Limits(k)
                      /\ tried[k][p[k].low] /\ tried[k][p[k].high] /\ p[k].low <= p[k].high
                      /\ MidBuilt(k) => \A v \in Failed(k) : v < p[k].low \/ p[k].high < v
    BY Zenon DEF BandMeasured
  <2>1. file \notin {NoFile, Torn}
    BY DEF LoadPolicy, Nominal
  <2>2. p = Calibrated(file)
    BY <2>1 DEF LoadPolicy
  <2>3. /\ k \in DOMAIN file /\ Spec[k].kind # "choice" /\ file[k].measured
        /\ p[k].low = file[k].low /\ p[k].high = file[k].high
    BY <2>2 DEF Calibrated, Nominal
  <2>4. k \in Numerics /\ GoodBand(tried[k], k, file[k])
    BY <1>1, <2>1, <2>3 DEF CalInv, Sound, Numerics
  <2> HIDE DEF p
  <2> DEFINE c == file[k]
  <2>5. /\ c.low \in DOMAIN tried[k] /\ tried[k][c.low]
        /\ c.high \in DOMAIN tried[k] /\ tried[k][c.high]
        /\ Spec[k].low <= c.low /\ c.low <= c.high /\ c.high <= Spec[k].high
        /\ c.low \in Int /\ c.high \in Int
    BY <1>1, <2>4 DEF GoodBand, Built, CalInv, TriedType
  <2>6. c.low \in Limits(k) /\ c.high \in Limits(k)
    BY <2>5, SpecOf DEF Limits
  <2>7. MidBuilt(k) => \A v \in Failed(k) : v < c.low \/ c.high < v
    BY <1>1, <2>4, FailuresOutside
  <2>8. QED
    BY <2>3, <2>5, <2>6, <2>7
<1>2. QED
  BY <1>1, CalInductive, PTL

-----------------------------------------------------------------------------
(***************************************************************************)
(* The budget and the edges.  The two sides share the budget: the lower    *)
(* has what the upper did not need.                                        *)
(***************************************************************************)

\* What holds of 0, and of n if it holds of n - 1, holds up to N.
LEMMA UpTo ==
    ASSUME NEW N \in Nat, NEW S, 0 \in S,
           \A n \in 1..N : n - 1 \in S => n \in S
    PROVE  \A n \in 0..N : n \in S
<1> DEFINE P == {n \in 0..N : n \notin S}
           less == {ss \in Nat \X Nat : ss[1] < ss[2]}
<1>1. SUFFICES ASSUME P # {} PROVE FALSE
  OBVIOUS
<1>2. P \subseteq Nat
  OBVIOUS
<1>3. PICK n \in P : \A m \in P : ~ (<<m, n>> \in OpToRel(<, Nat))
  <2> HIDE DEF P
  <2> QED
    BY <1>1, <1>2, NatLessThanWellFounded, WFMin
<1>4. OpToRel(<, Nat) = less
  BY Zenon DEF OpToRel
<1>5. n \in 1..N /\ n - 1 \in 0..N /\ n - 1 \in P
  <2>1. n \in 0..N /\ n # 0
    BY <1>3
  <2>2. n \in 1..N
    BY <2>1
  <2>3. n - 1 \notin S
    BY <1>3, <2>2
  <2>4. QED
    BY <2>2, <2>3
<1>6. <<n - 1, n>> \in less
  BY <1>5
<1> HIDE DEF P, less
<1>7. QED
  BY <1>3, <1>4, <1>5, <1>6

\* The widths after 0, 1, .., N halvings.
Halving(f, k, N) ==
    f = [n \in 0..N |-> IF n = 0 THEN (Spec[k].high - Spec[k].low + 1) \div 2
                        ELSE (f[n - 1] + 1) \div 2]

LEMMA HalvingExists ==
    ASSUME NEW k, NEW N \in Nat
    PROVE  \E f : Halving(f, k, N)
<1> DEFINE S == {n \in 0..N : \E f : Halving(f, k, n)}
           first == (Spec[k].high - Spec[k].low + 1) \div 2
<1>1. 0 \in S
  <2>1. Halving([n \in 0..0 |-> first], k, 0)
    BY DEF Halving
  <2>2. QED
    BY <2>1
<1>2. ASSUME NEW n \in 1..N, n - 1 \in S PROVE n \in S
  <2>1. n - 1 \in Nat /\ n \in 0..N /\ n # 0
    OBVIOUS
  <2>2. PICK f : Halving(f, k, n - 1)
    BY <1>2
  <2> HIDE DEF first
  <2>3. \A i \in 0..(n - 1) : f[i] = IF i = 0 THEN first ELSE (f[i - 1] + 1) \div 2
    BY <2>2, <2>1 DEF Halving, first
  <2> DEFINE g == [i \in 0..n |-> IF i = n THEN (f[n - 1] + 1) \div 2 ELSE f[i]]
  <2>4. \A i \in 0..n : g[i] = IF i = 0 THEN first ELSE (g[i - 1] + 1) \div 2
    <3> TAKE i \in 0..n
    <3>1. CASE i = n
      BY <3>1, <2>1
    <3>2. CASE i # n
      <4>1. i \in 0..(n - 1) /\ (i # 0 => i - 1 \in 0..n /\ i - 1 # n)
        BY <3>2, <2>1
      <4>2. QED
        BY <3>2, <4>1, <2>3
    <3>3. QED
      BY <3>1, <3>2
  <2>5. g = [i \in 0..n |-> g[i]]
    OBVIOUS
  <2> HIDE DEF g
  <2>6. g = [i \in 0..n |-> IF i = 0 THEN first ELSE (g[i - 1] + 1) \div 2]
    BY <2>4, <2>5, Zenon
  <2>7. Halving(g, k, n)
    BY <2>6, Zenon DEF Halving, first
  <2>8. QED
    BY <2>1, <2>7
<1> HIDE DEF S
<1>3. N \in S
  BY <1>1, <1>2, UpTo
<1>4. QED
  BY <1>3 DEF S

\* A halving leaves no less than half.
LEMMA WidestHalves ==
    ASSUME NEW k \in Numerics
    PROVE  /\ \A n \in 0..Budget : Widest(k)[n] \in Int
           /\ Spec[k].high - Spec[k].low <= 2 * Widest(k)[0]
           /\ \A n \in 1..Budget : Widest(k)[n - 1] <= 2 * Widest(k)[n]
<1> DEFINE w == CHOOSE f : Halving(f, k, Budget)
           S == {n \in 0..Budget : w[n] \in Int}
<1>1. Widest(k) = w
  BY Zenon DEF Widest, Halving
<1>2. Budget \in Nat /\ Spec[k].high \in Int /\ Spec[k].low \in Int
  BY SpecOf, CalibrateAssumption DEF Numerics
<1>3. Halving(w, k, Budget)
  BY <1>2, HalvingExists, Zenon
<1> HIDE DEF w
<1>4. /\ w[0] = (Spec[k].high - Spec[k].low + 1) \div 2
      /\ \A n \in 1..Budget : w[n] = (w[n - 1] + 1) \div 2
  BY <1>2, <1>3 DEF Halving
<1>5. \A x \in Int : (x + 1) \div 2 \in Int /\ x <= 2 * ((x + 1) \div 2)
  BY SMT
<1>6. Spec[k].high - Spec[k].low \in Int
  BY <1>2
<1>7. 0 \in S
  BY <1>2, <1>4, <1>5, <1>6
<1>8. ASSUME NEW n \in 1..Budget, n - 1 \in S PROVE n \in S
  BY <1>2, <1>4, <1>5, <1>8
<1> HIDE DEF S
<1>9. \A n \in 0..Budget : n \in S
  BY <1>2, <1>7, <1>8, UpTo
<1>10. \A n \in 0..Budget : w[n] \in Int
  BY <1>9 DEF S
<1>11. Spec[k].high - Spec[k].low <= 2 * w[0]
  BY <1>4, <1>5, <1>6
<1>12. ASSUME NEW n \in 1..Budget PROVE w[n - 1] <= 2 * w[n]
  <2>1. n - 1 \in 0..Budget
    BY <1>2
  <2>2. QED
    BY <1>4, <1>5, <1>10, <2>1
<1>13. QED
  BY <1>1, <1>10, <1>11, <1>12

\* The bisections of this knob started where its nominal midpoint had built.
FromMiddle == Built(tried[knob], MidPoint(knob))

\* i halvings of this side's bracket and j of the other's have been paid for.
Paced(n) ==
    (at \in Sides /\ FromMiddle /\ Suffices(knob, n)) =>
        \E i, j \in 0..n : /\ probes = 1 + i + j
                           /\ at = "up" => j = 0
                           /\ Abs(bad - good) <= Widest(knob)[i]

UpperLocated ==
    (at = "down" /\ FromMiddle /\ Affordable(knob)) => Edge(tried[knob], knob, "up", top)

BandsLocated ==
    \A k \in DOMAIN out :
        (k \in Numerics /\ out[k].measured /\ tried[k][MidPoint(k)] /\ Affordable(k)) =>
            Edge(tried[k], k, "up", out[k].high) /\ Edge(tried[k], k, "down", out[k].low)

EdgeInv ==
    /\ \A n \in 0..Budget : Paced(n)
    /\ UpperLocated
    /\ BandsLocated

\* A bracket from the midpoint is no wider than the widest.
LEMMA FirstWidth ==
    ASSUME NEW k \in Numerics, NEW v \in Points(k, Spec[k].low + Spec[k].high, 2)
    PROVE  /\ Abs(Spec[k].high - v) <= Widest(k)[0]
           /\ Abs(Spec[k].low - v) <= Widest(k)[0]
<1>1. Spec[k].low \in Int /\ Spec[k].high \in Int /\ k \in Knobs
  BY SpecOf DEF Numerics
<1> DEFINE s == Spec[k].low + Spec[k].high
<1>2. v \in Int /\ v \in Limits(k) /\ 2 * Abs(v * 2 - s) <= 2
  <2>1. s \in Int
    BY <1>1
  <2>2. v \in Int /\ v \in Limits(k)
    BY MidPointOnly
  <2>3. CASE Spec[k].kind = "float"
    <3>1. v = Round(s, 2)
      BY <2>3 DEF Points
    <3> HIDE DEF s
    <3>2. 2 * Abs(Round(s, 2) * 2 - s) <= 2
      BY <2>1, RoundNear
    <3>3. QED
      BY <2>2, <3>1, <3>2
  <2>4. CASE Spec[k].kind # "float"
    <3>1. s % 2 = 0 /\ v = s \div 2
      BY <2>4 DEF Points
    <3> HIDE DEF s
    <3>2. s = v * 2
      BY <2>1, <2>2, <3>1, SMT
    <3>3. QED
      BY <2>1, <2>2, <3>2 DEF Abs
  <2>5. QED
    BY <2>2, <2>3, <2>4
<1>3. Widest(k)[0] \in Int /\ Spec[k].high - Spec[k].low <= 2 * Widest(k)[0]
  BY WidestHalves, CalibrateAssumption
<1>4. Spec[k].low <= v /\ v <= Spec[k].high
  BY <1>1, <1>2 DEF Limits
<1>5. QED
  BY <1>1, <1>2, <1>3, <1>4 DEF Abs

\* A halving more leaves a bracket no wider than the next width.
LEMMA NextWidth ==
    ASSUME NEW k \in Numerics, NEW a \in Int, NEW b \in Int,
           NEW i \in 0..Budget, i + 1 \in 0..Budget, Abs(b - a) <= Widest(k)[i]
    PROVE  /\ Abs(b - Mid(k, a, b)) <= Widest(k)[i + 1]
           /\ Abs(Mid(k, a, b) - a) <= Widest(k)[i + 1]
<1>1. PICK m \in Int : m = Mid(k, a, b) /\ 2 * Abs(m * 2 - (a + b)) <= 2
  BY RoundNear, RoundEvenNear DEF Mid
<1>2. Widest(k)[i] \in Int /\ Widest(k)[i + 1] \in Int
  BY WidestHalves
<1>3. Widest(k)[i] <= 2 * Widest(k)[i + 1]
  <2>1. i + 1 \in 1..Budget /\ (i + 1) - 1 = i
    BY CalibrateAssumption
  <2>2. Widest(k)[(i + 1) - 1] <= 2 * Widest(k)[i + 1]
    BY <2>1, WidestHalves
  <2>3. QED
    BY <2>1, <2>2
<1>4. QED
  BY <1>1, <1>2, <1>3 DEF Abs

\* A bracket that has been halved often enough is narrow enough.
LEMMA NarrowEnough ==
    ASSUME CalInv, at \in Sides, NEW n, Suffices(knob, n),
           Abs(bad - good) <= Widest(knob)[n]
    PROVE  Near(knob, good, bad) /\ (Open => Stuck)
<1>1. knob \in Knobs /\ knob \in Numerics
  BY KnobIs DEF CalInv, Control, Sides, Numerics
<1>2. good \in Int /\ bad \in Int /\ Inner(at, good, bad)
  BY DEF CalInv, Bracketed
<1>3. Spec[knob].low \in Int /\ Spec[knob].high \in Int /\ Tol \in Int
  BY <1>1, SpecOf, CalibrateAssumption
<1>4. Widest(knob)[n] \in Int
  BY <1>1, WidestHalves DEF Suffices
<1>5. Abs(bad - good) \in Int /\ span \in Int /\ Tol * span \in Int
  BY <1>2, <1>3 DEF Abs, span
<1>6. CASE 100 * Widest(knob)[n] <= Tol * (Spec[knob].high - Spec[knob].low)
  <2>1. 100 * Abs(bad - good) <= Tol * span
    BY <1>4, <1>5, <1>6 DEF span
  <2>2. Near(knob, good, bad)
    BY <2>1, Zenon DEF Near, span
  <2>3. ~Open
    BY <1>5, <2>1 DEF Open
  <2>4. QED
    BY <2>2, <2>3
<1>7. CASE Spec[knob].kind = "int" /\ Widest(knob)[n] <= 1
  <2>1. Abs(bad - good) <= 1
    BY <1>4, <1>5, <1>7
  <2>2. /\ mid \in Int
        /\ good <= bad => good <= mid /\ mid <= bad
        /\ bad <= good => bad <= mid /\ mid <= good
    BY <1>1, <1>2, MidBetween DEF mid
  <2>3. mid \in {good, bad}
    BY <1>2, <2>1, <2>2 DEF Abs
  <2>4. QED
    BY <1>7, <2>1, <2>3 DEF Near, Stuck
<1>8. QED
  BY <1>6, <1>7 DEF Suffices

\* A side that starts where the midpoint built ends at a located edge.
LEMMA SideLocated ==
    ASSUME CalInv, EdgeInv, at \in Sides, Open => Stuck,
           (FromMiddle /\ Affordable(knob)) \/ probes < Budget
    PROVE  Edge(tried[knob], knob, at, good)
<1>1. CASE probes < Budget
  BY <1>1, SideEnds
<1>2. CASE ~(probes < Budget)
  <2>1. PICK n \in 0..Budget : Suffices(knob, n)
    BY <1>2 DEF Affordable
  <2>2. PICK i \in 0..n, j \in 0..n :
            probes = 1 + i + j /\ Abs(bad - good) <= Widest(knob)[i]
    BY <1>2, <2>1 DEF EdgeInv, Paced
  <2>3. 1 + 2 * n <= Budget /\ Budget \in Nat
    BY <2>1, CalibrateAssumption DEF Suffices
  <2>4. i = n
    BY <1>2, <2>2, <2>3
  <2>5. Near(knob, good, bad)
    BY <2>1, <2>2, <2>4, NarrowEnough
  <2>6. /\ Inner(at, good, bad)
        /\ bad \in {v \in DOMAIN tried[knob] : ~tried[knob][v]} \cup {Far(knob, at)}
    BY DEF CalInv, Bracketed
  <2>7. QED
    BY <2>5, <2>6, Zenon DEF Edge
<1>3. QED
  BY <1>1, <1>2

\* Probing more takes no edge away.
LEMMA LocatedKept ==
    ASSUME CalInv, EdgeInv, NEW k \in Knobs, NEW x, Extends(tried[k], tried'[k], x),
           \A j \in Knobs \ {k} : tried'[j] = tried[j], UNCHANGED out
    PROVE  BandsLocated'
<1> SUFFICES ASSUME NEW j \in DOMAIN out, j \in Numerics, out[j].measured,
                    tried'[j][MidPoint(j)], Affordable(j)
             PROVE  /\ Edge(tried'[j], j, "up", out[j].high)
                    /\ Edge(tried'[j], j, "down", out[j].low)
  BY Zenon DEF BandsLocated
<1>1. GoodBand(tried[j], j, out[j]) /\ j \in Knobs
  BY DEF CalInv, Sound
<1>2. CASE j # k
  BY <1>1, <1>2 DEF EdgeInv, BandsLocated
<1>3. CASE j = k
  <2>1. MidPoint(j) \in DOMAIN tried[j]
    BY <1>1 DEF GoodBand
  <2>2. tried[j][MidPoint(j)]
    BY <1>3, <2>1, Zenon DEF Extends
  <2>3. Edge(tried[j], j, "up", out[j].high) /\ Edge(tried[j], j, "down", out[j].low)
    BY <2>2 DEF EdgeInv, BandsLocated
  <2>4. Extends(tried[j], tried'[j], x)
    BY <1>3
  <2>5. QED
    BY <2>3, <2>4, EdgeKept
<1>4. QED
  BY <1>2, <1>3

\* Off the bisections there is nothing to show of the bracket.
LEMMA OffSides ==
    ASSUME at' \notin Sides, BandsLocated'
    PROVE  EdgeInv'
<1>1. \A n \in 0..Budget : Paced(n)'
  BY Zenon DEF Paced
<1>2. UpperLocated'
  BY Zenon DEF UpperLocated, Sides
<1>3. QED
  BY <1>1, <1>2, Zenon DEF EdgeInv

LEMMA DoneOff ==
    ASSUME NEW cal, Done(cal), at \notin {"idle", "save"}, CalInv
    PROVE  /\ at' \notin Sides
           /\ out' = [k \in DOMAIN out \cup {knob} |-> IF k = knob THEN cal ELSE out[k]]
<1>1. Tail(names) \in Seq(Knobs)
  BY KnobIs
<1>2. /\ TakeUp(Tail(names))
      /\ out' = [k \in DOMAIN out \cup {knob} |-> IF k = knob THEN cal ELSE out[k]]
  BY Zenon DEF Done
<1>3. QED
  BY <1>1, <1>2, TakenUp

\* A knob is done that no band was measured for, or one whose edges are found.
LEMMA DoneLocated ==
    ASSUME CalInv, EdgeInv, at \notin {"idle", "save"}, UNCHANGED tried,
           NEW cal, Done(cal),
           (knob \in Numerics /\ cal.measured /\ tried[knob][MidPoint(knob)]
               /\ Affordable(knob)) =>
                  /\ Edge(tried[knob], knob, "up", cal.high)
                  /\ Edge(tried[knob], knob, "down", cal.low)
    PROVE  EdgeInv'
<1>1. /\ at' \notin Sides
      /\ out' = [k \in DOMAIN out \cup {knob} |-> IF k = knob THEN cal ELSE out[k]]
  BY DoneOff
<1>2. ASSUME NEW j \in DOMAIN out', j \in Numerics, out'[j].measured,
             tried[j][MidPoint(j)], Affordable(j)
      PROVE  /\ Edge(tried[j], j, "up", out'[j].high)
             /\ Edge(tried[j], j, "down", out'[j].low)
  <2>1. CASE j = knob
    <3>1. out'[j] = cal
      BY <1>1, <2>1
    <3>2. QED
      BY <1>2, <2>1, <3>1
  <2>2. CASE j # knob
    <3>1. j \in DOMAIN out /\ out'[j] = out[j]
      BY <1>1, <1>2, <2>2
    <3>2. QED
      BY <1>2, <3>1 DEF EdgeInv, BandsLocated
  <2>3. QED
    BY <2>1, <2>2
<1>3. BandsLocated'
  BY <1>2, Zenon DEF BandsLocated
<1>4. QED
  BY <1>1, <1>3, OffSides

\* The first bracket is that of the midpoint.
LEMMA ProbeMidEdges ==
    ASSUME CalInv, EdgeInv, ProbeMid
    PROVE  EdgeInv'
<1>1. /\ at = "mid" /\ probes' = probes + 1 /\ UNCHANGED <<names, out, file>>
  BY DEF ProbeMid
<1>k. PICK k \in Knobs : k = knob
  BY <1>1, KnobIs
<1>2. PICK v \in Points(k, Spec[k].low + Spec[k].high, 2), ok \in BOOLEAN :
          /\ ok \in Verdicts(k, v)
          /\ tried' = Learn(k, v, ok)
          /\ \/ ok /\ BisectFrom(v)
             \/ ~ok /\ at' = "fallback"
  <2>1. \A v : Verdicts(k, v) \subseteq BOOLEAN
    BY <1>k DEF Verdicts, CalInv, TriedType
  <2>2. QED
    BY <1>k, <2>1, Zenon DEF ProbeMid
<1>3. k \in Numerics /\ probes = 0 /\ knob' = k
  BY <1>k, <1>1, KnobIs DEF CalInv, Control, Numerics, Spent, knob
<1>4. v \in Int
  BY <1>3, MidPointOnly
<1>5. Extends(tried[k], tried'[k], v) /\ \A j \in Knobs \ {k} : tried'[j] = tried[j]
  BY <1>1, <1>2, <1>4, Probed
<1>6. BandsLocated'
  BY <1>1, <1>5, LocatedKept
<1>7. CASE ok /\ BisectFrom(v)
  <2>1. at' = "up" /\ good' = v /\ bad' = Spec[k].high
    BY <1>k, <1>7 DEF BisectFrom
  <2>2. Abs(bad' - good') <= Widest(k)[0]
    BY <1>3, <2>1, FirstWidth
  <2>3. ASSUME NEW n \in 0..Budget PROVE Paced(n)'
    <3>1. 0 \in 0..n /\ probes' = 1 + 0 + 0
      BY <1>1, <1>3
    <3>2. \E i, j \in 0..n : /\ probes' = 1 + i + j
                             /\ at' = "up" => j = 0
                             /\ Abs(bad' - good') <= Widest(k)[i]
      BY <2>2, <3>1
    <3>3. QED
      BY <1>3, <3>2, Zenon DEF Paced
  <2>4. UpperLocated'
    BY <2>1, Zenon DEF UpperLocated
  <2>5. QED
    BY <1>6, <2>3, <2>4, Zenon DEF EdgeInv
<1>8. CASE ~ok /\ at' = "fallback"
  BY <1>6, <1>8, OffSides DEF Sides
<1>9. QED
  BY <1>2, <1>7, <1>8

\* A bracket found by a fallback is not from the midpoint.
LEMMA ProbeFallbackEdges ==
    ASSUME CalInv, EdgeInv, ProbeFallback
    PROVE  EdgeInv'
<1>1. /\ at = "fallback" /\ rest # <<>> /\ probes' = probes + 1
      /\ UNCHANGED <<names, out, file>>
  BY DEF ProbeFallback
<1>k. PICK k \in Knobs : k = knob
  BY <1>1, KnobIs
<1>2. PICK v \in Points(k, Head(rest), 4) : \E ok \in Verdicts(k, v) :
          /\ tried' = Learn(k, v, ok)
          /\ \/ ok /\ BisectFrom(v)
             \/ ~ok /\ rest' = Tail(rest) /\ UNCHANGED <<at, bracket>>
  BY <1>k, Zenon DEF ProbeFallback
<1>3. PICK ok \in Verdicts(k, v) :
          /\ tried' = Learn(k, v, ok)
          /\ BisectFrom(v) \/ UNCHANGED at
  BY <1>2, Zenon
<1>4. /\ k \in Numerics /\ MidPoint(k) \in DOMAIN tried[k] /\ ~tried[k][MidPoint(k)]
      /\ knob' = k
  BY <1>k, <1>1, KnobIs DEF CalInv, Control, Numerics, Spent, knob
<1>5. v \in Int
  <2> DEFINE R == (4 * Spec[k].low)..(4 * Spec[k].high)
  <2>1. rest \in Seq(R)
    BY <1>k, <1>1 DEF CalInv, Spent
  <2> HIDE DEF R
  <2>2. Head(rest) \in R
    BY <1>1, <2>1
  <2>3. Spec[k].low \in Int /\ Spec[k].high \in Int
    BY SpecOf
  <2>4. /\ Head(rest) \in Int /\ 4 * Spec[k].low <= Head(rest)
        /\ Head(rest) <= 4 * Spec[k].high
    BY <2>2, <2>3 DEF R
  <2>5. QED
    BY <2>4, PointsInLimits
<1>6. Extends(tried[k], tried'[k], v) /\ \A j \in Knobs \ {k} : tried'[j] = tried[j]
  BY <1>1, <1>3, <1>5, Probed
<1>7. BandsLocated'
  BY <1>1, <1>6, LocatedKept
<1>8. ~FromMiddle'
  BY <1>4, <1>6 DEF FromMiddle, Built, Extends
<1>9. at' # "down"
  BY <1>1, <1>3 DEF BisectFrom
<1>10. QED
  BY <1>7, <1>8, <1>9, Zenon DEF EdgeInv, Paced, UpperLocated

\* A bracket that is not yet narrow enough is halved.
LEMMA NarrowEdges ==
    ASSUME CalInv, EdgeInv, Narrow
    PROVE  EdgeInv'
<1>1. /\ at \in Sides /\ Open /\ ~Stuck /\ probes' = probes + 1
      /\ UNCHANGED <<at, names, top, out, file>>
  BY DEF Narrow, Sides
<1>k. PICK k \in Knobs : k = knob
  BY <1>1, KnobIs DEF Sides
<1> DEFINE x == Mid(k, good, bad)
<1>2. PICK ok \in Verdicts(k, x) :
          /\ tried' = Learn(k, x, ok)
          /\ good' = IF ok THEN x ELSE good
          /\ bad' = IF ok THEN bad ELSE x
  BY <1>k, Zenon DEF Narrow, mid
<1>3. k \in Numerics /\ knob' = k
  BY <1>k, <1>1, KnobIs DEF CalInv, Control, Numerics, Sides, knob
<1>4. /\ good \in Int /\ bad \in Int /\ Built(tried[k], seed)
      /\ MidPoint(k) \in DOMAIN tried[k]
  BY <1>k, <1>1, <1>3 DEF CalInv, Bracketed, MidFirst, Built
<1>5. x \in Int
  BY <1>4, MidBetween
<1>6. /\ Extends(tried[k], tried'[k], x) /\ ok \in BOOLEAN
      /\ \A j \in Knobs \ {k} : tried'[j] = tried[j]
  BY <1>1, <1>2, <1>5, Probed
<1>7. BandsLocated'
  BY <1>1, <1>6, LocatedKept
<1>8. FromMiddle' => FromMiddle
  BY <1>k, <1>3, <1>4, <1>6, Zenon DEF FromMiddle, Built, Extends
<1>9. ASSUME NEW n \in 0..Budget, FromMiddle', Suffices(k, n)
      PROVE  \E i, j \in 0..n : /\ probes' = 1 + i + j
                                /\ at' = "up" => j = 0
                                /\ Abs(bad' - good') <= Widest(k)[i]
  <2>1. Suffices(knob, n) /\ FromMiddle
    BY <1>k, <1>8, <1>9
  <2>2. PICK i \in 0..n, j \in 0..n :
            /\ probes = 1 + i + j
            /\ at = "up" => j = 0
            /\ Abs(bad - good) <= Widest(knob)[i]
    BY <1>1, <2>1 DEF EdgeInv, Paced
  <2>3. i # n
    BY <1>1, <2>1, <2>2, NarrowEnough
  <2>4. i \in 0..Budget /\ i + 1 \in 0..Budget /\ i + 1 \in 0..n
    BY <2>3, CalibrateAssumption
  <2>5. /\ Abs(bad - x) <= Widest(k)[i + 1] /\ Abs(x - good) <= Widest(k)[i + 1]
    BY <1>k, <1>3, <1>4, <2>2, <2>4, NextWidth
  <2> HIDE DEF x
  <2>6. Abs(bad' - good') <= Widest(k)[i + 1]
    BY <1>2, <1>6, <2>5
  <2>7. probes' = 1 + (i + 1) + j
    BY <1>1, <2>2
  <2>8. QED
    BY <1>1, <2>2, <2>4, <2>6, <2>7
<1>10. \A n \in 0..Budget : Paced(n)'
  BY <1>3, <1>9, Zenon DEF Paced
<1>11. UpperLocated'
  <2>1. SUFFICES ASSUME at' = "down", FromMiddle', Affordable(k)
                 PROVE  Edge(tried'[k], k, "up", top)
    BY <1>1, <1>3, Zenon DEF UpperLocated
  <2>2. Edge(tried[k], k, "up", top)
    BY <1>k, <1>1, <1>8, <2>1 DEF EdgeInv, UpperLocated
  <2>3. QED
    BY <1>6, <2>2, EdgeKept
<1>12. QED
  BY <1>7, <1>10, <1>11, Zenon DEF EdgeInv

\* The lower side begins at the midpoint again, with what is left.
LEMMA EndSideEdges ==
    ASSUME CalInv, EdgeInv, EndSide
    PROVE  EdgeInv'
<1>1. at \in Sides /\ (Open => Stuck) /\ UNCHANGED <<tried, file>>
  BY Zenon DEF EndSide, Sides
<1>2. knob \in Knobs /\ knob \in Numerics
  BY <1>1, KnobIs DEF CalInv, Control, Sides, Numerics
<1>3. CASE at = "up"
  <2>1. /\ at' = "down" /\ top' = good /\ good' = seed /\ bad' = Spec[knob].low
        /\ UNCHANGED <<names, probes, out>>
    BY <1>3, Zenon DEF EndSide, Returned
  <2>2. knob' = knob /\ FromMiddle' = FromMiddle
    BY <1>1, <2>1 DEF knob, FromMiddle
  <2>3. UpperLocated'
    <3>1. FromMiddle /\ Affordable(knob) => Edge(tried[knob], knob, "up", good)
      BY <1>1, <1>3, SideLocated
    <3>2. QED
      BY <1>1, <2>1, <2>2, <3>1, Zenon DEF UpperLocated
  <2>4. ASSUME NEW n \in 0..Budget, FromMiddle, Suffices(knob, n)
        PROVE  \E i, j \in 0..n : /\ probes' = 1 + i + j
                                  /\ at' = "up" => j = 0
                                  /\ Abs(bad' - good') <= Widest(knob)[i]
    <3>1. PICK i \in 0..n : probes = 1 + i
      <4>1. PICK i \in 0..n, j \in 0..n : probes = 1 + i + j /\ j = 0
        BY <1>1, <1>3, <2>4 DEF EdgeInv, Paced
      <4>2. QED
        BY <4>1
    <3>2. seed = MidPoint(knob) /\ MidPoint(knob) \in DOMAIN tried[knob]
      BY <1>1, <2>4 DEF CalInv, Bracketed, FromMiddle, Built
    <3>3. MidPoint(knob) \in Points(knob, Spec[knob].low + Spec[knob].high, 2)
      BY <1>2, <3>2 DEF CalInv, MidFirst
    <3>4. Abs(bad' - good') <= Widest(knob)[0]
      BY <1>2, <2>1, <3>2, <3>3, FirstWidth
    <3>5. 0 \in 0..n /\ probes' = 1 + 0 + i /\ at' # "up"
      BY <2>1, <3>1
    <3>6. QED
      BY <3>1, <3>4, <3>5
  <2>5. \A n \in 0..Budget : Paced(n)'
    BY <2>2, <2>4, Zenon DEF Paced
  <2>6. BandsLocated'
    BY <1>1, <2>1, Zenon DEF EdgeInv, BandsLocated
  <2>7. QED
    BY <2>3, <2>5, <2>6, Zenon DEF EdgeInv
<1>4. CASE at = "down" /\ Done(Band(Returned, top, probes))
  <2> DEFINE cal == Band(Returned, top, probes)
  <2>1. cal.low = good /\ cal.high = top
    BY DEF Band, Returned
  <2>2. ASSUME tried[knob][MidPoint(knob)], Affordable(knob)
        PROVE  Edge(tried[knob], knob, "up", top) /\ Edge(tried[knob], knob, "down", good)
    <3>1. FromMiddle
      BY <1>1, <1>2, <2>2 DEF CalInv, Bracketed, MidFirst, FromMiddle, Built
    <3>2. Edge(tried[knob], knob, "down", good)
      BY <1>1, <1>4, <2>2, <3>1, SideLocated
    <3>3. QED
      BY <1>4, <2>2, <3>1, <3>2 DEF EdgeInv, UpperLocated
  <2>3. Done(cal)
    BY <1>4
  <2> HIDE DEF cal
  <2>4. at \notin {"idle", "save"} /\ UNCHANGED tried
    BY <1>1, <1>4
  <2>5. QED
    BY <2>1, <2>2, <2>3, <2>4, DoneLocated
<1>5. QED
  BY <1>1, <1>3, <1>4, Zenon DEF EndSide

\* With nothing in out and no bisection there is nothing to show.
LEMMA EmptyEdges ==
    ASSUME at' \notin Sides, out' = Empty
    PROVE  EdgeInv'
<1>1. BandsLocated'
  BY DEF BandsLocated, Empty
<1>2. QED
  BY <1>1, OffSides

LEMMA ProbeChoiceEdges ==
    ASSUME CalInv, EdgeInv, ProbeChoice
    PROVE  EdgeInv'
<1>1. at = "choices" /\ at' = at /\ rest # <<>> /\ UNCHANGED <<out, file>>
  BY DEF ProbeChoice
<1>2. PICK k \in Knobs : k = knob
  BY <1>1, KnobIs
<1>3. PICK ok \in Verdicts(k, Head(rest)) : tried' = Learn(k, Head(rest), ok)
  BY <1>2, Zenon DEF ProbeChoice
<1>4. Head(rest) \in Int
  BY <1>1 DEF CalInv, Spent
<1>5. /\ Extends(tried[k], tried'[k], Head(rest))
      /\ \A j \in Knobs \ {k} : tried'[j] = tried[j]
  BY <1>1, <1>3, <1>4, Probed
<1>6. BandsLocated'
  BY <1>1, <1>5, LocatedKept
<1>7. QED
  BY <1>1, <1>6, OffSides DEF Sides

\* Every edge of a measured band is located: within the budget, and whatever
\* is spent where the midpoint built and the budget affords both sides.
THEOREM EdgesAreLocated == CalSpec => []EdgesLocated
<1>1. CalInit => EdgeInv
  <2> SUFFICES ASSUME CalInit PROVE EdgeInv
    OBVIOUS
  <2>1. at = "idle" /\ out = Empty
    BY DEF CalInit
  <2>2. QED
    BY <2>1 DEF EdgeInv, Paced, UpperLocated, BandsLocated, Empty, Sides
<1>2. ASSUME CalInv, EdgeInv, [Next]_calVars PROVE EdgeInv'
  <2>1. ASSUME NEW ns \in Targets, Begin(ns) PROVE EdgeInv'
    <3>1. ns \in Seq(Knobs) /\ TakeUp(ns) /\ out' = Empty
      BY <2>1, CalibrateAssumption DEF Begin
    <3>2. QED
      BY <3>1, TakenUp, EmptyEdges
  <2>2. CASE ProbeChoice
    BY <1>2, <2>2, ProbeChoiceEdges
  <2>3. CASE ChoicesDone
    <3>1. /\ at = "choices" /\ UNCHANGED tried
          /\ \E cal : Done(cal)
      BY <2>3, Zenon DEF ChoicesDone
    <3>2. knob \notin Numerics
      BY <1>2, <3>1 DEF CalInv, Control, Numerics
    <3>3. QED
      BY <1>2, <3>1, <3>2, DoneLocated
  <2>4. CASE ProbeMid
    BY <1>2, <2>4, ProbeMidEdges
  <2>5. CASE ProbeFallback
    BY <1>2, <2>5, ProbeFallbackEdges
  <2>6. CASE NothingBuilt
    <3>1. at = "fallback" /\ UNCHANGED tried /\ Done(Nothing(probes))
      BY <2>6, Zenon DEF NothingBuilt
    <3>2. ~Nothing(probes).measured
      BY DEF Nothing
    <3>3. QED
      BY <1>2, <3>1, <3>2, DoneLocated
  <2>7. CASE Narrow
    BY <1>2, <2>7, NarrowEdges
  <2>8. CASE EndSide
    BY <1>2, <2>8, EndSideEdges
  <2>9. CASE Refused \/ Save \/ Die
    <3>1. Gone
      BY <2>9, Zenon DEF Refused, Save, Die
    <3>2. QED
      BY <3>1, AllGone, EmptyEdges
  <2>10. CASE UNCHANGED calVars
    <3>1. /\ tried' = tried /\ at' = at /\ probes' = probes /\ good' = good /\ bad' = bad
          /\ top' = top /\ out' = out /\ knob' = knob
      BY <2>10 DEF calVars, bracket, knob
    <3>2. (\A n \in 0..Budget : Paced(n)') /\ UpperLocated' /\ BandsLocated'
      BY <1>2, <3>1, Zenon DEF EdgeInv, Paced, UpperLocated, BandsLocated, FromMiddle
    <3>3. QED
      BY <3>2, Zenon DEF EdgeInv
  <2>11. QED
    BY <1>2, <2>1, <2>2, <2>3, <2>4, <2>5, <2>6, <2>7, <2>8, <2>9, <2>10
       DEF Next, Measuring
<1>3. CalSpec => []EdgeInv
  BY CalInductive, <1>1, <1>2, PTL DEF CalSpec
<1>4. ASSUME CalInv, EdgeInv, NEW k \in Numeric(out),
             out[k].probes < Budget \/ (MidBuilt(k) /\ Affordable(k))
      PROVE  Located(k, out[k])
  <2>1. k \in DOMAIN out /\ k \in Numerics /\ out[k].measured
    BY <1>4 DEF Numeric, CalInv, Sound, Numerics
  <2>2. GoodBand(tried[k], k, out[k])
    BY <1>4, <2>1 DEF CalInv, Sound
  <2>3. Edge(tried[k], k, "up", out[k].high) /\ Edge(tried[k], k, "down", out[k].low)
    <3>1. CASE out[k].probes < Budget
      BY <2>2, <3>1 DEF GoodBand
    <3>2. CASE MidBuilt(k) /\ Affordable(k)
      <4>1. tried[k][MidPoint(k)]
        BY <2>1, <3>2, MidPointOnly DEF MidBuilt
      <4>2. QED
        BY <1>4, <2>1, <3>2, <4>1 DEF EdgeInv, BandsLocated
    <3>3. QED
      BY <1>4, <3>1, <3>2
  <2>4. \E b \in Failed(k) \cup {Spec[k].high} : out[k].high <= b /\ Near(k, out[k].high, b)
    BY <2>3 DEF Edge, Inner, Far, Failed
  <2>5. \E b \in Failed(k) \cup {Spec[k].low} : b <= out[k].low /\ Near(k, out[k].low, b)
    BY <2>3 DEF Edge, Inner, Far, Failed
  <2>6. \A b \in Failed(k) \cup {Spec[k].high} : b \in Int /\ out[k].high \in Int
    BY <1>4, <2>1, <2>2, SpecOf DEF CalInv, TriedType, Failed, GoodBand, Built, Numerics
  <2>7. \E b \in Failed(k) \cup {Spec[k].high} : b >= out[k].high /\ Near(k, out[k].high, b)
    BY <2>4, <2>6
  <2>8. QED
    BY <2>5, <2>7 DEF Located
<1>5. CalInv /\ EdgeInv => EdgesLocated
  BY <1>4 DEF EdgesLocated
<1>6. QED
  BY <1>3, <1>5, CalInductive, PTL
=============================================================================
