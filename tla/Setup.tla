------------------------------- MODULE Setup -------------------------------
(***************************************************************************)
(* What surrogate_loop.py does before it asks a model for anything: build  *)
(* the shared placement and the default configuration, bring the declared  *)
(* artifacts to the driver, anchor the surrogate with K real runs          *)
(* (swiftcts.py) and rank a grid of configurations once.  Each run of the  *)
(* flow succeeds or not; what it returns is WorkHome's and CandidateTree's *)
(* matter.                                                                 *)
(*                                                                         *)
(* Knob values are in units of 1/10000, the calibration's precision; the   *)
(* screen rounds to three decimals, ten of these units.                    *)
(***************************************************************************)
EXTENDS Integers, SequencesExt

CONSTANTS
    Ks,       \* what --k-shot may be
    Metrics,  \* the clock figures a scale factor is computed for
    Required, \* surrogate.requires
    Names,    \* the policy's CTS knobs, sorted
    Policy,   \* CTS knob -> [kind, low, high], as load_policy gives it
    Domain,   \* CTS knob -> [low, high] the model was fitted over (TRAINED_DOMAIN)
    PerAxis,  \* grid points per knob; 6 in the code
    WorstScore, \* predictions of the objective are 0..WorstScore, lower is better
    Tol       \* scores no further apart tie

Unit == 10000

\* The bounds of an int knob, nominal or calibrated, are whole, and so are those
\* it was fitted over.
ASSUME SetupAssumption ==
    /\ Ks \subseteq Nat /\ PerAxis \in Nat \ {0, 1} /\ Tol \in Nat /\ WorstScore \in Nat
    /\ Names \in Seq(STRING)
    /\ Policy \in [Range(Names) -> [kind : {"int", "float"}, low : Int, high : Int]]
    /\ Domain \in [Range(Names) -> [low : Int, high : Int]]
    /\ \A name \in DOMAIN Domain :
          /\ Domain[name].low < Domain[name].high
          /\ Policy[name].kind = "int" =>
                /\ Policy[name].low % Unit = 0 /\ Policy[name].high % Unit = 0
                /\ Domain[name].low % Unit = 0 /\ Domain[name].high % Unit = 0

VARIABLES
    step,    \* where main() is
    k,       \* --k-shot
    fmax,    \* did the placement's metrics hold an fmax
    truths,  \* the anchors that built: [of, measured]
    preds,   \* and what had been predicted: [of, scaled]
    tries,   \* anchors tried so far
    factors, \* the scale factors the model holds
    kShot,   \* surrogate.k_shot
    queue,   \* _break_ties: what is still to be looked at, best first
    group,   \* what ties with each other
    current, \* and with what
    ranked   \* screen["ranked"]: [knobs, score]

setupVars == <<step, k, fmax, truths, preds, tries, factors, kShot,
               queue, group, current, ranked>>

anchorVars == <<k, fmax, truths, preds, tries, factors, kShot>>
screenVars == <<queue, group, current, ranked>>

SetupInit ==
    /\ step = "start" /\ k \in Ks /\ fmax = FALSE
    /\ truths = <<>> /\ preds = <<>> /\ tries = 0
    /\ factors = {} /\ kShot = 0
    /\ queue = <<>> /\ group = <<>> /\ current = 0 /\ ranked = <<>>

-----------------------------------------------------------------------------
\* The shared placement.  A tree that an earlier session has finished already
\* has a final report.
Place ==
    /\ step = "start"
    /\ step' \in {"placed", "stopped"}
    /\ fmax' \in IF step' = "placed" THEN BOOLEAN ELSE {FALSE}
    /\ UNCHANGED <<k, truths, preds, tries, factors, kShot, screenVars>>

\* _clock_period: read off its file, or the placement's metrics.
PeriodKnown(arts) == "clock_period" \in arts \/ fmax

\* surrogate.calibrate, with the artifacts it needs: it raises without a clock
\* period, and is over when no anchors are asked for.
Calibrating(arts) ==
    IF ~PeriodKnown(arts) THEN "raised" ELSE IF k = 0 THEN "screen" ELSE "anchors"

\* The default configuration, in the same tree; the session goes on if it
\* fails.  Then the artifacts, of which those of Required must have arrived.
\* The metrics are not used again.
Register ==
    /\ step = "placed"
    /\ \E arts \in SUBSET (Required \cup {"clock_period"}) :
          step' = IF Required \subseteq arts THEN Calibrating(arts) ELSE "stopped"
    /\ fmax' = FALSE
    /\ UNCHANGED <<k, truths, preds, tries, factors, kShot, screenVars>>

-----------------------------------------------------------------------------
\* _anchor_knobs: the centre first, then points from a quarter of the way to
\* three quarters.  A value of an anchor is a quotient by 4 * Spread.
Spread == IF k > 2 THEN k - 2 ELSE 1

AnchorTimes(n, name) ==
    LET d == Domain[name]
    IN  IF n = 1 THEN 2 * Spread * (d.low + d.high)
        ELSE 4 * Spread * d.low + (Spread + 2 * (n - 2)) * (d.high - d.low)

\* _coerce refuses an int knob's value that is not whole.
Whole(n) ==
    \A name \in DOMAIN Domain :
        Policy[name].kind = "int" => AnchorTimes(n, name) % (4 * Spread * Unit) = 0

\* One anchor: predict, build, and keep both if it built.  The clock may not
\* have been measured, or only in part.
RunAnchor ==
    /\ step = "anchors" /\ tries < k /\ Whole(tries + 1)
    /\ tries' = tries + 1
    /\ \/ UNCHANGED <<truths, preds>>
       \/ \E m \in SUBSET Metrics :
             /\ truths' = Append(truths, [of |-> tries', measured |-> m])
             /\ preds' = Append(preds, [of |-> tries', scaled |-> factors # {}])
    /\ UNCHANGED <<step, k, fmax, factors, kShot, screenVars>>

\* run_stage raises on the anchor, and nothing between here and main() catches.
AnchorRaises ==
    /\ step = "anchors" /\ tries < k /\ ~Whole(tries + 1)
    /\ step' = "raised"
    /\ UNCHANGED <<anchorVars, screenVars>>

\* Mutant: every anchor that built counts.
ClaimedAlways(applied) == Len(truths)

\* k_shot: 0 when no factor could be computed.
Claimed(applied) == IF applied = {} THEN 0 ELSE Len(truths)

\* zip(truths, preds): one factor for each figure that was measured.
Anchor ==
    /\ step = "anchors" /\ tries = k
    /\ factors' = UNION {{[metric |-> m, truth |-> truths[i].of, pred |-> preds[i]] :
                             m \in truths[i].measured} : i \in DOMAIN truths}
    /\ kShot' = Claimed(factors')
    /\ step' = "screen"
    /\ UNCHANGED <<k, fmax, truths, preds, tries, screenVars>>

-----------------------------------------------------------------------------
\* "never screen outside the training domain"
Clip(name) ==
    [low  |-> Max({Policy[name].low, Domain[name].low}),
     high |-> Min({Policy[name].high, Domain[name].high})]

\* round: the multiple of u nearest to n/d, the even one if two are.
RoundTo(n, d, u) ==
    LET below == u * (n \div (d * u))
        rest  == 2 * (n - below * d)
    IN  IF rest > u * d \/ (rest = u * d /\ (below \div u) % 2 = 1) THEN below + u ELSE below

\* The i-th value of a knob's axis: three decimals, none for an int knob.
Point(name, i) ==
    LET c     == Clip(name)
        value == RoundTo(c.low * (PerAxis - 1) + i * (c.high - c.low), PerAxis - 1, 10)
    IN  IF Policy[name].kind = "int" THEN RoundTo(value, 1, Unit) ELSE value

\* A knob without room is left out; without any there is nothing to screen.
Screened == {name \in DOMAIN Policy : Clip(name).low < Clip(name).high}

Grid ==
    IF Screened = {} THEN {}
    ELSE {[name \in Screened |-> Point(name, axis[name])] : axis \in [Screened -> 0..(PerAxis - 1)]}

\* _break_ties: the square of the distance of two configurations, each knob
\* scaled by its span in the ranking (it holds the whole grid), in thousandths.
Span ==
    [name \in Screened |->
        LET span == Point(name, PerAxis - 1) - Point(name, 0)
        IN  IF span = 0 THEN Unit ELSE span]

Dist(a, b) ==
    MapThenSumSet(LAMBDA name :
        ((1000 * Max({a[name] - b[name], b[name] - a[name]})) \div Span[name])^2, Screened)

\* itertools.product: the first knob varies slowest.
Before(g, h) ==
    \E i \in DOMAIN Names : /\ Names[i] \in Screened /\ g[Names[i]] < h[Names[i]]
                            /\ \A j \in 1..(i - 1) : Names[j] \in Screened => g[Names[j]] = h[Names[j]]

\* build_screen: predict for the grid, one after the other, and sort: best
\* first, equal predictions in the order of the grid.
Predict ==
    /\ step = "screen"
    /\ \E g \in Grid, score \in 0..WorstScore :
          /\ Cardinality({h \in Grid : Before(h, g)}) = Len(queue)
          /\ \E p \in 1..(Len(queue) + 1) :
                /\ \A i \in DOMAIN queue : i < p <=> queue[i].score <= score
                /\ queue' = InsertAt(queue, p, [knobs |-> g, score |-> score])
    /\ UNCHANGED <<step, anchorVars, group, current, ranked>>

Predicted ==
    /\ step = "screen" /\ Len(queue) = Cardinality(Grid)
    /\ step' = "ranking"
    /\ UNCHANGED <<anchorVars, screenVars>>

\* Mutant: a tie is with the one before, not with the first of the group.
TiesChained ==
    queue # <<>> /\ group # <<>> /\ Head(queue).score - Last(group).score <= Tol

Ties == queue # <<>> /\ group # <<>> /\ Head(queue).score - current <= Tol

\* _break_ties: the next one joins the group, or starts one.
Join ==
    /\ step = "ranking" /\ queue # <<>>
    /\ group = <<>> \/ Ties
    /\ current' = IF group = <<>> THEN Head(queue).score ELSE current
    /\ group' = Append(group, Head(queue))
    /\ queue' = Tail(queue)
    /\ UNCHANGED <<step, anchorVars, ranked>>

\* flush: out of a group that is complete goes first what is furthest from all
\* that is out already; of several, the first.
Furthest ==
    LET gap(x) == Min({Dist(x.knobs, ranked[j].knobs) : j \in DOMAIN ranked})
        gaps   == [i \in DOMAIN group |-> gap(group[i])]
    IN  IF ranked = <<>> THEN 1
        ELSE Min({i \in DOMAIN group : gaps[i] = Max({gaps[j] : j \in DOMAIN group})})

Flush ==
    /\ step = "ranking" /\ group # <<>> /\ ~Ties
    /\ \E i \in DOMAIN group :
          /\ i = Furthest
          /\ ranked' = Append(ranked, group[i])
          /\ group' = RemoveAt(group, i)
    /\ UNCHANGED <<step, anchorVars, queue, current>>

Ranked ==
    /\ step = "ranking" /\ queue = <<>> /\ group = <<>>
    /\ step' = "screened"
    /\ UNCHANGED <<anchorVars, screenVars>>

\* Ray gives up on a call of the worker: nothing in main() catches it.
WorkerLost ==
    /\ step \in {"start", "placed"} \/ (step = "anchors" /\ tries < k)
    /\ step' = "raised"
    /\ UNCHANGED <<anchorVars, screenVars>>

SetupNext ==
    \/ Place \/ Register \/ RunAnchor \/ AnchorRaises \/ Anchor \/ WorkerLost
    \/ Predict \/ Predicted \/ Join \/ Flush \/ Ranked

-----------------------------------------------------------------------------
\* Each scale factor compares a measurement with what had been predicted for
\* the same anchor, by the model as it was before any factor; and k_shot is
\* positive exactly when the model holds a factor, whether the anchor failed or
\* was measured in part ("an uncalibrated model that claims to be anchored is
\* worse than one that admits it is not").
CalibrationHonest ==
    /\ \A f \in factors : f.pred.of = f.truth /\ ~f.pred.scaled
    /\ kShot > 0 <=> factors # {}

\* _anchor_knobs says "One anchor sits at the centre; more spread outward, so a
\* K>1 budget samples the domain", and an anchor that fails is to be skipped:
\* each of them is a configuration run_stage takes.
AnchorsAccepted == step = "anchors" /\ tries < k => Whole(tries + 1)

\* The ranking holds every configuration of the grid once, none comes before
\* one that is predicted better than it by more than a tie, and no value
\* leaves the policy's range or the fitted one by more than the rounding to
\* three decimals.
ScreenSound ==
    step = "screened" =>
        /\ Len(ranked) = Cardinality(Grid)
        /\ {ranked[i].knobs : i \in DOMAIN ranked} = Grid
        /\ \A i, j \in DOMAIN ranked : i < j => ranked[i].score <= ranked[j].score + Tol
        /\ \A i \in DOMAIN ranked : \A name \in Screened :
              LET v == ranked[i].knobs[name]
                  p == Policy[name]
                  d == Domain[name]
              IN  /\ v >= p.low - 5 /\ v <= p.high + 5
                  /\ v >= d.low - 5 /\ v <= d.high + 5
=============================================================================
