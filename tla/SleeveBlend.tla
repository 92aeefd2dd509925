------------------------------ MODULE SleeveBlend ------------------------------
(* Several strategies as sleeves of one portfolio (research/backtest/portfolio  *)
(* .py): their equity curves are blended at fixed weights, the weights are      *)
(* searched for, and the search is validated on windows it has not seen (also   *)
(* walk_forward.py, which validates one strategy the same way).                 *)
(*                                                                              *)
(* A number is a fraction <<n, d>>; a curve is a function from the days it has  *)
(* to fractions.  A year has YearDays days, and leap days are left out.  What a *)
(* trial scores is external: the engine and the metrics decide it.              *)
EXTENDS Integers, Sequences, SequencesExt, FiniteSetsExt

CONSTANTS
    SleeveIds,      \* the sleeves 1..n
    Navs,           \* curves tried for the sleeves: functions from days to positive integers
    WeightsTried,   \* functions from the sleeves to naturals, not all 0
    RatesTried,     \* USDKRW closes tried: functions from days to positive integers
    Dollar,         \* the sleeves of a US universe
    PeriodOf(_),    \* the month, quarter or year of a day
    Cap,            \* max_weight in percent, 100 for none
    YearDays, TrainYears, TestYears, StepYears,
    Spans,          \* periods of the strategies tried: first and last day
    FailedScore,    \* the score of a refused trial, below every other one
    Trials          \* bound: the trials of a search

ASSUME BlendAssumption ==
    /\ YearDays \in Nat \ {0} /\ TrainYears \in Nat \ {0}
    /\ TestYears \in Nat \ {0} /\ StepYears \in Nat \ {0}
    /\ Trials \in Nat \ {0} /\ Cap \in 1..100 /\ FailedScore < 1

VARIABLES
    navs,        \* the equity curves of the sleeves
    weights,     \* the caller's weights
    rates,       \* USDKRW, the empty function for none
    rebalance,   \* reset to the weights at the start of a period, or buy and hold
    blended,     \* the portfolio's curve, the empty function before it is computed
    span,        \* first and last day of the strategies
    trainStart,  \* of the next fold
    folds        \* the folds done: windows and weights

blendVars == <<navs, weights, rates, rebalance, blended, span, trainStart, folds>>

\* Fractions of naturals, in lowest terms.
Gcd[p \in Nat \X Nat] == IF p[2] = 0 THEN p[1] ELSE Gcd[<<p[2], p[1] % p[2]>>]
Lowest(n, d) == <<n \div Gcd[<<n, d>>], d \div Gcd[<<n, d>>]>>
Plus(a, b) == Lowest(a[1] * b[2] + b[1] * a[2], a[2] * b[2])
Times(a, b) == Lowest(a[1] * b[1], a[2] * b[2])
Over(a, b) == Lowest(a[1] * b[2], a[2] * b[1])
Same(a, b) == a[1] * b[2] = b[1] * a[2]
One == <<1, 1>>
Total(f, S) == FoldSet(LAMBDA s, sum : Plus(f[s], sum), <<0, 1>>, S)

-----------------------------------------------------------------------------
(* Blending.                                                                  *)

\* normalize_curve
NormalizeCurve(nav) == [d \in DOMAIN nav |-> <<nav[d], nav[Min(DOMAIN nav)]>>]

\* _normalize_weights
NormalizeWeights(w) == LET sum == MapThenSumSet(LAMBDA s : w[s], SleeveIds)
                       IN [s \in SleeveIds |-> <<w[s], sum>>]

\* apply_krw_view: days before the first rate are dropped, later ones take the
\* newest rate known.
ApplyKrwView(curve, fx) ==
    LET known(d) == {e \in DOMAIN fx : e <= d}
        days == {d \in DOMAIN curve : known(d) # {}}
        rate(d) == fx[Max(known(d))]
    IN IF DOMAIN fx = {} \/ days = {} THEN curve
       ELSE [d \in days |-> Times(curve[d], <<rate(d), rate(Min(days))>>)]

\* The days every curve has.
Aligned(curves) == {d \in DOMAIN curves[1] : \A s \in SleeveIds : d \in DOMAIN curves[s]}

\* What the weighted sleeves are worth at d relative to day e.
Weighted(curves, w, d, e) == Total([s \in SleeveIds |-> Times(w[s], Over(curves[s][d], curves[s][e]))],
                                   SleeveIds)

\* Mutant of OpeningDay: a period is measured from the first day of all.
OpeningOfAll(days, d) == Min(days)

\* The day from which the return at d is measured: group.iloc[0].
OpeningDay(days, d) == Min({e \in days : PeriodOf(e) = PeriodOf(d)})

\* blend_curves.  The value carried into a period is that of the last day before it.
BlendCurves(curves, w, reset) ==
    LET days == Aligned(curves)
        earlier(d) == {e \in days : PeriodOf(e) < PeriodOf(d)}
        value[d \in days] ==
            LET carry == IF earlier(d) = {} THEN One ELSE value[Max(earlier(d))]
            IN Times(carry, Weighted(curves, w, d, OpeningDay(days, d)))
    IN IF reset THEN value
       ELSE [d \in days |-> Total([s \in SleeveIds |-> Times(w[s], curves[s][d])], SleeveIds)]

\* blend_curves_schedule: a schedule is a sequence of [from, w]; each segment is
\* blended by itself and chained; what precedes the first one is left out.
BlendCurvesSchedule(curves, schedule) ==
    LET within(i) == {d \in Aligned(curves) : /\ d >= schedule[i].from
                                              /\ i < Len(schedule) => d < schedule[i + 1].from}
        segment(i) == BlendCurves([s \in SleeveIds |-> [d \in within(i) |-> curves[s][d]]],
                                  schedule[i].w, TRUE)
        carry[i \in 0..Len(schedule)] ==
            IF i = 0 THEN One
            ELSE IF within(i) = {} THEN carry[i - 1]
            ELSE Times(carry[i - 1], segment(i)[Max(within(i))])
        of(d) == CHOOSE i \in DOMAIN schedule : d \in within(i)
    IN [d \in UNION {within(i) : i \in DOMAIN schedule} |->
           Times(carry[of(d) - 1], segment(of(d))[d])]

Curves == [s \in SleeveIds |-> IF s \in Dollar THEN ApplyKrwView(NormalizeCurve(navs[s]), rates)
                               ELSE NormalizeCurve(navs[s])]

\* run_portfolio_backtest: every sleeve once, then the blend.
RunPortfolioBacktest ==
    /\ blended = <<>>
    /\ blended' = BlendCurves(Curves, NormalizeWeights(weights), rebalance)
    /\ UNCHANGED <<navs, weights, rates, rebalance, span, trainStart, folds>>
-----------------------------------------------------------------------------
(* Searching and validating the weights.                                      *)

\* Mutant of TrialScore: the cap is not looked at.
TrialScoreUncapped(t) == t.score

\* What objective_fn returns for a trial.
TrialScore(t) ==
    LET sum == MapThenSumSet(LAMBDA s : t.w[s], SleeveIds)
    IN IF \A s \in SleeveIds : 100 * t.w[s] <= Cap * sum THEN t.score ELSE FailedScore

\* optimize_sleeve_weights: the first of the best trials.
BestTrial(trials) ==
    CHOOSE i \in DOMAIN trials :
        /\ \A j \in DOMAIN trials : TrialScore(trials[i]) >= TrialScore(trials[j])
        /\ \A j \in 1..(i - 1) : TrialScore(trials[j]) < TrialScore(trials[i])

TrialsTried == [1..Trials -> [w : WeightsTried, score : {1, 2}]]

\* Mutant of TrainEnd: the train window reaches into the test window.
TrainEndLate(start) == start + TrainYears * YearDays + 1

TrainEnd(start) == start + TrainYears * YearDays
TestStart(start) == start + TrainYears * YearDays + 1
TestEnd(start) == Min({TestStart(start) + TestYears * YearDays, span[2]})

\* The loop of optimize_sleeve_weights_oos (StepYears = TestYears) and of walk_forward.
Finished == folds # <<>> /\ folds[Len(folds)].test[2] >= span[2]
Fold(trials) ==
    /\ ~Finished /\ TestStart(trainStart) <= span[2]
    /\ LET best == BestTrial(trials)
       IN folds' = Append(folds, [train |-> <<trainStart, TrainEnd(trainStart)>>,
                                  test |-> <<TestStart(trainStart), TestEnd(trainStart)>>,
                                  w |-> trials[best].w, capped |-> TrialScore(trials[best]) # FailedScore,
                                  cappable |-> \E i \in DOMAIN trials : TrialScore(trials[i]) # FailedScore])
    /\ trainStart' = trainStart + StepYears * YearDays
    /\ UNCHANGED <<navs, weights, rates, rebalance, blended, span>>

\* The mean of the folds' weights; equal ones without a fold.
MeanWeights ==
    IF folds = <<>> THEN [s \in SleeveIds |-> <<1, Max(SleeveIds)>>]
    ELSE LET share(i) == NormalizeWeights(folds[i].w)
         IN [s \in SleeveIds |-> Times(<<1, Len(folds)>>,
                Total([i \in DOMAIN folds |-> share(i)[s]], DOMAIN folds))]
-----------------------------------------------------------------------------
BlendInit ==
    /\ navs \in [SleeveIds -> Navs] /\ weights \in WeightsTried /\ rates \in RatesTried
    /\ rebalance \in BOOLEAN /\ blended = <<>>
    /\ span \in Spans
    /\ trainStart = span[1] /\ folds = <<>>

BlendNext ==
    \/ RunPortfolioBacktest
    \/ \E trials \in TrialsTried : Fold(trials)

BlendTypeOK ==
    /\ navs \in [SleeveIds -> Navs] /\ weights \in WeightsTried /\ rates \in RatesTried
    /\ rebalance \in BOOLEAN
    /\ blended # <<>> => blended \in [Aligned(Curves) -> Nat \X (Nat \ {0})]
    /\ trainStart \in Nat
    /\ \A i \in DOMAIN folds : folds[i].w \in WeightsTried
-----------------------------------------------------------------------------
(* Properties.                                                                *)

\* An account that holds the sleeves themselves and returns to the weights on the
\* first day of every period: its worth day by day.
AccountWorth(curves, w) ==
    LET days == Aligned(curves)
        opens(d) == OpeningDay(days, d) = d
        worth[d \in days] ==
            IF d = Min(days) THEN One
            ELSE LET before == {e \in days : e < d /\ opens(e)}
                     e == Max(before)
                 IN Times(worth[e], Weighted(curves, w, d, e))
    IN worth

Rests(curves) ==
    LET days == Aligned(curves)
    IN \A d \in days : (OpeningDay(days, d) = d /\ d # Min(days)) =>
          \A s \in SleeveIds : Same(curves[s][d], curves[s][Max({e \in days : e < d})])

\* The blend is the worth of an account that returns to the target weights when a
\* period opens, provided no sleeve moves between two periods.
BlendIsAnAccount ==
    (blended # <<>> /\ rebalance /\ Rests(Curves)) =>
        LET worth == AccountWorth(Curves, NormalizeWeights(weights))
        IN \A d \in DOMAIN blended : Same(blended[d], worth[d])

\* "the whole series compounds correctly across resets" (portfolio.py:123): a
\* portfolio with all of its weight in one sleeve earns what that sleeve earns.
CompoundsCorrectly ==
    blended # <<>> => \A s \in SleeveIds :
        (\A r \in SleeveIds \ {s} : weights[r] = 0) =>
            LET days == Aligned(Curves)
            IN \A d \in days : Same(Over(blended[d], blended[Min(days)]),
                                   Over(Curves[s][d], Curves[s][Min(days)]))

\* A fold is tested on days after those its weights were searched on, a step that
\* is as long as a test window leaves two of these one day in common at most, and
\* the cap holds for a fold and for the mean as soon as a trial can meet it.
OutOfSample ==
    /\ \A i \in DOMAIN folds : TrainEnd(folds[i].train[1]) < folds[i].test[1]
    /\ StepYears >= TestYears => \A i, j \in DOMAIN folds : i < j =>
          folds[i].test[2] <= folds[j].test[1]
    /\ \A i \in DOMAIN folds : folds[i].cappable => folds[i].capped
    /\ (folds # <<>> /\ \A i \in DOMAIN folds : folds[i].cappable) =>
          \A s \in SleeveIds : 100 * MeanWeights[s][1] <= Cap * MeanWeights[s][2]

\* "no overlap between test windows" (portfolio.py:408-409).
TestsApart ==
    \A i, j \in DOMAIN folds : i < j => folds[i].test[2] < folds[j].test[1]
=============================================================================
