------------------------------ MODULE Allocation ------------------------------
(***************************************************************************)
(* Target quantities from a ranking (research/backtest/engine.py): equal   *)
(* weights, band trim and score-exit swaps.  The backtest trades on them   *)
(* day by day and the proposal generator proposes on them in the evening.  *)
(*                                                                         *)
(* A price function gives the cash value of one share, 0 if it is unknown. *)
(* Exposures, thresholds and percentiles are in percent.                   *)
(***************************************************************************)
EXTENDS Sorting, FiniteSetsExt, Sequences, SequencesExt

\* Mutant of Investable: nothing is kept back for costs.
InvestableAll(value) == value

\* INVESTABLE_NAV_RATIO = 0.995.
Investable(value) == (value * 199) \div 200

\* The value of some positions.
ValueOf(positions, prices) ==
    MapThenSumSet(LAMBDA c : positions[c] * prices[c], DOMAIN positions)

\* _allocate_equal_weight: an equal share for each slot; the slots of names that
\* were dropped stay cash.
AllocateEqualWeight(selected, nav, prices, exposure, slots) ==
    LET share == ((Investable(nav) * exposure) \div 100) \div slots
    IN [c \in DOMAIN prices |->
          IF /\ c \in ToSet(selected) /\ prices[c] > 0
             /\ nav > 0 /\ exposure > 0 /\ slots > 0
          THEN share \div prices[c] ELSE 0]

\* _band_trim_target: what is worth more than the threshold times the share goes
\* back to the share.
Drifted(positions, prices, share, threshold) ==
    {c \in DOMAIN positions : 100 * positions[c] * prices[c] > share * threshold}
BandTrimTarget(positions, prices, share, threshold) ==
    [c \in DOMAIN positions |->
       IF c \in Drifted(positions, prices, share, threshold)
       THEN share \div prices[c] ELSE positions[c]]

\* _score_exit_swaps: held names whose percentile is too low, worst last, each
\* with the best name that is not held; an empty sequence of codes where there
\* is none left.
ScoreExitSwaps(ranked, held, below) ==
    LET weak == Chosen(ranked, {i \in DOMAIN ranked : /\ ranked[i] \in held
                                  /\ 100 * (Len(ranked) - i) < below * (Len(ranked) - 1)})
        bench == Chosen(ranked, {i \in DOMAIN ranked : ranked[i] \notin held})
    IN IF Len(ranked) < 2 THEN <<>>
       ELSE [i \in DOMAIN weak |->
               [out |-> weak[i], in |-> IF i <= Len(bench) THEN <<bench[i]>> ELSE <<>>]]

\* SWAP_BUDGET_HAIRCUT = 0.99: the exit's value less the costs of both sides.
SwapBudget(value) == (value * 99) \div 100
=============================================================================
