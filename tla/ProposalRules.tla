----------------------------- MODULE ProposalRules -----------------------------
(***************************************************************************)
(* What one sleeve of an account proposes, evening by evening              *)
(* (backend/app/services/batch/proposal_generator.py, account_proposals.py *)
(* and account_proposals_toss.py): the quantities, where ProposalGeneration *)
(* has the races.                                                          *)
(*                                                                         *)
(* An evening's run reads the balance, draws up proposals (daily rules, a  *)
(* month's rebalance, what is left of it, or a fixed holding), drops what  *)
(* the user rejected, cuts purchases to the ramp and stores the rest.  By  *)
(* the next evening each proposal was filled, refused or has expired.      *)
(* Nothing else is stored for the account meanwhile, so that a run is one  *)
(* step.                                                                   *)
(*                                                                         *)
(* Prices are whole units of 100 of cash; weights, exposures, bounds and   *)
(* thresholds are in percent.  Limit prices, tax estimates and messages    *)
(* are not in the model.                                                   *)
(***************************************************************************)
EXTENDS Allocation

CONSTANTS
    Names,           \* stock codes, as numbers in the order of the codes
    Etfs,            \* those of get_universe("ETF_KR")
    Listings,        \* the universe of a stock strategy
    Sleeves,         \* the sleeves tried, see Sleeve
    Evenings,        \* the month of each evening
    Closes,          \* an evening's prices: functions from Names, 0 if none
    Scorings,        \* what score_stocks and apply_filters may leave, best first
    Regimes,         \* what _confirmed_live_exposure may answer
    StartHolding, StartMoney

\* The fields of a sleeve and its StrategyDefinition that decide anything, 0 for off.
Sleeve == [mode : {"rules", "monthly", "hold"}, broker : {"KIS", "TOSS"},
           universe : {"etf", "stock"}, weight : 1..100, picks : Nat, gated : BOOLEAN,
           stop : Int, profit : Nat, below : Nat, band : Nat, regime : BOOLEAN,
           ramp : Nat, keeps : Names]

NoRegime == 101
NoGoal == [month |-> 0, target |-> [c \in Names |-> 0]]
Sides == {"SELL", "BUY"}
Rules == {"STOP_LOSS", "TAKE_PROFIT", "SCORE_EXIT", "BAND_TRIM", "REGIME_DERISK",
          "REBALANCE", "REBALANCE_CARRYOVER"}
Proposal == [code : Names, side : Sides, qty : Nat \ {0}, rule : Rules]

ASSUME RulesAssumption ==
    /\ Names \subseteq Nat /\ IsFiniteSet(Names)
    /\ Etfs \subseteq Names /\ Listings \subseteq Names \ Etfs
    /\ Sleeves \subseteq Sleeve
    /\ Evenings \in Seq(Nat \ {0}) /\ Evenings # <<>>
    /\ \A d, e \in DOMAIN Evenings : d <= e => Evenings[d] <= Evenings[e]
    /\ Closes \subseteq [Names -> Nat]
    /\ Scorings \subseteq Seq(Names) /\ \A r \in Scorings : IsInjective(r)
    /\ Regimes \subseteq 0..100 \cup {NoRegime}
    /\ StartHolding \in [Names -> Nat] /\ StartMoney \in Nat

VARIABLES
    sleeve,          \* the sleeve of this account
    evening, stored, \* the evening, and whether its run is over
    close,           \* tonight's prices
    holding, cost,   \* the broker's positions and their average price
    money,           \* and its cash
    rows,            \* tonight's proposals in status PROPOSED
    refused,         \* (code, side) of this month's REJECTED proposals
    goal             \* the rebalance_targets row

accountVars == <<holding, cost, money>>
rulesVars == <<sleeve, evening, stored, close, accountVars, rows, refused, goal>>

RulesTypeOK ==
    /\ sleeve \in Sleeves
    /\ evening \in DOMAIN Evenings /\ stored \in BOOLEAN
    /\ close \in [Names -> Nat]
    /\ holding \in [Names -> Nat] /\ cost \in [Names -> Nat] /\ money \in Nat
    /\ rows \subseteq Proposal /\ (rows # {} => stored)
    /\ refused \subseteq Names \X Sides
    /\ goal \in [month : Nat, target : [Names -> Nat]]
-----------------------------------------------------------------------------
(* The balance.                                                            *)

\* The broker's price of a holding, its average price if there is none; the
\* research close of any other stock.
Price(c) == IF close[c] # 0 \/ holding[c] = 0 THEN close[c] ELSE cost[c]
CashPrice == [c \in Names |-> 100 * Price(c)]
OwnedOf(codes) == {c \in codes : holding[c] > 0}
ValueIn(codes) == MapThenSumSet(LAMBDA c : holding[c] * CashPrice[c], codes)

Universe == IF sleeve.universe = "etf" THEN Etfs ELSE Listings

\* _sleeve_scope_codes and, for Toss, scope_us_positions: the holdings of this sleeve.
Scope == OwnedOf(IF sleeve.broker = "TOSS" \/ sleeve.universe = "etf" THEN Universe
                 ELSE Names \ Etfs)

SleeveNav == ((money + ValueIn(Names)) * sleeve.weight) \div 100

\* invested_exposure = min(1, value / NAV) of the NAV; the Toss run leaves it at 1.
Invested == IF sleeve.broker = "TOSS" THEN SleeveNav ELSE Min({SleeveNav, ValueIn(Scope)})

\* One proposal for each code of a set, in the order of the codes.
Each(codes, Draft(_)) ==
    LET ordered == InOrder(codes) IN [i \in DOMAIN ordered |-> Draft(ordered[i])]

Sell(c, n, rule) == [code |-> c, side |-> "SELL", qty |-> n, rule |-> rule]
Buy(c, n, rule) == [code |-> c, side |-> "BUY", qty |-> n, rule |-> rule]
-----------------------------------------------------------------------------
(* build_rule_proposals.                                                   *)

Moved(c, pct) == 100 * Price(c) - (100 + pct) * cost[c]
PastStop(c) == c \in Scope /\ sleeve.stop # 0 /\ Moved(c, sleeve.stop) <= 0
PastProfit(c) == c \in Scope /\ sleeve.profit # 0 /\ Moved(c, sleeve.profit) >= 0
Exiting == {c \in Scope : PastStop(c) \/ PastProfit(c)}

ExitDrafts == Each(Exiting, LAMBDA c : Sell(c, holding[c],
                       IF PastStop(c) THEN "STOP_LOSS" ELSE "TAKE_PROFIT"))

\* A swap whose replacement has no price is left out altogether.
Swaps(ranked) ==
    IF sleeve.below = 0 \/ sleeve.broker = "TOSS" THEN <<>>
    ELSE LET swaps == ScoreExitSwaps(ranked, Scope \ Exiting, sleeve.below)
         IN Chosen(swaps, {i \in DOMAIN swaps : swaps[i].in # <<>> => Price(swaps[i].in[1]) > 0})

SwapDrafts(ranked) ==
    LET swaps == Swaps(ranked)
        bought(w) == SwapBudget(holding[w.out] * CashPrice[w.out]) \div CashPrice[w.in[1]]
    IN FlattenSeq([i \in DOMAIN swaps |->
            LET w == swaps[i]
                sale == Sell(w.out, holding[w.out], "SCORE_EXIT")
            IN IF w.in = <<>> \/ (w.in # <<>> /\ bought(w) = 0) THEN <<sale>>
               ELSE <<sale, Buy(w.in[1], bought(w), "SCORE_EXIT")>>])

\* What the lower rules look at: neither exited nor swapped out.
Staying(ranked) == Scope \ (Exiting \cup {w.out : w \in ToSet(Swaps(ranked))})

TrimDrafts(ranked) ==
    LET left == [c \in Staying(ranked) |-> holding[c]]
        share == Investable(Invested) \div Cardinality(DOMAIN left)
        target == BandTrimTarget(left, CashPrice, share, sleeve.band)
    IN IF sleeve.band <= 100 \/ DOMAIN left = {} THEN <<>>
       ELSE Each({c \in DOMAIN left : target[c] < left[c]},
                 LAMBDA c : Sell(c, left[c] - target[c], "BAND_TRIM"))

\* Shares to sell when a confirmed exposure is below what is invested.
Excess(c, exposure) == holding[c] - (holding[c] * exposure * SleeveNav) \div (100 * Invested)

DeriskDrafts(ranked, exposure) ==
    IF exposure # NoRegime /\ Invested > 0 /\ exposure * SleeveNav < 100 * Invested
    THEN Each({c \in Staying(ranked) : Excess(c, exposure) > 0},
              LAMBDA c : Sell(c, Excess(c, exposure), "REGIME_DERISK"))
    ELSE <<>>

RuleDrafts(ranked, exposure) ==
    ExitDrafts \o SwapDrafts(ranked) \o TrimDrafts(ranked) \o DeriskDrafts(ranked, exposure)
-----------------------------------------------------------------------------
(* A month's rebalance and what is left of it; a fixed holding.            *)

\* Mutant of DiffDrafts: a position at its target is not left out.
DiffDraftsOfAll(target, codes, rule) ==
    LET have(c) == IF c \in codes THEN holding[c] ELSE 0
        priced == {c \in Names : Price(c) > 0}
    IN Each({c \in priced : have(c) >= target[c]}, LAMBDA c : Sell(c, have(c) - target[c], rule))
       \o Each({c \in priced : have(c) < target[c]}, LAMBDA c : Buy(c, target[c] - have(c), rule))

\* The difference between some positions and a target, sales first.
DiffDrafts(target, codes, rule) ==
    LET have(c) == IF c \in codes THEN holding[c] ELSE 0
        priced == {c \in Names : Price(c) > 0}
    IN Each({c \in priced : have(c) > target[c]}, LAMBDA c : Sell(c, have(c) - target[c], rule))
       \o Each({c \in priced : have(c) < target[c]}, LAMBDA c : Buy(c, target[c] - have(c), rule))

\* The equal weights of the best, less those whose own momentum is not positive.
MonthTarget(ranked, exposure, rising) ==
    LET best == SubSeq(ranked, 1, Min({sleeve.picks, Len(ranked)}))
        selected == Chosen(best, {i \in DOMAIN best : best[i] \in rising})
        invest == IF exposure = NoRegime THEN 100 ELSE exposure
    IN AllocateEqualWeight(selected, SleeveNav, CashPrice, invest, Len(best))

\* full_rebalance leaves holdings outside the universe alone.
RebalanceDrafts(target) == DiffDrafts(target, Scope \cap Universe, "REBALANCE")

ThisMonthsGoal == goal.month = Evenings[evening]

\* carryover_residual_notional.
Residue ==
    MapThenSumSet(LAMBDA c : CashPrice[c] *
            (LET have == IF c \in Scope THEN holding[c] ELSE 0
             IN IF have > goal.target[c] THEN have - goal.target[c] ELSE goal.target[c] - have),
        Names)

\* Nothing without a saved target that names a stock, nor below 1% of the NAV.
CarryoverDrafts ==
    IF /\ ThisMonthsGoal
       /\ \E c \in Names : goal.target[c] > 0
       /\ 100 * Residue >= SleeveNav
    THEN DiffDrafts(goal.target, Scope, "REBALANCE_CARRYOVER") ELSE <<>>

\* hold_sleeve_proposals: back to the weight once 5% and one share off it.
HoldDrafts ==
    LET c == sleeve.keeps
        target == SleeveNav \div CashPrice[c]
        off == holding[c] - target
        size == IF off > 0 THEN off ELSE -off
    IN IF Price(c) = 0 \/ size = 0 \/ (target > 0 /\ size <= Max({1, target \div 20})) THEN <<>>
       ELSE IF off > 0 THEN <<Sell(c, size, "REBALANCE")>> ELSE <<Buy(c, size, "REBALANCE")>>
-----------------------------------------------------------------------------
(* From drafts to rows.                                                    *)

\* Mutant of KeptAfterRejection: a rejection holds for every rule.
KeptUnlessRejected(drafts) ==
    Chosen(drafts, {i \in DOMAIN drafts : <<drafts[i].code, drafts[i].side>> \notin refused})

\* _filter_rejected: a rejection holds, but not against the rules that limit risk.
KeptAfterRejection(drafts) ==
    Chosen(drafts, {i \in DOMAIN drafts :
                      \/ drafts[i].rule \in {"STOP_LOSS", "TAKE_PROFIT", "REGIME_DERISK"}
                      \/ <<drafts[i].code, drafts[i].side>> \notin refused})

\* ramp_cap: the month of the ramp, counted from the one that it began in.
RampStep == Evenings[evening] - Evenings[1] + 1

\* Mutant of RampBudget: what is already invested is not counted.
RampBudgetAnew == (SleeveNav * RampStep) \div sleeve.ramp

\* What the ramp leaves for purchases.
RampBudget == Max({0, (SleeveNav * RampStep) \div sleeve.ramp - ValueIn(Scope)})

\* A purchase cut to a budget, and what a draft takes of it.
Cut(d, budget) ==
    [d EXCEPT !.qty = IF d.side = "SELL" THEN @ ELSE Min({@, budget \div CashPrice[d.code]})]
Spent(d) == IF d.side = "SELL" THEN 0 ELSE d.qty * CashPrice[d.code]

\* apply_ramp_cap: purchases in their order, each cut to what is left.
Ramped(drafts) ==
    LET left[i \in 0..Len(drafts)] ==
            IF i = 0 THEN RampBudget
            ELSE LET budget == left[i - 1] IN budget - Spent(Cut(drafts[i], budget))
        cut == [i \in DOMAIN drafts |-> Cut(drafts[i], left[i - 1])]
    IN IF sleeve.ramp = 0 \/ RampStep >= sleeve.ramp THEN drafts
       ELSE Chosen(cut, {i \in DOMAIN cut : cut[i].qty > 0})

\* Mutant of Stored: no unique index over the PROPOSED rows.
StoredEach(drafts) == ToSet(drafts)

\* _insert_proposals: of two drafts for the same code and side the unique index
\* over the PROPOSED rows lets the first one in.
Stored(drafts) ==
    {drafts[i] : i \in {j \in DOMAIN drafts :
        \A k \in 1..(j - 1) : drafts[k].code # drafts[j].code \/ drafts[k].side # drafts[j].side}}
-----------------------------------------------------------------------------
(* An evening's run and what becomes of its proposals.                     *)

MonthStart == \A e \in 1..(evening - 1) : Evenings[e] # Evenings[evening]

Run == ~stored /\ stored' = TRUE /\ UNCHANGED <<sleeve, evening, close, accountVars, refused>>

Propose(drafts) == rows' = Stored(Ramped(KeptAfterRejection(drafts)))

\* Codes that are in the universe tonight, best first.
InUniverse(ranking) == Chosen(ranking, {i \in DOMAIN ranking : ranking[i] \in Universe})

\* What a strategy asks for: a confirmed exposure, the stocks whose momentum is positive.
LiveExposures == IF sleeve.regime /\ sleeve.broker = "KIS" THEN Regimes ELSE {NoRegime}
RisingSets == IF sleeve.gated THEN SUBSET Universe ELSE {Universe}

RunRules(ranking, exposure) ==
    /\ sleeve.mode = "rules" /\ Run
    /\ Propose(IF SleeveNav > 0 THEN RuleDrafts(InUniverse(ranking), exposure) ELSE <<>>)
    /\ UNCHANGED goal

RunRebalance(ranking, exposure, rising) ==
    LET target == MonthTarget(InUniverse(ranking), exposure, rising) IN
    /\ sleeve.mode = "monthly" /\ MonthStart /\ SleeveNav > 0 /\ Run
    /\ Propose(RebalanceDrafts(target))
    /\ goal' = [month |-> Evenings[evening], target |-> target]

\* A failed run, or one on an account without value, leaves no target.
RunFails == sleeve.mode = "monthly" /\ MonthStart /\ Run /\ UNCHANGED <<rows, goal>>

RunCarryover ==
    /\ sleeve.mode = "monthly" /\ ~MonthStart /\ Run
    /\ Propose(CarryoverDrafts)
    /\ UNCHANGED goal

\* _run_hold_sleeve stores what it draws up, without a filter or a ramp.
RunHold ==
    /\ sleeve.mode = "hold" /\ Run
    /\ rows' = Stored(IF MonthStart THEN HoldDrafts ELSE <<>>)
    /\ UNCHANGED goal

\* The user approves, and the broker (external) fills the order in part or in
\* whole at tonight's price, if there is one and the cash is there.
Fill(r, n) ==
    /\ r \in rows /\ rows' = rows \ {r} /\ Price(r.code) > 0
    /\ IF r.side = "SELL"
       THEN /\ n <= holding[r.code]
            /\ holding' = [holding EXCEPT ![r.code] = @ - n]
            /\ money' = money + n * CashPrice[r.code]
            /\ UNCHANGED cost
       ELSE /\ n * CashPrice[r.code] <= money
            /\ holding' = [holding EXCEPT ![r.code] = @ + n]
            /\ money' = money - n * CashPrice[r.code]
            /\ cost' = [cost EXCEPT ![r.code] =
                          (holding[r.code] * @ + n * Price(r.code)) \div (holding[r.code] + n)]
    /\ UNCHANGED <<sleeve, evening, stored, close, refused, goal>>

Refuse(r) ==
    /\ r \in rows /\ rows' = rows \ {r}
    /\ refused' = refused \cup {<<r.code, r.side>>}
    /\ UNCHANGED <<sleeve, evening, stored, close, accountVars, goal>>

\* What is left expires; the next evening has its own prices, and a new month
\* forgets the rejections.
NextEvening(quote) ==
    /\ stored /\ evening < Len(Evenings)
    /\ evening' = evening + 1 /\ stored' = FALSE
    /\ close' = quote /\ rows' = {}
    /\ refused' = IF Evenings[evening + 1] # Evenings[evening] THEN {} ELSE refused
    /\ UNCHANGED <<sleeve, accountVars, goal>>
-----------------------------------------------------------------------------
RulesInit ==
    /\ sleeve \in Sleeves
    /\ evening = 1 /\ stored = FALSE /\ close \in Closes
    /\ holding = StartHolding /\ money = StartMoney
    /\ cost = [c \in Names |-> IF StartHolding[c] = 0 THEN 0 ELSE 2]
    /\ rows = {} /\ refused = {} /\ goal = NoGoal

RulesNext ==
    \/ \E r \in Scorings, e \in LiveExposures : RunRules(r, e)
    \/ \E r \in Scorings, e \in LiveExposures, rising \in RisingSets : RunRebalance(r, e, rising)
    \/ RunFails \/ RunCarryover \/ RunHold
    \/ \E r \in rows : Refuse(r) \/ \E n \in 1..r.qty : Fill(r, n)
    \/ \E q \in Closes : NextEvening(q)

RulesSpec == RulesInit /\ [][RulesNext]_rulesVars
-----------------------------------------------------------------------------
(* Properties.                                                             *)

Nightfall == ~stored /\ stored'

\* All the sales that are proposed for a stock together never exceed its holding,
\* although trims and de-risking both draw on it.
SellsAreHeld ==
    \A c \in Names :
        MapThenSumSet(LAMBDA r : r.qty, {r \in rows : r.code = c /\ r.side = "SELL"}) <= holding[c]

\* While the ramp lasts, the purchases proposed never take the sleeve beyond the
\* ramp's part of its value, evening after evening and however many are filled.
RampRespected ==
    (/\ sleeve.mode # "hold" /\ RampStep < sleeve.ramp
     /\ \E r \in rows : r.side = "BUY") =>
        sleeve.ramp * (ValueIn(Scope) + MapThenSumSet(LAMBDA r : r.qty * CashPrice[r.code],
                                                      {r \in rows : r.side = "BUY"}))
            <= SleeveNav * RampStep

\* What is proposed fits what there is, however the rules overlap: no more is sold
\* than is held, and no more bought than the ramp allows.
ProposalsFit == SellsAreHeld /\ RampRespected

\* Under the daily rules a holding past its stop is proposed for sale, all of it,
\* that very evening, whatever else was drawn up for it or rejected before.
StopIsProposed ==
    [][Nightfall /\ sleeve.mode = "rules" =>
         \A c \in Names : PastStop(c) => Sell(c, holding[c], "STOP_LOSS") \in rows']_rulesVars

\* A stock that leaves by its stop or its profit target is out of the reach of
\* the other rules (docstring of build_rule_proposals): nothing buys it again.
ExitIsFinal ==
    \A r, s \in rows :
        (r.rule \in {"STOP_LOSS", "TAKE_PROFIT"} /\ s.code = r.code) => s.side = "SELL"

\* A monthly rebalance leaves stocks outside the strategy's universe to the user.
ManualIsLeft ==
    sleeve.mode = "monthly" => \A r \in rows : r.side = "SELL" => r.code \in Universe

\* Once a month's target is saved, what is held beyond it is proposed for sale
\* every evening until it is sold or rejected, if it is worth 1% of the sleeve.
RestIsCarriedOver ==
    [][(Nightfall /\ sleeve.mode = "monthly" /\ ThisMonthsGoal) =>
         \A c \in Scope :
            (/\ holding[c] > goal.target[c] /\ <<c, "SELL">> \notin refused
             /\ 100 * (holding[c] - goal.target[c]) * CashPrice[c] >= SleeveNav) =>
                \E r \in rows' : r.code = c /\ r.side = "SELL"]_rulesVars
=============================================================================
