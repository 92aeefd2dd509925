---------------------------- MODULE BacktestEngine ----------------------------
(***************************************************************************)
(* The point-in-time backtest (research/backtest/engine.py, simulator.py   *)
(* and tax_kr.py): one run_backtest, trading day by trading day.           *)
(*                                                                         *)
(* Each day passes the stages of the loop in order: prices, stop-loss and  *)
(* take-profit exits, orders left from a lagged signal, the monthly regime *)
(* check, band trim and score-exit swap, the rebalance.  A stage that      *)
(* trades sets a target; simulator.rebalance turns it into trades and      *)
(* _apply_trades takes them one by one.                                    *)
(*                                                                         *)
(* Prices are whole units and a unit is 10,000 of cash, so that costs are  *)
(* basis points.  Commission, transaction tax and slippage are one cost    *)
(* per side; an entry price is kept at the close that was traded at.       *)
(* Exposures, thresholds and rates are in percent.  What is not in the     *)
(* model: the wording of trade reasons, warnings and metrics.              *)
(***************************************************************************)
EXTENDS Allocation

CONSTANTS
    Codes,           \* stock codes, as numbers: their order is the code's sort
    Calendar,        \* the month (counted from year 0) of each trading day
    Strategies,      \* the StrategyDefinitions and cost models tried, see Strategy
    Quotes,          \* a day's rows: functions from Codes to a price, 0 if none
    Rankings,        \* what score_stocks and apply_filters may leave, best first
    Listed,          \* Listed[c]: first and last day on which c is in the universe
    Exposures,       \* what compute_regime may answer
    StartCash,       \* initial_nav
    Persistence      \* days a regime label must last to be confirmed

\* The fields of StrategyDefinition that decide anything, with 0 for "off".
Strategy == [freq : {1, 3, 12}, topN : Nat, lag : Nat, ramp : Nat,
             stopLoss : Int, takeProfit : Nat, bandTrim : Nat, replaceBelow : Nat,
             regime : {"off", "rebalance", "monthly"}, gate : BOOLEAN,
             tax : {"none", "etf", "annual", "isa"}, rate : Nat, exemption : Nat, taxed : SUBSET Codes,
             buyCost : Nat, sellCost : Nat]

Days == 1..Len(Calendar)
Unit == 10000
NoPrice == 0
NoEntry == <<0, 0>>
NoOrders == [selected |-> <<>>, exposure |-> 0, slots |-> 0, due |-> 0]

ASSUME EngineAssumption ==
    /\ Codes \subseteq Nat /\ IsFiniteSet(Codes)
    /\ Calendar \in Seq(Nat \ {0}) /\ Calendar # <<>>
    /\ \A d, e \in DOMAIN Calendar : d <= e => Calendar[d] <= Calendar[e]
    /\ \A s \in Strategies : s \in Strategy /\ s.sellCost <= Unit /\ s.rate <= 100
    /\ Quotes \subseteq [Codes -> Nat]
    /\ Rankings \subseteq Seq(Codes) /\ \A r \in Rankings : IsInjective(r)
    /\ Listed \in [Codes -> Nat \X Nat]
    /\ Exposures \subseteq 0..100
    /\ StartCash \in Nat /\ Persistence \in Nat \ {0}

VARIABLES
    strategy,        \* the strategy of this run
    day, phase,      \* day_index (from 1) and the stage of the loop
    after,           \* the stage that follows the trades under way
    price,           \* last_prices
    cash, positions,
    plan,            \* trades of this target still to be applied
    fills,           \* trades of this target that were
    entry,           \* entry_prices, as a reduced fraction
    pending,         \* pending_orders with pending_execute_index
    applied,         \* applied_exposure
    lastSelected, lastSlots,
    rebalanced,      \* the month of last_rebalance_day, 0 for None
    recent,          \* the regime's exposure on the latest days
    tax,             \* the state of the tax model
    paid             \* history: prices paid since the position was opened

bookVars == <<cash, positions, entry, tax, paid>>
signalVars == <<pending, applied, lastSelected, lastSlots, rebalanced>>
engineVars == <<strategy, day, phase, after, price, plan, fills, recent, bookVars, signalVars>>

Phases == {"open", "exits", "fill", "regime", "trim", "swap", "rebalance",
           "close", "trading", "finished"}
Trades == [code : Codes, side : {"SELL", "BUY"}, qty : Nat]

EngineTypeOK ==
    /\ strategy \in Strategies
    /\ day \in Days /\ phase \in Phases /\ after \in Phases
    /\ price \in [Codes -> Nat]
    /\ cash \in Int /\ positions \in [Codes -> Nat]
    /\ plan \in SUBSET Trades /\ fills \in SUBSET Trades
    /\ entry \in [Codes -> Nat \X Nat]
    /\ pending \in [selected : Seq(Codes), exposure : Nat, slots : Nat, due : Nat]
    /\ applied \in Nat /\ lastSelected \in Seq(Codes) /\ lastSlots \in Nat /\ rebalanced \in Nat
    /\ recent \in Seq(Exposures)
    /\ tax \in [year : Nat, net : Int, charged : Int]
    /\ paid \in [Codes -> SUBSET Nat]
-----------------------------------------------------------------------------
Held == {c \in Codes : positions[c] > 0}
Positive(x) == IF x > 0 THEN x ELSE 0

\* The cash value of a share.
Worth == [c \in Codes |-> price[c] * Unit]

\* Cash and the positions at their last price.
MarkToMarket == cash + ValueOf(positions, Worth)

Cost(t) == t.qty * price[t.code] * (Unit + strategy.buyCost)
Proceeds(t) == t.qty * price[t.code] * (Unit - strategy.sellCost)

\* Mutant of TradesTo: a target that names no quantity for a held code keeps it.
TradesToNamed(target) ==
    {[code |-> c, side |-> IF target[c] > positions[c] THEN "BUY" ELSE "SELL",
      qty |-> IF target[c] > positions[c] THEN target[c] - positions[c] ELSE positions[c] - target[c]] :
        c \in {d \in Codes : price[d] # NoPrice /\ target[d] # positions[d] /\ target[d] # 0}}

\* The difference between the positions and a target, for codes with a price.
TradesTo(target) ==
    {[code |-> c, side |-> IF target[c] > positions[c] THEN "BUY" ELSE "SELL",
      qty |-> IF target[c] > positions[c] THEN target[c] - positions[c] ELSE positions[c] - target[c]] :
        c \in {d \in Codes : price[d] # NoPrice /\ target[d] # positions[d]}}

\* Mutant of Precedes: trades by code only, without selling first.
PrecedesByCode(t, u) == t.code <= u.code

\* Sales come first, so that their cash is there for the purchases.
Precedes(t, u) == \/ t.side = "SELL" /\ u.side = "BUY"
                  \/ t.side = u.side /\ t.code <= u.code

\* A stage sets a target and goes on once its trades are applied.
Pursue(target, next) ==
    /\ plan' = TradesTo(target) /\ fills' = {}
    /\ phase' = "trading" /\ after' = next

\* The equal weights of a signal.
EqualWeight(selected, exposure, slots) ==
    AllocateEqualWeight(selected, MarkToMarket, Worth, exposure, slots)
-----------------------------------------------------------------------------
(* The stages of a day.                                                    *)

ThisMonth == Calendar[day]
IsRebalanceDay == \/ rebalanced = 0
                  \/ ThisMonth \div strategy.freq # rebalanced \div strategy.freq
IsMonthStart == day > 1 /\ Calendar[day - 1] # ThisMonth
BetweenRebalances == ~IsRebalanceDay /\ IsMonthStart

Stage(s) == phase = s /\ UNCHANGED <<strategy, day, price, recent, bookVars>>
Skip(next) == phase' = next /\ UNCHANGED <<after, plan, fills>>

\* A day's rows; a code without one keeps its last price.  A regime is as of the day.
OpenDay(quote, exposure) ==
    /\ phase = "open"
    /\ price' = [c \in Codes |-> IF quote[c] = NoPrice THEN price[c] ELSE quote[c]]
    /\ recent' = IF strategy.regime = "off" THEN recent
                 ELSE IF Len(recent) < Persistence THEN Append(recent, exposure)
                 ELSE Append(Tail(recent), exposure)
    /\ phase' = "exits"
    /\ UNCHANGED <<strategy, day, after, plan, fills, bookVars, signalVars>>

\* price / entry - 1 in percent, against a bound.
ReturnAtMost(c, pct) == 100 * price[c] * entry[c][2] <= (100 + pct) * entry[c][1]
ReturnAtLeast(c, pct) == 100 * price[c] * entry[c][2] >= (100 + pct) * entry[c][1]

Exits == {c \in Held :
            /\ entry[c] # NoEntry
            /\ \/ strategy.stopLoss # 0 /\ ReturnAtMost(c, strategy.stopLoss)
               \/ strategy.takeProfit # 0 /\ ReturnAtLeast(c, strategy.takeProfit)}

\* Stop-loss and take-profit.
ExitPositions ==
    /\ Stage("exits")
    /\ IF Exits = {} THEN Skip("fill")
       ELSE Pursue([c \in Codes |-> IF c \in Exits THEN 0 ELSE positions[c]], "fill")
    /\ UNCHANGED signalVars

\* The orders of a lagged signal, once they are due.
FillPending ==
    /\ Stage("fill")
    /\ IF pending # NoOrders /\ day >= pending.due
       THEN /\ Pursue(EqualWeight(pending.selected, pending.exposure, pending.slots), "regime")
            /\ pending' = NoOrders /\ applied' = pending.exposure
       ELSE Skip("regime") /\ UNCHANGED <<pending, applied>>
    /\ UNCHANGED <<lastSelected, lastSlots, rebalanced>>

\* The same answer for Persistence days.
Confirmed == Len(recent) = Persistence /\ \A i \in DOMAIN recent : recent[i] = Last(recent)

\* De-risking in place: every position shrinks in proportion.
Shrunk(exposure) == [c \in Codes |-> (positions[c] * exposure) \div applied]

\* At a month's first day between rebalances, follow a confirmed change of regime.
AdjustToRegime ==
    /\ Stage("regime")
    /\ IF /\ strategy.regime = "monthly" /\ BetweenRebalances
          /\ Confirmed /\ Last(recent) # applied
       THEN /\ applied' = Last(recent)
            /\ \/ Last(recent) < applied /\ Pursue(Shrunk(Last(recent)), "trim")
               \/ /\ Last(recent) > applied /\ lastSelected # <<>>
                  /\ Pursue(EqualWeight(lastSelected, Last(recent), lastSlots), "trim")
               \/ Last(recent) > applied /\ lastSelected = <<>> /\ Skip("trim")
       ELSE Skip("trim") /\ UNCHANGED applied
    /\ UNCHANGED <<pending, lastSelected, lastSlots, rebalanced>>

\* A held name's equal share of what is invested.
HeldShare == ((Investable(MarkToMarket) * (IF applied > 0 THEN applied ELSE 100)) \div 100)
                 \div Cardinality(Held)

TrimDrifted ==
    /\ Stage("trim")
    /\ IF /\ strategy.bandTrim > 100 /\ BetweenRebalances /\ Held # {} /\ MarkToMarket > 0
          /\ Drifted(positions, Worth, HeldShare, strategy.bandTrim) # {}
       THEN Pursue(BandTrimTarget(positions, Worth, HeldShare, strategy.bandTrim), "swap")
       ELSE Skip("swap")
    /\ UNCHANGED signalVars

\* Codes that are in the universe today, best first.
Ranked(ranking) == Chosen(ranking, {i \in DOMAIN ranking : /\ Listed[ranking[i]][1] <= day
                                                          /\ day <= Listed[ranking[i]][2]})

\* Exits go to nothing, replacements with a price to what the exit's value buys.
SwapTarget(swaps) ==
    LET pairs == ToSet(swaps)
        exitFor(c) == (CHOOSE w \in pairs : w.in = <<c>>).out
    IN [c \in Codes |->
          IF \E w \in pairs : w.out = c THEN 0
          ELSE IF price[c] # NoPrice /\ \E w \in pairs : w.in = <<c>>
          THEN SwapBudget(positions[exitFor(c)] * Worth[exitFor(c)]) \div Worth[c]
          ELSE positions[c]]

SwapWeak(ranking) ==
    LET swaps == ScoreExitSwaps(Ranked(ranking), Held, strategy.replaceBelow) IN
    /\ Stage("swap")
    /\ IF strategy.replaceBelow > 0 /\ BetweenRebalances /\ swaps # <<>>
       THEN Pursue(SwapTarget(swaps), "rebalance")
       ELSE Skip("rebalance")
    /\ UNCHANGED signalVars

\* The exposure of a rebalance: the regime's, capped while ramping in.
RampMonth == ThisMonth - Calendar[1] + 1
SignalExposure ==
    LET regime == IF strategy.regime = "off" THEN 100 ELSE Last(recent)
    IN IF RampMonth < strategy.ramp THEN (regime * RampMonth) \div strategy.ramp ELSE regime

\* Score, select the best, drop those whose own momentum is not positive, and
\* trade at once or, with a lag, at a later close.
Rebalance(ranking, rising) ==
    LET ranked == Ranked(ranking)
        best == SubSeq(ranked, 1, Min({strategy.topN, Len(ranked)}))
        selected == IF strategy.gate THEN Chosen(best, {i \in DOMAIN best : best[i] \in rising})
                    ELSE best
    IN /\ Stage("rebalance")
       /\ IF ~IsRebalanceDay THEN Skip("close") /\ UNCHANGED signalVars
          ELSE /\ lastSelected' = selected /\ lastSlots' = Len(best)
               /\ rebalanced' = ThisMonth
               /\ IF strategy.lag > 0
                  THEN /\ pending' = [selected |-> selected, exposure |-> SignalExposure,
                                      slots |-> Len(best), due |-> day + strategy.lag]
                       /\ Skip("close") /\ UNCHANGED applied
                  ELSE /\ Pursue(EqualWeight(selected, SignalExposure, Len(best)), "close")
                       /\ applied' = SignalExposure /\ UNCHANGED pending

CloseDay ==
    /\ phase = "close"
    /\ IF day = Len(Calendar) THEN phase' = "finished" /\ UNCHANGED day
       ELSE phase' = "open" /\ day' = day + 1
    /\ UNCHANGED <<strategy, after, price, plan, fills, recent, bookVars, signalVars>>
-----------------------------------------------------------------------------
(* Trading.                                                                *)

Affordable(t) == t.side = "SELL" \/ cash >= Cost(t)

\* One turn of _apply_trades: a purchase beyond the cash is skipped.
ApplyTrade(t) ==
    /\ phase = "trading" /\ t \in plan
    /\ \A u \in plan : Precedes(t, u)
    /\ plan' = plan \ {t}
    /\ IF Affordable(t)
       THEN /\ fills' = fills \cup {t}
            /\ IF t.side = "BUY"
               THEN /\ cash' = cash - Cost(t)
                    /\ positions' = [positions EXCEPT ![t.code] = @ + t.qty]
               ELSE /\ cash' = cash + Proceeds(t)
                    /\ positions' = [positions EXCEPT ![t.code] = @ - t.qty]
       ELSE UNCHANGED <<fills, cash, positions>>
    /\ UNCHANGED <<strategy, day, phase, after, price, entry, tax, paid, recent, signalVars>>

Reduced(f) == LET d == Max({k \in 1..f[2] : f[1] % k = 0 /\ f[2] % k = 0})
              IN <<f[1] \div d, f[2] \div d>>

\* The price before and the fill, weighted by their quantities.
Blend(e, before, t) ==
    IF e = NoEntry THEN <<price[t.code], 1>>
    ELSE Reduced(<<before * e[1] + t.qty * price[t.code] * e[2], e[2] * (before + t.qty)>>)

\* Mutant of EntryAfter: a sale to nothing keeps the old entry.
EntryKept(c) ==
    IF \E t \in fills : t.code = c /\ t.side = "BUY"
    THEN LET t == CHOOSE u \in fills : u.code = c
         IN Blend(entry[c], positions[c] - t.qty, t)
    ELSE entry[c]

\* _track_entry_prices: purchases blend, a sale to nothing clears.
EntryAfter(c) ==
    IF \E t \in fills : t.code = c /\ t.side = "BUY"
    THEN LET t == CHOOSE u \in fills : u.code = c
         IN Blend(entry[c], positions[c] - t.qty, t)
    ELSE IF positions[c] = 0 THEN NoEntry ELSE entry[c]

\* realized_gain; nothing for a code without an entry.
GainOf(t) == IF entry[t.code] = NoEntry THEN 0
             ELSE ((price[t.code] * entry[t.code][2] - entry[t.code][1]) * t.qty * Unit)
                      \div entry[t.code][2]

\* The tax models: withheld per sale; or netted over a year, or over the whole
\* account, with the difference to what was charged before due on each sale.
Netted(sales) ==
    LET carried == IF strategy.tax = "annual" /\ tax.year # ThisMonth \div 12
                   THEN [net |-> 0, charged |-> 0]
                   ELSE [net |-> tax.net, charged |-> tax.charged]
        net == carried.net + MapThenSumSet(GainOf, sales)
        owed == (strategy.rate * Positive(net - strategy.exemption)) \div 100
    IN [state |-> [year |-> ThisMonth \div 12, net |-> net, charged |-> owed],
        due |-> owed - carried.charged]

GainsTax(sales) ==
    LET taxable == {t \in sales : t.code \in strategy.taxed} IN
    CASE strategy.tax = "none" -> [state |-> tax, due |-> 0]
      [] strategy.tax = "etf" ->
            [state |-> tax,
             due |-> MapThenSumSet(LAMBDA t : (strategy.rate * Positive(GainOf(t))) \div 100, taxable)]
      [] strategy.tax = "annual" /\ sales # {} -> Netted(sales)
      [] strategy.tax = "isa" /\ taxable # {} -> Netted(taxable)
      [] OTHER -> [state |-> tax, due |-> 0]

\* After a target's trades: the tax on the sales, then the entry prices.
Settle ==
    LET due == GainsTax({t \in fills : t.side = "SELL"}) IN
    /\ phase = "trading" /\ plan = {}
    /\ cash' = cash - due.due /\ tax' = due.state
    /\ entry' = [c \in Codes |-> EntryAfter(c)]
    /\ paid' = [c \in Codes |->
                  IF positions[c] = 0 THEN {}
                  ELSE IF \E t \in fills : t.code = c /\ t.side = "BUY"
                       THEN (IF \E t \in fills : t.code = c /\ t.qty = positions[c]
                             THEN {} ELSE paid[c]) \cup {price[c]}
                       ELSE paid[c]]
    /\ fills' = {} /\ phase' = after
    /\ UNCHANGED <<strategy, day, after, price, positions, plan, recent, signalVars>>
-----------------------------------------------------------------------------
EngineInit ==
    /\ strategy \in Strategies
    /\ day = 1 /\ phase = "open" /\ after = "open"
    /\ price = [c \in Codes |-> NoPrice]
    /\ cash = StartCash /\ positions = [c \in Codes |-> 0]
    /\ plan = {} /\ fills = {} /\ entry = [c \in Codes |-> NoEntry]
    /\ pending = NoOrders /\ applied = 100
    /\ lastSelected = <<>> /\ lastSlots = 0 /\ rebalanced = 0
    /\ recent = <<>> /\ tax = [year |-> 0, net |-> 0, charged |-> 0]
    /\ paid = [c \in Codes |-> {}]

EngineNext ==
    \/ \E q \in Quotes, e \in Exposures : OpenDay(q, e)
    \/ ExitPositions \/ FillPending \/ AdjustToRegime \/ TrimDrifted
    \/ \E r \in Rankings : SwapWeak(r)
    \/ \E r \in Rankings, rising \in SUBSET Codes : Rebalance(r, rising)
    \/ CloseDay
    \/ \E t \in plan : ApplyTrade(t)
    \/ Settle

EngineSpec == EngineInit /\ [][EngineNext]_engineVars
-----------------------------------------------------------------------------
(* Properties.                                                             *)

\* Before taxes, and with costs of both sides within half a percent, no purchase is
\* ever skipped for want of cash: what is kept back (half a percent of the value,
\* one percent of a swap) and selling first pay for them.
EveryBuyIsFunded ==
    (phase = "trading" /\ strategy.tax = "none" /\ strategy.buyCost + strategy.sellCost <= 50) =>
        \A t \in plan : (\A u \in plan : Precedes(t, u)) => Affordable(t)

\* Between two targets a position has an entry price exactly while it is held,
\* and it lies between the prices paid since it was opened: the stop-loss, the
\* profit target and the tax all start from it.
EntryIsCost ==
    phase # "trading" =>
        \A c \in Codes :
            IF positions[c] = 0 THEN entry[c] = NoEntry
            ELSE /\ entry[c] # NoEntry
                 /\ \E p \in paid[c] : p * entry[c][2] <= entry[c][1]
                 /\ \E p \in paid[c] : p * entry[c][2] >= entry[c][1]
=============================================================================
