-------------------------------- MODULE Ledger --------------------------------
(* What an account earned and what it was worth, derived from its trade rows   *)
(* (services/performance/reconstruct.py and service.py, services/tax/kr.py),   *)
(* and the daily loss limit that rests on it (services/orders/guard.py).       *)
(*                                                                             *)
(* The broker fills orders share by share; the row of an order has the number  *)
(* filled so far and one time, which orders the rows.  The KIS client takes    *)
(* for that time the last execution's or, where the answer lacks it, the       *)
(* order's.  Profit is then matched first in, first out over the rows, and a   *)
(* curve of the account's worth is rebuilt from them and the stored closes.    *)
(* When a row learns of a fill is the subject of OrderTracker; here it does at *)
(* once.  Orders are day orders.                                               *)
EXTENDS Sorting, FiniteSetsExt, Functions, Sequences

CONSTANTS
    Papers,      \* stock codes
    Markets,     \* closes tried: a sequence of days for each code, 0 without a bar
    Inheritances,\* shares held before the first row: functions tried
    Capital,     \* the cash at the start, initial_capital
    Fee,         \* fees and taxes of a share
    LossLimit,   \* -AUTOMATION_MAX_DAILY_LOSS_PCT
    LastDate, MaxDeals, Sizes      \* bounds: days, orders, how many shares an order for a code asks

ASSUME LedgerAssumption ==
    /\ IsFiniteSet(Papers)
    /\ \A m \in Markets : m \in [Papers -> [1..LastDate -> Nat]] /\ \A p \in Papers : m[p][1] > 0
    /\ Inheritances \subseteq [Papers -> Nat]
    /\ Capital \in Nat /\ Fee \in Nat /\ LossLimit \in Nat
    /\ LastDate \in Nat \ {0} /\ MaxDeals \in Nat /\ Sizes \in [Papers -> SUBSET Nat]

VARIABLES
    market,      \* the closes of this behaviour (research.db and the broker)
    older,       \* shares without a row
    stamping,    \* the time an answer of the broker carries: "order" or "fill"
    date,
    deals,       \* the rows in the order of their insertion
    shares,      \* history: the row of every share filled, in the order of the fills
    navs,        \* portfolio_snapshots: the worth of a day, -1 without a row
    worth        \* history: what the account was worth at a day's close

ledgerVars == <<market, older, stamping, date, deals, shares, navs, worth>>
Dates == 1..LastDate
Deal == [paper : Papers, side : {"BUY", "SELL"}, asked : Nat, filled : Nat,
         price : Nat, date : Dates, stamp : Nat]

LedgerTypeOK ==
    /\ market \in Markets /\ older \in Inheritances /\ stamping \in {"order", "fill"}
    /\ date \in Dates /\ deals \in Seq(Deal) /\ shares \in Seq(DOMAIN deals)
    /\ navs \in [Dates -> Int] /\ worth \in [Dates -> Int]

\* FilledTrade.cash_flow of one share.
ShareFlow(i) == IF deals[i].side = "BUY" THEN -(deals[i].price + Fee) ELSE deals[i].price - Fee
Signed(i) == IF deals[i].side = "BUY" THEN deals[i].filled ELSE -deals[i].filled

Filled == {i \in DOMAIN deals : deals[i].filled > 0}
Cash(rowset) == SumFunction([i \in rowset |-> deals[i].filled * ShareFlow(i)])
Position(p, rowset) == SumFunction([i \in {i \in rowset : deals[i].paper = p} |-> Signed(i)])

\* The broker's books.
Owned(p) == older[p] + Position(p, DOMAIN deals)
LastPrice(p, d) == market[p][Max({e \in 1..d : market[p][e] # 0})]
-----------------------------------------------------------------------------
(* Profit.                                                                     *)

\* _load_filled_trades: ORDER BY executed_at.
FilledTrades ==
    LET stamps == InOrder({deals[i].stamp : i \in Filled})
    IN [k \in DOMAIN stamps |-> CHOOSE i \in Filled : deals[i].stamp = stamps[k]]

\* How many shares of each lot a sale of n takes, the oldest lot first.
Taken(lots, n) ==
    LET before(k) == SumFunction([j \in 1..(k - 1) |-> lots[j].n])
    IN [k \in DOMAIN lots |-> Max({0, Min({lots[k].n, n - before(k)})})]

\* Mutant of LotsLeft: the rest of a lot that is sold in part is not put back.
LotsWhole(lots, n) ==
    LET touched == Cardinality({k \in DOMAIN lots : Taken(lots, n)[k] > 0})
    IN [k \in 1..(Len(lots) - touched) |-> lots[touched + k]]

LotsLeft(lots, n) ==
    LET taken == Taken(lots, n)
        used == Cardinality({k \in DOMAIN lots : taken[k] = lots[k].n})
    IN [k \in 1..(Len(lots) - used) |-> [lots[used + k] EXCEPT !.n = @ - taken[used + k]]]

\* What the lots of a code cost and a sale of them brings in.
LotGain(i, lots) ==
    LET taken == Taken(lots, deals[i].filled)
    IN SumFunction([k \in DOMAIN lots |-> taken[k] * (ShareFlow(i) - lots[k].cost)])

\* realized_pnl_between: lots are kept over the whole history, the sales of some
\* days and codes are counted; one without a lot counts nothing.
Matched(state, i, days, papers) ==
    LET d == deals[i]
        lots == state.lots[d.paper]
    IN IF d.side = "BUY"
       THEN [state EXCEPT !.lots[d.paper] = Append(@, [n |-> d.filled, cost |-> -ShareFlow(i)])]
       ELSE [lots |-> [state.lots EXCEPT ![d.paper] = LotsLeft(@, d.filled)],
             sum |-> IF d.date \in days /\ d.paper \in papers
                     THEN state.sum + LotGain(i, lots) ELSE state.sum]

RealizedBetween(from, to, papers) ==
    LET rows == FilledTrades
        books[k \in 0..Len(rows)] ==
            IF k = 0 THEN [lots |-> [p \in Papers |-> <<>>], sum |-> 0]
            ELSE Matched(books[k - 1], rows[k], from..to, papers)
    IN books[Len(rows)].sum

RealizedOn(d) == RealizedBetween(d, d, Papers)

\* assert_daily_loss_ok: today's loss against the newest snapshot, if there is one and
\* it is of some worth.
LossReached ==
    LET known == {d \in 1..date : navs[d] # -1}
        base == navs[Max(known)]
    IN known # {} /\ base > 0 /\ 100 * RealizedOn(date) <= -LossLimit * base
-----------------------------------------------------------------------------
(* The curve (load_account_performance, build_equity_curve).                   *)

FirstDate == Min({deals[i].date : i \in Filled})

\* The days on which a traded code has a bar, or else those of the fills.
CurveCalendar ==
    LET traded == {deals[i].paper : i \in Filled}
        bars == {d \in FirstDate..date : \E p \in traded : market[p][d] # 0}
    IN IF bars # {} THEN bars ELSE {deals[i].date : i \in Filled}

\* make_close_lookup over the prices since the first fill.
CloseOnOrBefore(p, d) ==
    LET known == {e \in FirstDate..d : market[p][e] # 0}
    IN IF known = {} THEN 0 ELSE market[p][Max(known)]

\* Fills count on the days of the calendar only.
EquityOn(d) ==
    LET applied == {i \in Filled : deals[i].date \in CurveCalendar /\ deals[i].date <= d}
    IN Capital + Cash(applied)
         + SumFunction([p \in Papers |-> Max({0, Position(p, applied)}) * CloseOnOrBefore(p, d)])

\* Snapshots are shown where there are any.
Snapshots == {d \in Dates : navs[d] # -1}
CurveDays == IF Snapshots # {} THEN Snapshots ELSE IF Filled # {} THEN CurveCalendar ELSE {}
CurveAt(d) == IF Snapshots # {} THEN navs[d] ELSE EquityOn(d)
-----------------------------------------------------------------------------
\* The gate closes for purchases only.
PlaceDeal(p, side, n, price) ==
    /\ Len(deals) < MaxDeals
    /\ side = "BUY" => ~LossReached
    /\ deals' = Append(deals, [paper |-> p, side |-> side, asked |-> n, filled |-> 0, price |-> price,
                               date |-> date, stamp |-> Len(deals) + 1])
    /\ UNCHANGED <<market, older, stamping, date, shares, navs, worth>>

\* The broker (external) fills one more share of an order of today; the row takes
\* the time of its answer.
FillShare(i) ==
    /\ deals[i].date = date /\ deals[i].filled < deals[i].asked
    /\ deals[i].side = "SELL" => Owned(deals[i].paper) > 0
    /\ shares' = Append(shares, i)
    /\ deals' = [deals EXCEPT ![i].filled = @ + 1,
                    ![i].stamp = IF stamping = "fill" THEN MaxDeals + Len(shares) + 1 ELSE @]
    /\ UNCHANGED <<market, older, stamping, date, navs, worth>>

Evaluation == Capital + Cash(Filled)
                + SumFunction([p \in Papers |-> Owned(p) * LastPrice(p, date)])

\* The day ends; run_nav_snapshot records the broker's evaluation or fails.
EndOfDay ==
    /\ date < LastDate /\ date' = date + 1
    /\ worth' = [worth EXCEPT ![date] = Evaluation]
    /\ navs' \in {navs, [navs EXCEPT ![date] = Evaluation]}
    /\ UNCHANGED <<market, older, stamping, deals, shares>>

LedgerInit ==
    /\ market \in Markets /\ older \in Inheritances /\ stamping \in {"order", "fill"}
    /\ date = 1 /\ deals = <<>> /\ shares = <<>>
    /\ navs = [d \in Dates |-> -1] /\ worth = [d \in Dates |-> 0]

LedgerNext ==
    \/ \E p \in Papers, side \in {"BUY", "SELL"} : \E n \in Sizes[p] :
          PlaceDeal(p, side, n, LastPrice(p, date))
    \/ \E i \in DOMAIN deals : FillShare(i)
    \/ EndOfDay

LedgerSpec == LedgerInit /\ [][LedgerNext]_ledgerVars
-----------------------------------------------------------------------------
(* Properties.                                                                 *)

SharesOf(p, sides) ==
    Chosen(shares, {y \in DOMAIN shares : deals[shares[y]].paper = p /\ deals[shares[y]].side \in sides})

\* The k-th share sold is the k-th share bought, the older ones first.
GainByShare(p, d) ==
    LET bought == SharesOf(p, {"BUY"})
        sold == SharesOf(p, {"SELL"})
    IN SumFunction([k \in {k \in DOMAIN sold : k > older[p] /\ deals[sold[k]].date = d} |->
                        ShareFlow(sold[k]) + ShareFlow(bought[k - older[p]])])

\* The order of the rows says in which order the shares of a code were filled.
FilledInOrder(p) ==
    LET mine == SharesOf(p, {"BUY", "SELL"})
    IN \A j, k \in DOMAIN mine : j < k => deals[mine[j]].stamp <= deals[mine[k]].stamp

\* Every fill falls on a day of the curve, and the stored closes since the first
\* fill value every position of it.
CurveIsComplete(d) ==
    /\ \A i \in Filled : deals[i].date <= d =>
          deals[i].date \in CurveCalendar /\ CloseOnOrBefore(deals[i].paper, d) # 0
    /\ \A p \in Papers : older[p] = 0

\* The books agree with the broker's: for a code all of whose shares have a row,
\* filled in the order of the rows, the profit of every day is that of the shares
\* sold, each against the share bought first; and where closes and rows are
\* complete the curve of every past day shows what the account was worth.
BooksAgree ==
    /\ \A p \in Papers : (older[p] = 0 /\ FilledInOrder(p)) =>
          \A d \in 1..date : RealizedBetween(d, d, {p}) = GainByShare(p, d)
    /\ \A d \in CurveDays : (d < date /\ (Snapshots # {} \/ CurveIsComplete(d))) =>
          CurveAt(d) = worth[d]

\* A sale of shares that were held before the first row is "skipped rather than
\* guessed" (reconstruct.py:154).
OlderIsSkipped ==
    \A p \in Papers : FilledInOrder(p) =>
        \A d \in 1..date : RealizedBetween(d, d, {p}) = GainByShare(p, d)
=============================================================================
