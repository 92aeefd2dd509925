---------------------------- MODULE UnifiedPortfolio ----------------------------
(* The overview of all accounts (api/portfolio.py): the balances of the KIS     *)
(* accounts, asked together, and of the Toss account, whose cash and missing    *)
(* prices are asked after its holdings, are added up in won.  Positions are     *)
(* left at what they are worth, in won or in dollars; gains are left out.       *)
EXTENDS Integers, FiniteSetsExt

CONSTANTS
    StartPurses,    \* what the accounts hold at first: functions of Accounts
    Rate,           \* won to a dollar
    Unheard         \* a figure an answer lacks

BrokerAccounts == {"paper", "live", "toss"}
KisAccounts == {"paper", "live"}
Assets == {"kr", "us", "krw", "usd"}    \* stocks and cash of the two countries
InDollars == {"us", "usd"}

\* The accounts at KIS hold no dollars.
ASSUME PortfolioAssumption ==
    /\ Rate \in Nat \ {0} /\ Unheard \notin Nat
    /\ StartPurses \subseteq [BrokerAccounts -> [Assets -> Nat]]
    /\ \A p \in StartPurses, a \in KisAccounts : p[a]["us"] = 0 /\ p[a]["usd"] = 0

VARIABLES
    purse,       \* by account, what it holds of each kind
    ask,         \* the request, between two awaits
    overview     \* its answer

portfolioVars == <<purse, ask, overview>>

NotAsked == [at |-> "idle", asked |-> {}, balance |-> <<>>, errors |-> {}, traded |-> FALSE]
NoOverview == [total |-> 0, counted |-> {}, errors |-> {}, asked |-> {}, whole |-> FALSE,
               traded |-> FALSE]
Blank == [k \in Assets |-> Unheard]

PortfolioTypeOK ==
    /\ purse \in [BrokerAccounts -> [Assets -> Nat]]
    /\ ask.at \in {"idle", "kis", "toss", "krw", "usd", "quotes", "fx"}
    /\ ask.asked \subseteq BrokerAccounts /\ DOMAIN ask.balance \subseteq ask.asked
    /\ \A a \in DOMAIN ask.balance : ask.balance[a] \in [Assets -> Nat \union {Unheard}]
    /\ overview.total \in Nat /\ overview.counted \subseteq overview.asked
-----------------------------------------------------------------------------
(* Adding up.                                                                  *)

\* Mutant of ToKrw: dollars are added to won as they are.
ToKrwOneToOne(amount, kind, rate) == IF amount = Unheard THEN 0 ELSE amount

\* _to_krw: nothing without a figure, nothing in dollars without a rate.
ToKrw(amount, kind, rate) ==
    IF amount = Unheard THEN 0 ELSE IF kind \in InDollars THEN amount * rate ELSE amount

\* _account_totals
AccountTotal(balance, rate) == MapThenSumSet(LAMBDA k : ToKrw(balance[k], k, rate), Assets)

\* _unified_response; no rate is a rate of 0.
Unified(rate) ==
    [total   |-> MapThenSumSet(LAMBDA a : AccountTotal(ask.balance[a], rate), DOMAIN ask.balance),
     counted |-> DOMAIN ask.balance,
     errors  |-> ask.errors, asked |-> ask.asked, traded |-> ask.traded,
     whole   |-> /\ rate = Rate \/ "toss" \notin DOMAIN ask.balance
                 /\ \A a \in DOMAIN ask.balance : Unheard \notin {ask.balance[a][k] : k \in Assets}]
-----------------------------------------------------------------------------
(* get_unified_portfolio                                                       *)

\* _unified_account_types: of one broker or all, with or without the paper account.
AskOverview(wanted, paperToo) ==
    /\ ask.at = "idle" /\ wanted # {}
    /\ ask' = [NotAsked EXCEPT !.at = "kis",
                               !.asked = IF paperToo THEN wanted ELSE wanted \ {"paper"}]
    /\ overview' = NoOverview /\ UNCHANGED purse

Answered(a, balance) == [b \in DOMAIN ask.balance \union {a} |->
                            IF b = a THEN balance ELSE ask.balance[b]]

\* KISRestClient.get_balance, with or without the sum it is taken from, or an error.
HearKis(a) ==
    /\ ask.at = "kis" /\ a \in (ask.asked \intersect KisAccounts) \ (DOMAIN ask.balance \union ask.errors)
    /\ \/ \E balance \in {purse[a], Blank} : ask' = [ask EXCEPT !.balance = Answered(a, balance)]
       \/ ask' = [ask EXCEPT !.errors = @ \union {a}]
    /\ UNCHANGED <<purse, overview>>

Answer(rate, errors) ==
    /\ overview' = [Unified(rate) EXCEPT !.errors = ask.errors \union errors]
    /\ ask' = NotAsked

\* All KIS answers are in.  A broken setting ends the request; a Toss account without
\* credentials is an error when it alone was asked for, and left out otherwise.
TurnToToss ==
    /\ ask.at = "kis"
    /\ (ask.asked \intersect KisAccounts) \subseteq (DOMAIN ask.balance \union ask.errors)
    /\ IF "toss" \notin ask.asked THEN Answer(0, {})
       ELSE \/ ask' = [ask EXCEPT !.at = "toss"] /\ UNCHANGED overview
            \/ ask' = NotAsked /\ UNCHANGED overview
            \/ /\ overview' = [Unified(0) EXCEPT !.errors = IF ask.asked = {"toss"} THEN {"toss"} ELSE @,
                                                 !.asked = IF ask.asked = {"toss"} THEN @ ELSE @ \ {"toss"}]
               /\ ask' = NotAsked
    /\ UNCHANGED purse

\* The holdings, with or without prices and cash, or an error.
HearToss ==
    /\ ask.at = "toss"
    /\ \/ \E lacks \in SUBSET {"us", "krw", "usd"} :
             ask' = [ask EXCEPT !.at = "krw",
                     !.balance = Answered("toss", [k \in Assets |-> IF k \in lacks THEN Unheard
                                                                   ELSE purse["toss"][k]])]
          /\ UNCHANGED overview
       \/ Answer(0, {"toss"})
    /\ UNCHANGED purse

\* What is missing is asked for, and stays missing when that fails.
Fill(kind, next) ==
    /\ \E found \in {purse["toss"][kind], Unheard} :
          ask' = [ask EXCEPT !.at = next,
                  !.balance["toss"][kind] = IF @ = Unheard THEN found ELSE @]
    /\ UNCHANGED <<purse, overview>>

\* _fill_missing_cash_from_buying_power, _safe_buying_power
FillCash == \/ ask.at = "krw" /\ Fill("krw", "usd")
            \/ ask.at = "usd" /\ Fill("usd", "quotes")

\* _enrich_position_prices
FillPrices == ask.at = "quotes" /\ Fill("us", "fx")

\* _portfolio_fx_rate
HearRate ==
    /\ ask.at = "fx"
    /\ Answer(Rate, {}) \/ Answer(0, {"rate"})
    /\ UNCHANGED purse
-----------------------------------------------------------------------------
\* A sale turns stocks of one country into its cash.
Sell(a, stock, cash) ==
    /\ purse[a][stock] > 0
    /\ purse' = [purse EXCEPT ![a][stock] = 0, ![a][cash] = @ + purse[a][stock]]
    /\ ask' = [ask EXCEPT !.traded = ask.at # "idle"]
    /\ UNCHANGED overview

PortfolioInit == purse \in StartPurses /\ ask = NotAsked /\ overview = NoOverview

PortfolioNext ==
    \/ \E wanted \in {BrokerAccounts, KisAccounts, {"toss"}}, paperToo \in BOOLEAN : AskOverview(wanted, paperToo)
    \/ \E a \in KisAccounts : HearKis(a)
    \/ TurnToToss \/ HearToss \/ FillCash \/ FillPrices \/ HearRate
    \/ \E a \in BrokerAccounts : Sell(a, "kr", "krw") \/ Sell(a, "us", "usd")

Worth(a) == purse[a]["kr"] + purse[a]["krw"] + Rate * (purse[a]["us"] + purse[a]["usd"])
WorthOf(accounts) == MapThenSumSet(Worth, accounts)

\* Whatever answers fail or lack figures, an account asked for is in the sum or among the
\* errors, and the sum never exceeds what the accounts in it are worth, nor falls short of
\* it when nothing was missing, unless something was sold while it was put together.
TotalIsRight ==
    /\ overview.asked \subseteq overview.counted \union overview.errors
    /\ ~overview.traded =>
          /\ overview.total <= WorthOf(overview.counted)
          /\ overview.whole => overview.total = WorthOf(overview.counted)

\* The sum is what the accounts were worth at some moment, sales or not.
TotalIsOfAMoment == overview.total <= WorthOf(overview.counted)

\* A sum that lacks something says so ("errors", api/portfolio.py:546).
GapsAreListed == overview.counted # {} /\ ~overview.whole => overview.errors # {}
=============================================================================
