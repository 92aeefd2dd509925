------------------------------- MODULE Ratings --------------------------------
(* Grades of codes to buy and of positions to sell: the evening's and the     *)
(* hourly lane of services/batch/rating_batch.py, the request for one code of *)
(* api/ratings.py, the rules of services/ratings/buy_axis.py and sell_axis.py *)
(* and the tables of services/ratings/store.py.                               *)
(*                                                                            *)
(* The lanes have cron jobs hours apart and do not overlap here; a request    *)
(* for one code may fall anywhere.  A position is the rate of its profit and  *)
(* its value, both as the broker shows them.                                  *)
EXTENDS Integers, FiniteSets, FiniteSetsExt

CONSTANTS
    Shares, Funds,   \* the universes of the two sleeves, codes as numbers
    Strangers,       \* codes of no universe that are held, watched or graded already
    Foreign,         \* those of them that are no Korean code
    Wallets,         \* accounts of the brokers
    Portfolios,      \* positions tried for a wallet
    Asked,           \* codes that requests ask for
    DayScores,       \* scores tried for a day
    StopLoss,        \* -RATING_STOP_LOSS_PCT
    WalletCash,      \* the cash of an account
    StockPlan, FundPlan,  \* the strategies' rules for positions
    FundPlanFound,   \* whether the file of the funds' strategy exists
    FundShare,       \* sleeve_etf_weight, in percent
    TopFunds         \* top_n of the funds' strategy

Graded == Shares \cup Funds \cup Strangers
NoScore == -1
NoPosition == [rate |-> 0, value |-> 0]
Plan == [takeProfit : Nat, band : Nat]      \* in percent, 0 for none

ASSUME RatingsAssumption ==
    /\ IsFiniteSet(Graded) /\ Graded \subseteq Nat
    /\ Asked \subseteq Graded /\ Foreign \subseteq Strangers
    /\ Shares \cap Funds = {} /\ Strangers \cap (Shares \cup Funds) = {}
    /\ Portfolios \subseteq [Graded -> [rate : Int, value : Nat]]
    /\ DayScores \subseteq [Graded -> Nat \cup {NoScore}]
    /\ StopLoss \in Int /\ WalletCash \in Nat \ {0} /\ StockPlan \in Plan /\ FundPlan \in Plan
    /\ FundPlanFound \in BOOLEAN /\ FundShare \in 0..100 /\ TopFunds \in Nat

VARIABLES
    portfolio,   \* the positions of the brokers' accounts
    dayScore,    \* what research.db gives to score by
    job,         \* the lane that runs: where it is, whom it reached, what it saw
    wanted,      \* the code of a request that waits for RATING_LOCK, 0 for none
    buyRow,      \* stock_ratings
    sellRow,     \* position_ratings
    tells         \* history: what the rows of a wallet were made of

ratingsVars == <<portfolio, dayScore, job, wanted, buyRow, sellRow, tells>>

SellGrades == {"SELL_NOW", "SELL", "WATCH", "HOLD", "KEEP"}
BuyGrades == {"STRONG_BUY", "BUY", "NEUTRAL", "REDUCE", "AVOID"}
NoRow == "none"
BuyRow == [by : {"stock", "fund"}, status : {"OK", "NO_DATA", "UNSUPPORTED"},
           grade : BuyGrades \cup {NoRow}, percent : 0..100]
Unrated == [by |-> "stock", status |-> NoRow, grade |-> NoRow, percent |-> 0]
Rested == [stage |-> "rest", lane |-> NoRow, reached |-> {}, seen |-> [w \in Wallets |-> {}]]
Untells == [known |-> FALSE, rate |-> [c \in Graded |-> 0], held |-> {}, dipped |-> {},
           evening |-> [c \in Graded |-> NoRow]]

HeldIn(p) == {c \in Graded : p[c].value > 0}

RatingsTypeOK ==
    /\ portfolio \in [Wallets -> Portfolios] /\ dayScore \in DayScores
    /\ job.stage \in {"rest", "reached", "halfway", "graded", "cleared"}
    /\ job.lane \in {"EOD", "INTRADAY", NoRow} /\ job.reached \subseteq Wallets
    /\ wanted \in Graded \cup {0}
    /\ buyRow \in [Graded -> BuyRow \cup {Unrated}]
    /\ sellRow \in [Wallets -> [Graded -> SellGrades \cup {NoRow}]]
-----------------------------------------------------------------------------
(* Grades to buy.                                                              *)

Scored(codes) == {c \in codes : dayScore[c] # NoScore}

\* _quintile
Quintile(percent) ==
    IF percent >= 80 THEN "STRONG_BUY" ELSE IF percent >= 60 THEN "BUY"
    ELSE IF percent >= 40 THEN "NEUTRAL" ELSE IF percent >= 20 THEN "REDUCE" ELSE "AVOID"

\* compute_buy_ratings: a code of the universe or beside it, by the share of the
\* universe that scores less.
BuyRating(c, universe, by) ==
    LET percent == IF Scored(universe) = {} THEN 0
                   ELSE (100 * Cardinality({u \in Scored(universe) : dayScore[u] < dayScore[c]}))
                          \div Cardinality(Scored(universe))
        none(status) == [by |-> by, status |-> status, grade |-> NoRow, percent |-> 0]
    IN IF c \in Foreign THEN none("UNSUPPORTED")
       ELSE IF dayScore[c] = NoScore THEN none("NO_DATA")
       ELSE [by |-> by, status |-> "OK", grade |-> Quintile(percent), percent |-> percent]

BuyRatings(universe, extras, by) == [c \in universe \cup extras |-> BuyRating(c, universe, by)]

\* remap_etf_grades: funds are graded by their rank.
FundRatings(extras) ==
    LET ratings == BuyRatings(Funds, extras, "fund")
        ok == {c \in DOMAIN ratings : ratings[c].status = "OK"}
        rank(c) == 1 + Cardinality({o \in ok : \/ dayScore[o] > dayScore[c]
                                               \/ dayScore[o] = dayScore[c] /\ o < c})
        grade(r) == IF r = 1 THEN "STRONG_BUY" ELSE IF r <= TopFunds THEN "BUY"
                    ELSE IF r <= TopFunds + 2 THEN "NEUTRAL" ELSE "AVOID"
    IN [c \in DOMAIN ratings |->
          IF c \in ok
          THEN [ratings[c] EXCEPT !.grade = grade(rank(c)),
                   !.percent = (100 * (Cardinality(ok) - rank(c) + 1)) \div Cardinality(ok)]
          ELSE ratings[c]]

\* upsert_stock_ratings
BuyUpsert(ratings) ==
    buyRow' = [c \in Graded |-> IF c \in DOMAIN ratings THEN ratings[c] ELSE buyRow[c]]
-----------------------------------------------------------------------------
(* Grades to sell.                                                             *)

\* The evaluation of an account by its broker.
WalletNav(p) == WalletCash + MapThenSumSet(LAMBDA c : p[c].value, Graded)

\* _band_trim_cap: the weight of the position in its sleeve against an equal one.
Overweight(p, c, plan, share) ==
    /\ plan.band > 0 /\ share > 0
    /\ 10000000 * p[c].value * Cardinality(HeldIn(p)) > 995 * plan.band * WalletNav(p) * share

PercentGrade(percent) ==
    IF percent < 20 THEN "SELL" ELSE IF percent < 40 THEN "WATCH"
    ELSE IF percent < 60 THEN "HOLD" ELSE "KEEP"

\* rate_position as the evening's lane calls it.
RatePosition(p, c) ==
    LET isFund == c \in Funds
        plan == IF isFund /\ FundPlanFound THEN FundPlan ELSE StockPlan
        rating == IF isFund THEN FundRatings({})[c] ELSE BuyRating(c, Shares, "stock")
        rated == rating.status = "OK" /\ (isFund => FundPlanFound)
        inUniverse == c \in Shares \/ (isFund /\ FundPlanFound)
        byScore == IF rated THEN PercentGrade(rating.percent) ELSE "HOLD"
    IN IF p[c].rate <= -StopLoss THEN "SELL_NOW"
       ELSE IF plan.takeProfit > 0 /\ p[c].rate >= plan.takeProfit THEN "SELL"
       ELSE IF /\ byScore \in {"HOLD", "KEEP"} /\ inUniverse
               /\ Overweight(p, c, plan, IF isFund THEN FundShare ELSE 100 - FundShare)
            THEN "WATCH" ELSE byScore

\* What run_rating_intraday makes of a position and of its row.
Regraded(p, c, row) ==
    IF p[c].rate <= -StopLoss THEN "SELL_NOW" ELSE IF row # NoRow THEN row ELSE "HOLD"
-----------------------------------------------------------------------------
(* The lanes.                                                                  *)

Grade(lane, w) ==
    LET p == job.seen[w]
    IN [c \in Graded |-> IF c \notin HeldIn(p) THEN NoRow
                         ELSE IF lane = "EOD" THEN RatePosition(p, c)
                         ELSE Regraded(p, c, sellRow[w][c])]

\* _fetch_broker_accounts: some accounts may not answer.
FetchAccounts(lane) ==
    /\ job.stage = "rest"
    /\ \E reached \in SUBSET Wallets :
         job' = [stage |-> IF lane = "EOD" THEN "reached" ELSE "graded", lane |-> lane, reached |-> reached,
                 seen |-> [w \in Wallets |-> IF w \in reached THEN portfolio[w] ELSE {}]]
    /\ UNCHANGED <<portfolio, dayScore, wanted, buyRow, sellRow, tells>>

\* run_rating_eod under RATING_LOCK: first the stocks with what is held, watched
\* or graded beside them, then the funds.
GradeStocks ==
    /\ job.stage = "reached" /\ job' = [job EXCEPT !.stage = "halfway"]
    /\ BuyUpsert(BuyRatings(Shares, Strangers, "stock"))
    /\ UNCHANGED <<portfolio, dayScore, wanted, sellRow, tells>>

GradeFunds ==
    /\ job.stage = "halfway" /\ job' = [job EXCEPT !.stage = "graded"]
    /\ IF FundPlanFound THEN BuyUpsert(FundRatings({})) ELSE UNCHANGED buyRow
    /\ UNCHANGED <<portfolio, dayScore, wanted, sellRow, tells>>

Locked == job.stage = "halfway"

\* Mutant of ClearedBy: the rows of every account go.
ClearedAll == Wallets

ClearedBy == job.reached

\* The grades are made, then the rows of the accounts that answered are deleted,
\* in a transaction of their own.
ClearRows ==
    /\ job.stage = "graded"
    /\ job' = [job EXCEPT !.stage = "cleared", !.seen = [w \in Wallets |->
                  IF w \in job.reached THEN [at |-> @[w], grade |-> Grade(job.lane, w)] ELSE {}]]
    /\ sellRow' = [w \in Wallets |-> IF w \in ClearedBy THEN [c \in Graded |-> NoRow] ELSE sellRow[w]]
    /\ tells' = [w \in Wallets |->
                  IF w \in job.reached THEN [tells[w] EXCEPT !.known = FALSE] ELSE tells[w]]
    /\ UNCHANGED <<portfolio, dayScore, wanted, buyRow>>

\* What the new rows of a wallet tell, for the properties.
Telling(w) ==
    LET p == job.seen[w].at
        low == {c \in HeldIn(p) : p[c].rate <= -StopLoss}
        evening == job.lane = "EOD"
    IN [known |-> TRUE, rate |-> [c \in Graded |-> p[c].rate], held |-> HeldIn(p),
        dipped |-> IF evening THEN low ELSE low \cup (tells[w].dipped \cap HeldIn(p)),
        evening |-> IF evening THEN job.seen[w].grade
                    ELSE [c \in Graded |-> IF c \in HeldIn(p) THEN tells[w].evening[c] ELSE NoRow]]

WriteRows ==
    /\ job.stage = "cleared" /\ job' = Rested
    /\ sellRow' = [w \in Wallets |-> IF w \in job.reached THEN job.seen[w].grade ELSE sellRow[w]]
    /\ tells' = [w \in Wallets |-> IF w \in job.reached THEN Telling(w) ELSE tells[w]]
    /\ UNCHANGED <<portfolio, dayScore, wanted, buyRow>>

\* A lane raises, or the process ends: a lane is not resumed.
LaneFails ==
    /\ job.stage # "rest" /\ job' = Rested
    /\ tells' = [w \in Wallets |-> IF tells[w].known THEN tells[w] ELSE Untells]
    /\ UNCHANGED <<portfolio, dayScore, wanted, buyRow, sellRow>>
-----------------------------------------------------------------------------
(* Requests for one code, and the world.                                       *)

\* compute_rating refuses while the lock is held (RATING_BUSY).
AskFor(c) ==
    /\ wanted = 0 /\ c \notin Foreign /\ ~Locked
    /\ wanted' = c
    /\ UNCHANGED <<portfolio, dayScore, job, buyRow, sellRow, tells>>

\* It scores the code with the whole universe of its strategy and stores them all.
ComputeOne ==
    /\ wanted # 0 /\ ~Locked /\ wanted' = 0
    /\ BuyUpsert(IF wanted \in Funds /\ FundPlanFound THEN FundRatings({wanted})
                 ELSE BuyRatings(Shares, {wanted}, "stock"))
    /\ UNCHANGED <<portfolio, dayScore, job, sellRow, tells>>

\* Orders and prices change an account; a day brings new scores, with the
\* ingestion that ends before the evening's lane begins.
PortfolioMoves ==
    /\ \E w \in Wallets, p \in Portfolios : portfolio' = [portfolio EXCEPT ![w] = p]
    /\ UNCHANGED <<dayScore, job, wanted, buyRow, sellRow, tells>>
ScoresMove ==
    /\ job.stage = "rest" /\ wanted = 0
    /\ dayScore' \in DayScores
    /\ UNCHANGED <<portfolio, job, wanted, buyRow, sellRow, tells>>

RatingsInit ==
    /\ portfolio \in [Wallets -> Portfolios] /\ dayScore \in DayScores
    /\ job = Rested /\ wanted = 0
    /\ buyRow = [c \in Graded |-> Unrated]
    /\ sellRow = [w \in Wallets |-> [c \in Graded |-> NoRow]]
    /\ tells = [w \in Wallets |-> Untells]

RatingsNext ==
    \/ \E lane \in {"EOD", "INTRADAY"} : FetchAccounts(lane)
    \/ GradeStocks \/ GradeFunds \/ ClearRows \/ WriteRows \/ LaneFails
    \/ \E c \in Asked : AskFor(c)
    \/ ComputeOne \/ PortfolioMoves \/ ScoresMove

RatingsSpec == RatingsInit /\ [][RatingsNext]_ratingsVars
-----------------------------------------------------------------------------
\* The rows of an account are those of the last time it answered, whatever other
\* accounts did since: its positions then, no others, each at or below the line
\* graded for sale at once, and none so graded that has not been there since the
\* last evening.  Only a lane that ends between its two transactions empties them.
RowsFollowTheAccount ==
    \A w \in Wallets :
        IF tells[w].known
        THEN \A c \in Graded :
               /\ sellRow[w][c] # NoRow <=> c \in tells[w].held
               /\ c \in tells[w].held /\ tells[w].rate[c] <= -StopLoss => sellRow[w][c] = "SELL_NOW"
               /\ sellRow[w][c] = "SELL_NOW" => c \in tells[w].dipped
        ELSE \A c \in Graded : sellRow[w][c] = NoRow

\* "The other grades keep the value of the last evening" (rating_batch.py:17-20):
\* a position above the line has the evening's grade, if it was graded then.
OthersKeepTheEvening ==
    \A w \in Wallets : \A c \in tells[w].held :
        tells[w].known /\ tells[w].rate[c] > -StopLoss /\ tells[w].evening[c] # NoRow
            => sellRow[w][c] = tells[w].evening[c]

\* A request grades a code as the evening's lane does (api/ratings.py:8-9), which
\* leaves the funds alone when their strategy is missing.
FundsGradedAsFunds == \A c \in Funds : buyRow[c].status # NoRow => buyRow[c].by = "fund"
=============================================================================
