------------------------------- MODULE MCParts --------------------------------
(* An instance for TLC of nine components that share no state: the backtest, *)
(* the proposal rules, orders by hand, the ingestion of daily bars, the       *)
(* budget of the language model, the taps in Telegram, the ledger, the        *)
(* ratings and the shared caches.  Interleaving them would add nothing, so    *)
(* each behaviour moves one and leaves the others alone.                      *)
EXTENDS BacktestEngine, ManualOrder, ProposalRules, DataSync, LanguageModel,
        TelegramCommands, Ledger, Ratings, SharedCaches, TLC

Plain == [freq |-> 3, topN |-> 2, lag |-> 0, ramp |-> 0,
          stopLoss |-> 0, takeProfit |-> 0, bandTrim |-> 0, replaceBelow |-> 0,
          regime |-> "off", gate |-> FALSE, tax |-> "none", rate |-> 0, exemption |-> 0,
          taxed |-> {}, buyCost |-> 12, sellCost |-> 35]
MCStrategies == {
    [Plain EXCEPT !.stopLoss = -40, !.takeProfit = 90, !.replaceBelow = 60],
    [Plain EXCEPT !.bandTrim = 140, !.regime = "monthly"],
    [Plain EXCEPT !.freq = 1, !.lag = 1, !.ramp = 2, !.regime = "rebalance", !.buyCost = 600],
    [Plain EXCEPT !.gate = TRUE, !.tax = "annual", !.rate = 22, !.exemption = 10000],
    [Plain EXCEPT !.freq = 1, !.topN = 1, !.tax = "isa", !.rate = 10, !.taxed = {1, 2}],
    [Plain EXCEPT !.freq = 1, !.topN = 1, !.tax = "etf", !.rate = 15, !.taxed = {1}]}
MCCalendar == <<12, 12, 13, 15>>
MCQuotes == {<<1, 2, 1>>, <<2, 1, 0>>, <<1, 4, 2>>}
MCRankings == {<<1, 2, 3>>, <<3, 2, 1>>, <<2, 3>>}
MCListed == <<<<1, 9>>, <<1, 3>>, <<1, 9>>>>

CONSTANT k1
MCOrderForms == {
    [key |-> k1, broker |-> "KIS", digits |-> TRUE, account |-> "live", side |-> "BUY"],
    [key |-> k1, broker |-> "KIS", digits |-> FALSE, account |-> "live", side |-> "BUY"],
    [key |-> NoKey, broker |-> "KIS", digits |-> TRUE, account |-> "live", side |-> "SELL"]}

\* Stocks 1 and 2 are in the universe, 3 was bought by hand, 4 and 5 are funds.
Off == [mode |-> "rules", broker |-> "KIS", universe |-> "stock", weight |-> 100, picks |-> 2,
        gated |-> FALSE, stop |-> 0, profit |-> 0, below |-> 0, band |-> 0, regime |-> FALSE,
        ramp |-> 0, keeps |-> 4]
DailyRules == [Off EXCEPT !.stop = -40, !.profit = 90, !.below = 60, !.ramp = 3]
Limits == [Off EXCEPT !.stop = -40, !.band = 120, !.regime = TRUE, !.weight = 80]
TossRules == [Off EXCEPT !.broker = "TOSS", !.stop = -40, !.band = 140, !.weight = 60]
Rotation == [Off EXCEPT !.mode = "monthly", !.universe = "etf", !.ramp = 2, !.gated = TRUE]
StockRotation == [Off EXCEPT !.mode = "monthly", !.picks = 1]
Keeping == [Off EXCEPT !.mode = "hold", !.weight = 30]

MCSleeves == {DailyRules, Limits, TossRules, Rotation, StockRotation, Keeping}
Rotations == {Rotation}
StockRotations == {StockRotation}
DailyRulesOnly == {DailyRules}

MCEvenings == <<1, 1, 2>>
MCCloses == {<<2, 2, 1, 2, 1>>, <<1, 4, 2, 1, 1>>, <<1, 2, 0, 2, 0>>}
MCScorings == {<<1, 2, 4, 5>>, <<2, 1, 5>>}
MCStartHolding == <<4, 3, 1, 2, 0>>

\* A Korean table of codes, one that the KRX portal serves, the American prices, and
\* market_index, whose series share one day.
Korean == [c \in {"c1", "c2"} |-> 0]
MCPrices == [scope |-> {"c1", "c2"}, grouped |-> TRUE, upsert |-> FALSE, portal |-> FALSE,
             asksAll |-> FALSE, lag |-> Korean]
MCFlows == [MCPrices EXCEPT !.portal = TRUE, !.asksAll = TRUE]
MCPricesUs == [scope |-> {"t1", "t2"}, grouped |-> TRUE, upsert |-> TRUE, portal |-> FALSE,
               asksAll |-> TRUE, lag |-> [t \in {"t1", "t2"} |-> 1]]
MCMarketIndex ==
    [scope |-> {"KOSPI", "KOSDAQ"}, grouped |-> FALSE, upsert |-> FALSE, portal |-> FALSE,
     asksAll |-> TRUE, lag |-> [s \in {"KOSPI", "KOSDAQ", "VIX"} |-> IF s = "VIX" THEN 1 ELSE 0]]
MCGroupedTables == {MCPrices, MCFlows, MCPricesUs}
MCSharedTable == {MCMarketIndex}

\* Three requests, two of them with the same prompt: either two of them fit into the
\* budget of a day, or one that uses what it may.
CONSTANTS l1, l2, l3, report, journal
MCPrompt == l1 :> report @@ l2 :> report @@ l3 :> journal
MCEstimate == report :> 3 @@ journal :> 2
MCUsages == report :> {4} @@ journal :> {1}
MCUsagesWithin == report :> {1, 3} @@ journal :> {2}

\* There is no bar of p1 on the second day.
MCMarkets == {[p1 |-> <<4, 0, 2>>, p2 |-> <<3, 5, 1>>]}
MCNoneOlder == {[p \in {"p1", "p2"} |-> 0]}
MCOneOlder == {[p \in {"p1", "p2"} |-> IF p = "p1" THEN 1 ELSE 0]}
MCSizes == [p1 |-> {2}, p2 |-> {1}]

\* 1 to 3 are stocks, 4 and 5 funds, 6 a stock of no universe and 7 a foreign one.
Holding(held) == [c \in Graded |->
    IF \E h \in held : h[1] = c
    THEN LET h == CHOOSE x \in held : x[1] = c IN [rate |-> h[2], value |-> h[3]]
    ELSE [rate |-> 0, value |-> 0]]

MCPortfolios == {Holding({<<1, 5, 6>>, <<4, 40, 1>>, <<7, 0, 1>>}),
                 Holding({<<1, -12, 5>>, <<2, -10, 3>>, <<6, 35, 1>>})}
MCDayScores == {[c \in Graded |-> CASE c = 7 -> -1 [] c = 6 -> 4 [] OTHER -> c],
                [c \in Graded |-> CASE c = 7 -> -1 [] c = 2 -> -1 [] OTHER -> 6 - c]}
MCOneDay == {CHOOSE s \in MCDayScores : s[1] = 1}
MCStockPlan == [takeProfit |-> 30, band |-> 150]
MCFundPlan == [takeProfit |-> 0, band |-> 120]

\* Two clients of an account, the rate and the board.
MCWants == {[value |-> "token", lock |-> "client1"], [value |-> "approval", lock |-> "client1"],
            [value |-> "token", lock |-> "client2"], [value |-> "rate", lock |-> "fx"],
            [value |-> "board", lock |-> "snapshot"]}
MCLifetime == [n \in ValueNames |-> 1]

-----------------------------------------------------------------------------
CONSTANT Moving    \* the components of which one moves

ASSUME MovingAssumption ==
    Moving \subseteq {"backtest", "rules", "manual", "ingestion", "llm", "telegram", "ledger",
                     "ratings", "caches"}

VARIABLE part      \* the one that does
partsVars == <<part, engineVars, rulesVars, manualVars, syncVars, llmVars,
               telegramVars, ledgerVars, ratingsVars, cachesVars>>

\* The components at rest start from one state, the moving one from each of its own.
PartsInit ==
    /\ part \in Moving
    /\ EngineInit /\ (part # "backtest" => strategy = CHOOSE s \in Strategies : TRUE)
    /\ RulesInit /\ (part # "rules" => /\ sleeve = CHOOSE s \in Sleeves : TRUE
                                      /\ close = CHOOSE q \in Closes : TRUE)
    /\ ManualInit
    /\ part # "manual" => form = [q \in Submissions |-> CHOOSE o \in OrderForms : TRUE]
    /\ part # "manual" => ~killed /\ ~lossy
    /\ SyncInit /\ (part # "ingestion" => /\ table = CHOOSE t \in Tables : TRUE
                                         /\ \A s \in Series : DaysOf(s) # {})
    /\ LlmInit /\ TelegramInit
    /\ LedgerInit /\ (part # "ledger" => stamping = "fill")
    /\ RatingsInit
    /\ part # "ratings" => portfolio = [w \in Wallets |-> CHOOSE p \in Portfolios : TRUE]
    /\ CachesInit

Rest(others) == UNCHANGED <<part, others>>

PartsNext ==
    \/ /\ part = "backtest" /\ EngineNext
       /\ Rest(<<rulesVars, manualVars, syncVars, llmVars, telegramVars, ledgerVars,
                 ratingsVars, cachesVars>>)
    \/ /\ part = "rules" /\ RulesNext
       /\ Rest(<<engineVars, manualVars, syncVars, llmVars, telegramVars, ledgerVars,
                 ratingsVars, cachesVars>>)
    \/ /\ part = "manual" /\ ManualNext
       /\ Rest(<<engineVars, rulesVars, syncVars, llmVars, telegramVars, ledgerVars,
                 ratingsVars, cachesVars>>)
    \/ /\ part = "ingestion" /\ SyncNext
       /\ Rest(<<engineVars, rulesVars, manualVars, llmVars, telegramVars, ledgerVars,
                 ratingsVars, cachesVars>>)
    \/ /\ part = "llm" /\ LlmNext
       /\ Rest(<<engineVars, rulesVars, manualVars, syncVars, telegramVars, ledgerVars,
                 ratingsVars, cachesVars>>)
    \/ /\ part = "telegram" /\ TelegramNext
       /\ Rest(<<engineVars, rulesVars, manualVars, syncVars, llmVars, ledgerVars,
                 ratingsVars, cachesVars>>)
    \/ /\ part = "ledger" /\ LedgerNext
       /\ Rest(<<engineVars, rulesVars, manualVars, syncVars, llmVars, telegramVars,
                 ratingsVars, cachesVars>>)
    \/ /\ part = "ratings" /\ RatingsNext
       /\ Rest(<<engineVars, rulesVars, manualVars, syncVars, llmVars, telegramVars,
                 ledgerVars, cachesVars>>)
    \/ /\ part = "caches" /\ CachesNext
       /\ Rest(<<engineVars, rulesVars, manualVars, syncVars, llmVars, telegramVars,
                 ledgerVars, ratingsVars>>)

PartsSpec == PartsInit /\ [][PartsNext]_partsVars

\* Every variable of the component that moves keeps its type.
PartsTypeOK ==
    CASE part = "backtest" -> EngineTypeOK
      [] part = "rules" -> RulesTypeOK
      [] part = "manual" -> ManualTypeOK
      [] part = "ingestion" -> SyncTypeOK
      [] part = "llm" -> LlmTypeOK
      [] part = "telegram" -> TelegramTypeOK
      [] part = "ledger" -> LedgerTypeOK
      [] part = "ratings" -> RatingsTypeOK
      [] part = "caches" -> CachesTypeOK

\* The backtest trades like an account: what it buys it can pay for, and a position
\* enters the books at what was paid for it.
BacktestHolds == part = "backtest" => EveryBuyIsFunded /\ EntryIsCost

\* What is asked for twice is done once: a manual order whose key is stored is not placed
\* again, a tap that is dropped from the queue was done, and callers that share a lock
\* fetch a value once.
OnceOnly ==
    /\ part = "manual" => NoRepeatOfStored
    /\ part = "telegram" => DroppedIsDone
    /\ part = "caches" => SharedValuesHold

\* Stored records agree with what they record: rating rows with the account as it last
\* answered, and daily bars with the trading days.
RecordsAgree ==
    /\ part = "ratings" => RowsFollowTheAccount
    /\ part = "ingestion" => NoHoles

\* What is added up from rows is what happened: lots and curve against the fills, and the
\* tokens of a day against the language model's budget.
SumsAgree ==
    /\ part = "ledger" => BooksAgree
    /\ part = "llm" => BudgetRespected
=============================================================================
