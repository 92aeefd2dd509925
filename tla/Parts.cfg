\* One component moves in each behaviour; Moving names those that may.  A what-if keeps one
\* of them, gives the constants named here and the invariant or property it is about:
\*   {"rules"}: ExitIsFinal is violated with Sleeves <- DailyRulesOnly, ManualIsLeft with
\*       StockRotations, RestIsCarriedOver with Rotations.
\*   {"ingestion"}: ClosingBarStays is violated; with Tables <- MCSharedTable NoMaskedGap.
\*   {"llm"}: with Usages <- MCUsagesWithin and MaxLosses = 0 DailyCap is violated.
\*   {"ledger"}: with Inheritances <- MCOneOlder OlderIsSkipped is violated.
\*   {"ratings"}: with FundPlanFound = FALSE FundsGradedAsFunds is violated, and with
\*       DayScores <- MCDayScores OthersKeepTheEvening.
\*   {"caches"}: KeyFetchedOnce or BoardRefreshedOnce is violated.
SPECIFICATION PartsSpec
CONSTANTS
    Moving = {"backtest", "rules", "manual", "ingestion", "llm", "telegram",
              "ledger", "ratings", "caches"}
    Codes = {1, 2, 3}
    Calendar <- MCCalendar
    Strategies <- MCStrategies
    Quotes <- MCQuotes
    Rankings <- MCRankings
    Listed <- MCListed
    Exposures = {0, 50, 100}
    StartCash = 400000
    Persistence = 2
    Names = {1, 2, 3, 4, 5}
    Etfs = {4, 5}
    Listings = {1, 2}
    Sleeves <- MCSleeves
    Evenings <- MCEvenings
    Closes <- MCCloses
    Scorings <- MCScorings
    Regimes = {50, 101}
    StartHolding <- MCStartHolding
    StartMoney = 600
    Submissions = {q1, q2}
    OrderKeys = {k1}
    k1 = k1
    NoKey = NoKey
    OrderForms <- MCOrderForms
    MaxFaults = 2
    Tables <- MCGroupedTables
    Overlap = 1
    LastDay = 5
    l1 = l1
    l2 = l2
    l3 = l3
    report = report
    journal = journal
    Requests = {l1, l2, l3}
    Prompt <- MCPrompt
    Estimate <- MCEstimate
    Usages <- MCUsages
    Budget = 5
    Ttl = 2
    LastHalf = 2
    MaxLosses = 1
    Batch = {1, 2}
    MaxTaps = 2
    MaxCrashes = 1
    Papers = {"p1", "p2"}
    Markets <- MCMarkets
    Inheritances <- MCNoneOlder
    Capital = 20
    Fee = 1
    LossLimit = 5
    LastDate = 3
    MaxDeals = 3
    Sizes <- MCSizes
    Shares = {1, 2, 3}
    Asked = {4, 6}
    Funds = {4, 5}
    Strangers = {6, 7}
    Foreign = {7}
    Wallets = {w1, w2}
    Portfolios <- MCPortfolios
    DayScores <- MCOneDay
    StopLoss = 10
    WalletCash = 2
    StockPlan <- MCStockPlan
    FundPlan <- MCFundPlan
    FundPlanFound = TRUE
    FundShare = 20
    TopFunds = 1
    Callers = {a1, a2}
    Wants <- MCWants
    Lifetime <- MCLifetime
    LastInstant = 1
INVARIANTS
    PartsTypeOK
    BacktestHolds
    ProposalsFit
    OnceOnly
    RecordsAgree
    SumsAgree
PROPERTY
    StopIsProposed
CHECK_DEADLOCK FALSE
