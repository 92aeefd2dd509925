SPECIFICATION RealTimeFairSpec
CONSTANTS
    Stocks = {s1}
    Clients = {c1}
    IsMock = FALSE
    Shares = 1
    MaxDrops = 1
    MaxErrors = 1
    MaxTrades = 1
    MaxWatches = 1
INVARIANTS
    StopSellsOnce
    WatchedIsFed
PROPERTY
    StopIsReached
CHECK_DEADLOCK FALSE
