SPECIFICATION FairSpec
CONSTANTS
    KisOrders = {k1}
    TossOrders = {}
    KisSyncs = {ks}
    TossSyncs = {}
    Loop = Loop
    NoSync = NoSync
    Qty = 1
    MaxTaskPolls = 1
    Limit = 1
    ClosedListing = FALSE
    Faults = {"overlap", "insert", "restart"}
    MaxRestarts = 1
PROPERTIES
    EveryOrderRecorded
    RowsSettle
CHECK_DEADLOCK FALSE
