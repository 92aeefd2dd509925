SPECIFICATION Spec
CONSTANTS
    KisOrders = {k1}
    TossOrders = {}
    KisSyncs = {ks}
    TossSyncs = {}
    Loop = Loop
    NoSync = NoSync
    Qty = 1
    MaxTaskPolls = 1
    Limit = 1
    ClosedListing = FALSE
    Faults = {"overlap"}
    MaxRestarts = 0
INVARIANTS
    OneRowPerOrder
CHECK_DEADLOCK FALSE
