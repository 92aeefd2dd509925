SPECIFICATION Spec
CONSTANTS
    KisOrders = {k1}
    TossOrders = {t1}
    KisSyncs = {ks}
    TossSyncs = {ts}
    Loop = Loop
    NoSync = NoSync
    Qty = 2
    MaxTaskPolls = 2
    Limit = 2
    ClosedListing = TRUE
    Faults = {"poll", "insert", "restart"}
    MaxRestarts = 1
INVARIANTS
    NeverOverstated
    TerminalRowsExact
    OneRowPerOrder
PROPERTIES
    RowsOnlyAdvance
CHECK_DEADLOCK FALSE
