SPECIFICATION Spec
CONSTANTS
    p1 = p1
    p2 = p2
    Proposals = {p1, p2}
    Requests = {r1, r2, r3}
    Terms <- LiveTerms
    Faults = {"overlap", "restart", "insert", "reply"}
    MaxRestarts = 1
    NoProposal = NoProposal
    NoKey = NoKey
    NoTrade = NoTrade
SYMMETRY AnyRequest
INVARIANTS
    TypeOK
    DeclinedNeverOrdered
    OneKeyPerProposal
    LedgerTruthful
PROPERTIES
    DecisionsAreFinal
CHECK_DEADLOCK FALSE
