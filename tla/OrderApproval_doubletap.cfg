SPECIFICATION Spec
CONSTANTS
    p1 = p1
    p2 = p2
    Proposals = {p1}
    Requests = {r1, r2}
    Terms <- SingleTerms
    Faults = {"overlap"}
    MaxRestarts = 0
    NoProposal = NoProposal
    NoKey = NoKey
    NoTrade = NoTrade
INVARIANTS
    OneOrderPerProposal
CHECK_DEADLOCK FALSE
