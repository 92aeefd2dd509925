SPECIFICATION FairSpec
CONSTANTS
    p1 = p1
    p2 = p2
    Proposals = {p1}
    Requests = {r1, r2, r3}
    Terms <- SingleTerms
    Faults = {"restart", "insert"}
    MaxRestarts = 2
    NoProposal = NoProposal
    NoKey = NoKey
    NoTrade = NoTrade
INVARIANTS
    RepeatOnlyAfterLoss
    FailedMeansNoOrder
PROPERTIES
    MeetsContract
    ApprovedResolves
CHECK_DEADLOCK FALSE
