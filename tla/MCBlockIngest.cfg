SPECIFICATION FairSpec
CONSTANTS
    e1 = e1
    e2 = e2
    Dests = {e1, e2}
    NoDest = NoDest
    Unset = Unset
    Chain <- MCChain
    FirstTip = 2
    StartBlocks <- MCStarts
    Lookback = 1
    Limit = 2
    MaxBlocks = 2
    CodeBudget = 1
    MaxBatches = 2
INVARIANTS
    CountedOnce
    ReportedOnce
    OnlyFullBatchPassesOver
PROPERTIES
    CatchesUp
    KeepsLog
