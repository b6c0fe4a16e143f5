SPECIFICATION MCSpec
CONSTANTS
    c1 = c1
    c2 = c2
    None = None
    Unread = Unread
    DefaultCap = 2
    CapCeiling = 3
    Calls = {c1, c2}
    Requests <- MCRequests
    Said <- MCSaid
    Setups <- MCSetups
    Edits <- MCEdits
    MaxTime = 1
CHECK_DEADLOCK FALSE
PROPERTY HandlerSettles
INVARIANTS
    TypeOK
    ClearedWasJudged
    BilledOnEvidence
    CapHolds
