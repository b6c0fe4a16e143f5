CONSTANTS
    good = good
    evil = evil
    payGood = payGood
    payAgain = payAgain
    payEvil = payEvil
    tokenUpper = tokenUpper
    tokenLower = tokenLower
    tokenOther = tokenOther
    tokenThird = tokenThird
    page = page
    empty = empty
    ping = ping
    delivery = delivery
    null = null
    None = None
    Lines <- MCLines
    Line <- MCLine
    Requests <- MCRequests
    Decides <- MCDecides
    Nonce <- MCNonce
    Bodies <- MCBodies
    Addresses <- MCAddresses
    Lower <- MCLower
    Configs <- MCConfigs
    ScanBudget = 2
    MaxLines = 3
SPECIFICATION FairSpec
INVARIANTS BilledOnce AllowIsProven NonceTakenByAllow
PROPERTY Answered
CHECK_DEADLOCK FALSE
