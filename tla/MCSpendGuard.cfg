SPECIFICATION FairSpec
CONSTANTS
    c1 = c1
    c2 = c2
    usdc = usdc
    weth = weth
    shop = shop
    other = other
    n1 = n1
    Calls = {c1, c2}
    Assets = {usdc, weth}
    Payees = {shop, other}
    Nonces = {n1}
    Requests <- MCRequests
    Policies <- MCPolicies
    MaxAmount = 2
    MaxMoves = 2
    WalletOutcomes = {"signs", "throws"}
    NoCall = NoCall
    NoNonce = NoNonce
    Unset = Unset
    Unreadable = Unreadable
PROPERTIES
    KeepsBudget
    AuthSettles
INVARIANTS
    TypeOK
    SpentIsHeld
    LifetimeTotal
    OnePolicyPerSigning
    NonceSignedOnce
