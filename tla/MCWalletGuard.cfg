SPECIFICATION Spec
CONSTANTS
    me = me shop = shop other = other usdc = usdc vault = vault permit2 = permit2
    native = native unlimited = unlimited empty = empty
    coin = coin orbio = orbio
    here = here there = there noSite = noSite badSite = badSite
    None = None
    Unread = Unread
    HasType <- NestedType
    HoldsBytes <- NestedHoldsBytes
    Reads <- NestedReads
    Exact <- NestedExact
    LeavesBytesOpen <- NestedOpenBytes
    Match <- NestedMatch
    RouterPermits <- NestedPermits
    Means <- NestedMeans
    RouterGrants <- NestedGrants
    Accounts = {me, shop, other, usdc, vault, permit2, coin, orbio}
    Chains = {1, 2}
    MaxDepth = 16
    MaxAmount = 3
    Permit2 = permit2
    Native = native
    Unlimited = unlimited
    Empty = empty
    Trusted <- MCTrusted
    Day = 3
    Slack = 1
    Exchange = orbio
    Credit = shop
    Usdg = usdc
    Bridge = other
    OrbioChain = 1
    Coin = coin
    Hosts = {here, there}
    Issuer = there
    NoSite = noSite
    BadSite = badSite
    SwapOptions <- MCSwapOptions
    Calls <- MCCalls
    Requests <- MCRequests
    Intents <- MCIntents
    Policies <- MCPolicies
    Wallets = {"client", "ethers", "local"}
    MaxEdits = 1
    MaxTime = 3
INVARIANTS
    SignsWhatWasNamed
    StandingNamed
    NothingLeftInRouter
    PaymentAsQuoted
    LoginForThisSite
CHECK_DEADLOCK FALSE
