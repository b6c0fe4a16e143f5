SPECIFICATION Spec
CONSTANTS
    agent = agent
    shop = shop
    other = other
    usdc = usdc
    agentAta = agentAta
    shopAta = shopAta
    shopAta22 = shopAta22
    otherAta = otherAta
    Accounts = {agent, shop, other, usdc, agentAta, shopAta, shopAta22, otherAta}
    TokenAccounts <- MCTokenAccounts
    Payee = shop
    Mint = usdc
    Instructions <- MCInstructions
    Questions <- MCQuestions
    MaxUnits = 3
    MicroPerLamport = 2
    MaxInstructions = 3
    Unread = Unread
    None = None
CHECK_DEADLOCK FALSE
INVARIANTS
    TypeOK
    PaysTheQuote
    NothingElse
    FeeAsPromised
