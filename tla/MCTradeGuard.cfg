SPECIFICATION Spec
CONSTANTS
    place = place
    exchangeTool = exchangeTool
    read = read
    two = two
    one = one
    one2 = one2
    comma = comma
    over = over
    minus = minus
    both = both
    shares = shares
    unread = unread
    batch = batch
    huge = huge
    bare = bare
    listing = listing
    news = news
    swap = swap
    Requests = {two, comma, both, minus, unread}
    Body <- MCBody
    Tools <- MCTools
    NoTool = NoTool
    OrderTools = {place}
    OrderyTools = {place, exchangeTool}
    Listings <- MCListings
    AllowedSymbols = {"AAPL"}
    AllowUnknown = TRUE
    AllowUnmatched = FALSE
    MaxOrderUsd = 2
    MaxDailyUsd = 2
    Window = 1
    HookThrows = TRUE
    BodyFails = FALSE
    ClockSteps = FALSE
    MaxTime = 2
    MaxLives = 1
    Never = Never
CHECK_DEADLOCK FALSE
INVARIANTS
    TypeOK
    WindowCap
    ParsedFieldsCapped
    OneFate
PROPERTIES
    KeepsCap
