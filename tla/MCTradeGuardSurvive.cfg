SPECIFICATION Spec
CONSTANTS
    place = place
    exchangeTool = exchangeTool
    read = read
    two = two
    one = one
    one2 = one2
    comma = comma
    over = over
    minus = minus
    both = both
    shares = shares
    unread = unread
    batch = batch
    huge = huge
    bare = bare
    listing = listing
    news = news
    swap = swap
    Requests = {two}
    Body <- MCBody
    Tools <- MCTools
    NoTool = NoTool
    OrderTools = {place}
    OrderyTools = {place, exchangeTool}
    Listings <- GoodListing
    AllowedSymbols = {"AAPL"}
    AllowUnknown = FALSE
    AllowUnmatched = FALSE
    MaxOrderUsd = 2
    MaxDailyUsd = 3
    Window = 1
    HookThrows = FALSE
    BodyFails = TRUE
    ClockSteps = FALSE
    MaxTime = 0
    MaxLives = 1
    Never = Never
CHECK_DEADLOCK FALSE
INVARIANTS
    ProxySurvives
