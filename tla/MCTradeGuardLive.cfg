SPECIFICATION FairSpec
CONSTANTS
    place = place
    exchangeTool = exchangeTool
    read = read
    two = two
    one = one
    one2 = one2
    comma = comma
    over = over
    minus = minus
    both = both
    shares = shares
    unread = unread
    batch = batch
    huge = huge
    bare = bare
    listing = listing
    news = news
    swap = swap
    Requests = {two, huge, listing, news}
    Body <- MCBody
    Tools <- MCTools
    NoTool = NoTool
    OrderTools = {place}
    OrderyTools = {place, exchangeTool}
    Listings <- MCListings
    AllowedSymbols = {"AAPL"}
    AllowUnknown = FALSE
    AllowUnmatched = FALSE
    MaxOrderUsd = 2
    MaxDailyUsd = 3
    Window = 1
    HookThrows = FALSE
    BodyFails = TRUE
    ClockSteps = TRUE
    MaxTime = 1
    MaxLives = 2
    Never = Never
CHECK_DEADLOCK FALSE
PROPERTIES
    NothingHangs
