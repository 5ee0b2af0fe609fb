SPECIFICATION ProgressSpec
CONSTANTS
    Parts <- AllParts
    Dues = {d1}
    Rows = {r1}
    Sessions = {c1, c2}
    Itemised = {c1}
    Workers = {k1, k2}
    None = None
    Price <- EqualPrices
    PlatformFee = 1
    Isolated = FALSE
    MaxCrashes = 1
    Handlers = {w1, w2}
    MaxTime = 0
CHECK_DEADLOCK FALSE
INVARIANTS
    NumberedWithoutGaps
PROPERTIES
    AwaitedPaymentIsRecorded
    PlaceholderClears
    LockoutEnds
