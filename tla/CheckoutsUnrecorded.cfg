SPECIFICATION FairSpec
CONSTANTS
    Dues = {d1}
    Rows = {r1}
    Sessions = {c1}
    Itemised = {c1}
    Workers = {k1}
    None = None
    Price <- EqualPrices
    PlatformFee = 1
    Isolated = TRUE
    MaxCrashes = 0
CHECK_DEADLOCK FALSE
PROPERTIES
    ChargedIsRecorded
