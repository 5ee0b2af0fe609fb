SPECIFICATION PaymentsSpec
CONSTANTS
    Parts <- AllParts
    Requests = {q1, q2, q3}
    Ops <- Operations
    None = None
    Amount = 1
    Fee = 1
    GatewayFee = 1
    Opening <- OpeningBalances
    Isolated = TRUE
    MaxCrashes = 0
    Dues = {d1, d2}
    Rows = {r1, r2}
    Sessions = {c1, c2}
    Itemised = {c1, c2}
    Workers = {k1, k2}
    Price <- EqualPrices
    PlatformFee = 1
    MaxStops = 1
    MaxGuests = 2
    GuestDues = {1, 2}
    DueOf <- OwnDue
    MaxCodes = 1
    MaxAttempts = 1
    Completers = {"webhook"}
    Details = {a1, a2}
    MaxAccounts = 2
CHECK_DEADLOCK FALSE
SYMMETRY Symmetry
INVARIANTS
    RecordsAgree
    DuesFollowClaims
    DestinationFollowsDetails
PROPERTIES
    NoLostUpdate
    ImplementsCollection
