SPECIFICATION Spec
CONSTANTS
    Dues = {d1}
    Rows = {r1, r2}
    Sessions = {c1, c2}
    Itemised = {c1, c2}
    Workers = {k1, k2, k3}
    None = None
    Price <- EqualPrices
    PlatformFee = 1
    Isolated = FALSE
    MaxCrashes = 1
CHECK_DEADLOCK FALSE
SYMMETRY CheckoutSymmetry
INVARIANTS
    TypeOK
    OneActiveAttempt
    PaymentIsFunded
    DueFollowsPayments
