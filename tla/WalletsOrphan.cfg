SPECIFICATION Spec
CONSTANTS
    Requests = {q1, q2}
    Ops <- Operations
    None = None
    Amount = 1
    Fee = 1
    GatewayFee = 1
    Opening <- OpeningBalances
    Isolated = TRUE
    MaxCrashes = 0
CHECK_DEADLOCK FALSE
SYMMETRY RequestSymmetry
INVARIANTS
    JournalHasPayment
