SPECIFICATION Spec
CONSTANTS
    Requests = {q1, q2}
    Ops <- Moves
    None = None
    Amount = 1
    Fee = 1
    GatewayFee = 1
    Opening <- OpeningBalances
    Isolated = FALSE
    MaxCrashes = 0
CHECK_DEADLOCK FALSE
SYMMETRY RequestSymmetry
INVARIANTS
    CacheIsCurrent
