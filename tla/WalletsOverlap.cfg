SPECIFICATION FairSpec
CONSTANTS
    Requests = {q1, q2, q3}
    Ops <- Moves
    None = None
    Amount = 1
    Fee = 1
    GatewayFee = 1
    Opening <- OpeningBalances
    Isolated = FALSE
    MaxCrashes = 1
CHECK_DEADLOCK FALSE
INVARIANTS
    TypeOK
    NoOverdraft
PROPERTIES
    EveryRequestFinishes
