SPECIFICATION FairSpec
CONSTANTS
    w1 = w1
    w2 = w2
    Withdrawals = {w1}
    Workers = {k1, k2, k3}
    Kind <- AllUser
    Amount <- Principal
    Charge <- RequestFee
    Opening <- OpenForTwo
    ProviderFees = {2}
    Isolated = FALSE
    MaxDeliveries = 1
    MaxCrashes = 1
    MaxCredits = 0
CHECK_DEADLOCK FALSE
INVARIANTS
    TypeOK
    PendingIsReserved
    CompletedIsPaid
    PayoutFollowsDebit
PROPERTIES
    NoSettlementAfterRefund
    RecordedIsResolved
