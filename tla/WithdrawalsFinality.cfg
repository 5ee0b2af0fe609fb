SPECIFICATION Spec
CONSTANTS
    w1 = w1
    w2 = w2
    Withdrawals = {w1}
    Workers = {k1, k2}
    Kind <- AllUser
    Amount <- Principal
    Charge <- RequestFee
    Opening <- OpenForTwo
    ProviderFees = {1}
    Isolated = FALSE
    MaxDeliveries = 1
    MaxCrashes = 0
    MaxCredits = 0
CHECK_DEADLOCK FALSE
SYMMETRY WorkerSymmetry
PROPERTIES
    FinalStatusIsFinal
