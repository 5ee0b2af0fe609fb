SPECIFICATION FairSpec
CONSTANTS
    w1 = w1
    w2 = w2
    Withdrawals = {w1}
    Workers = {k1}
    Kind <- AllOrganization
    Amount <- Principal
    Charge <- RequestFee
    Opening <- OpenForTwo
    ProviderFees = {1}
    Isolated = TRUE
    MaxDeliveries = 1
    MaxCrashes = 1
    MaxCredits = 0
CHECK_DEADLOCK FALSE
PROPERTIES
    OrganizationLeavesPending
