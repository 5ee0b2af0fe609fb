SPECIFICATION Spec
CONSTANTS
    w1 = w1
    w2 = w2
    Withdrawals = {w1, w2}
    Workers = {k1, k2}
    Kind <- OrganizationAndPlatform
    Amount <- Principal
    Charge <- QuotedFee
    Opening <- OpenForTwo
    ProviderFees = {1}
    Isolated = TRUE
    MaxDeliveries = 1
    MaxCrashes = 1
    MaxCredits = 1
CHECK_DEADLOCK FALSE
SYMMETRY WorkerSymmetry
INVARIANTS
    WalletMatchesLedger
    LedgerConserved
    NoPhantomHold
    JournalTracksStatus
    AccountsReconcile
PROPERTIES
    ImplementsPromise
    FinalStatusIsFinal
