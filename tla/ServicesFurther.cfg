SPECIFICATION ServicesSpec
CONSTANTS
    Parts <- AllParts
    Workers = {w1, w2}
    u1 = u1
    u2 = u2
    People = {u1, u2}
    None = None
    Voters = {"ann"}
    Movers = {"ann"}
    Candidacies <- Stand
    MaxCandidates = 1
    Officials = {w1, w2}
    Polls = {w1, w2}
    Clients = {u1, u2}
    Account <- OneAccount
    Application <- UserApplication
    MaxSessions = 2
    MaxTime = 1
    MaxEvents = 1
    MaxLinks = 3
    Capacities = {1}
    Students = {"ada"}
    MaxLevel = 2
    MaxYear = 3
    MaxChanges = 2
    Places <- LawAndArts
    Organised = {"law"}
    Orders = {"ACTIVE", "ARCHIVED"}
    Requested <- LawOnly
    MaxOrganisations = 2
    Deputies = {"bob"}
CHECK_DEADLOCK FALSE
SYMMETRY Symmetry
INVARIANTS
    ServicesTypeOK
    OneOpenLink
    CandidatesLimited
    AttendeesWereConfirmed
    ProfileFollowsRecord
    ApprovedIsMember
PROPERTIES
    RevokedForGood
    DecisionStands
    OneBallot
    DeletionSparesRegistrations
