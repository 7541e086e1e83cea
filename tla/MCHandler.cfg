SPECIFICATION FairSpec
CONSTANTS
    MaxRequests = 1
    MaxInbound = 2
    AppMayDrop = TRUE
INVARIANTS
    TypeOK
    GivenRequestsHaveOnePlace
    WaitingUpgradesHaveASender
PROPERTIES
    ImplementsReports
    ArrivedRequestsAreReported
    GivenRequestsAreTold
    IdleHandlerLetsGo
CHECK_DEADLOCK FALSE
