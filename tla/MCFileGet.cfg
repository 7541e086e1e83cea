SPECIFICATION Spec
CONSTANTS
    Peers = {p1, p2}
    ConnectionIds = {c1, c2}
    MaxRequests = 2
    MaxInbound = 1
SYMMETRY Symmetry
INVARIANTS
    TypeOK
    ConnectedMirrorsPool
    NoPanic
    ParkedRequestsAwaitDial
    EveryRequestHasOneHome
    RequestsLeaveInOrder
CHECK_DEADLOCK FALSE
