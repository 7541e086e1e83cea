SPECIFICATION Spec
CONSTANTS
    Users = {u, uLong}
    LongUsers = {uLong}
    Peers = {p1}
    Files = {f, fBad}
    BadFiles = {fBad}
    InitialFiles = {}
    MaxCommands = 3
    MaxInbound = 1
    NetworkMayFail = TRUE
    CallerMayGiveUp = FALSE
INVARIANTS
    PendingRequestsAreInProgress
CHECK_DEADLOCK FALSE
