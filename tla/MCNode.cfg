SPECIFICATION FairSpec
CONSTANTS
    Users = {u}
    LongUsers = {}
    Peers = {p}
    Files = {f, fBad}
    BadFiles = {fBad}
    InitialFiles = {}
    MaxCommands = 3
    MaxInbound = 1
    NetworkMayFail = TRUE
    CallerMayGiveUp = TRUE
    ConnectionIds = {c1}
INVARIANTS
    LoopKnowsRequestsInProgress
    NodeNeverPanics
PROPERTIES
    GetsWaitOnlyAfterFailure
CHECK_DEADLOCK FALSE
