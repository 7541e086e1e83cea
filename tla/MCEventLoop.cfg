SPECIFICATION FairSpec
CONSTANTS
    Users = {u, uLong}
    LongUsers = {uLong}
    Peers = {p1, p2}
    Files = {f, fBad}
    BadFiles = {fBad}
    InitialFiles = {}
    MaxCommands = 4
    MaxInbound = 1
    NetworkMayFail = TRUE
    CallerMayGiveUp = TRUE
INVARIANTS
    TypeOK
    NoExpectFails
    EveryCommandHasOneOwner
    PendingMapsAgree
    RequestsInProgressArePending
    AnswersFitCommands
    ClientDiesOnlyAfterLoop
    ListedPeersStayKnown
PROPERTIES
    EveryCommandFinishes
CHECK_DEADLOCK FALSE
