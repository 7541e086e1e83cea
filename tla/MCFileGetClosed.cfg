SPECIFICATION Spec
CONSTANTS
    Peers = {p1}
    ConnectionIds = {c1}
    MaxRequests = 1
    MaxInbound = 0
INVARIANTS
    FailedRequestsAreOutboundFailures
CHECK_DEADLOCK FALSE
