SPECIFICATION FairSpec
CONSTANTS
    MaxRequests = 0
    MaxInbound = 1
    AppMayDrop = TRUE
PROPERTIES
    DroppedResponsesAreOmissions
CHECK_DEADLOCK FALSE
