SPECIFICATION FairSpec
CONSTANTS
    Pieces = {x, y}
    MaxPieces = 4
    MaxFrame = 3
INVARIANTS
    MessagesArriveWholeOrNotAtAll
PROPERTIES
    ReadersReturn
CHECK_DEADLOCK FALSE
