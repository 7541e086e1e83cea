SPECIFICATION Spec
CONSTANTS
    n1 = n1
    n2 = n2
    n3 = n3
    f = f
    a1 = a1
    a2 = a2
    b1 = b1
    b2 = b2
    b3 = b3
    Nodes = {n1, n2, n3}
    Files = {f}
    Initial <- TwoVersions
    MaxGets = 2
    Window = 1
    ReadMayFail = TRUE
INVARIANTS
    EveryPieceHasASource
    AnsweredGetsOverlay
    UnfinishedGetsOverlay
CHECK_DEADLOCK FALSE
