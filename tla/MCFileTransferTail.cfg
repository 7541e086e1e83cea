SPECIFICATION Spec
CONSTANTS
    n1 = n1
    n2 = n2
    n3 = n3
    f = f
    a1 = a1
    a2 = a2
    b1 = b1
    b2 = b2
    b3 = b3
    Nodes = {n1, n2}
    Files = {f}
    Initial <- TwoVersions
    MaxGets = 1
    Window = 1
    ReadMayFail = FALSE
INVARIANTS
    GotFilesAreTheirs
CHECK_DEADLOCK FALSE
