SPECIFICATION Spec
CONSTANTS
    Point = point
    Others = {p1}
    None = none
    MaxLosses = 1
INVARIANTS
    PointIsTheRendezvousPoint
CHECK_DEADLOCK FALSE
