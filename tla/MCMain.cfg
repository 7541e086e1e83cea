SPECIFICATION MainSpec
CONSTANTS
    Point = point
    Others = {p1}
    None = none
    MaxLosses = 1
    Letters = {"a"}
    Lossy = "lossy"
    Replaced = "replaced"
    FileNames <- Names
    MaxLine = 4
INVARIANTS
    CommandsFindAPoint
    DocumentedLinesParse
    RegisteredUsersCanBeAsked
    ListedFilesCanBeFetched
PROPERTIES
    PointIsKept
    StartupEnds
CHECK_DEADLOCK FALSE
