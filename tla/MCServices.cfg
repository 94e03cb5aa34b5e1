CONSTANTS
    Rows = {a, b}
    Parts = {p}
    Others = {o}
    Contents = {v, w}
    None = none
    Requests = {r1, r2}
    Client = client
    Values = {on, off}
    Amounts <- Signs
    Days <- TwoDays
    PageLimit = 2
    MaxAmount = 2
    MaxRows = 2
    MaxQuantity = 2
    MayFail = TRUE
    MaxStarted = 5
    OPStarted = 4
    WHStarted = 6
    CAStarted = 3
    XAStarted = 7
    DOStarted = 4
    CUStarted = 7
SPECIFICATION Spec
SYMMETRY Symmetry
INVARIANTS TypesOK StatusesTell   NothingDangles DoneOnce
PROPERTIES DecidedStays SummariesTell
CHECK_DEADLOCK FALSE
