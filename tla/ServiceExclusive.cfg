CONSTANTS
    MaxPages = 4
    INVALID_PAGE_ID = 5
    pool_size_ = 2
    c1 = c1
    c2 = c2
    Callers <- Connections
    Values = {2, 3, 4, 5}
    Half = 4
    Mixed = 5
    Readers = {}
    Discipline = "exclusive"
    QuietStop = TRUE
    MaxRequests = 6
SPECIFICATION ServiceSpec
INVARIANTS
    ReadsRegular
    StopPersists
PROPERTIES
    KeepsPoolContract
CHECK_DEADLOCK FALSE
SYMMETRY Symmetric
