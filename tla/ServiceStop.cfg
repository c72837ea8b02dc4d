CONSTANTS
    MaxPages = 3
    INVALID_PAGE_ID = 4
    pool_size_ = 2
    c1 = c1
    c2 = c2
    Callers <- Connections
    Values = {2, 3, 4}
    Half = 3
    Mixed = 4
    Readers = {}
    Discipline = "exclusive"
    QuietStop = FALSE
    MaxRequests = 6
SPECIFICATION ServiceSpec
INVARIANTS
    NoUseAfterStop
CHECK_DEADLOCK FALSE
