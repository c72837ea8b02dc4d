CONSTANTS
    MaxPages = 2
    INVALID_PAGE_ID = 3
    pool_size_ = 1
    c1 = c1
    c2 = c2
    Callers <- Connections
    Values = {1, 2, 3}
    Half = 1
    Mixed = 3
    Readers = {c1}
    Discipline = "any"
    QuietStop = FALSE
    MaxRequests = 5
SPECIFICATION ServiceSpec
INVARIANTS
    TableConsistent
PROPERTIES
    RequestsAnswered
CHECK_DEADLOCK FALSE
