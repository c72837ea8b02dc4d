CONSTANTS
    MaxPages = 4
    INVALID_PAGE_ID = 4
    pool_size_ = 2
    c1 = c1
    c2 = c2
    c3 = c3
    Callers <- Pins
    Values = {1, 3}
SPECIFICATION Spec
INVARIANTS
    TypeOK
    FramePartition
    ReplacerTracksUnpinned
    PinsCounted
    CleanMatchesDisk
    PagesAccounted
PROPERTIES
    FlushAllPersists
    ImplementsPageStore
SYMMETRY Symmetric
