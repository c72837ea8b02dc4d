SPECIFICATION TreeSpec
CONSTANTS
    LeafMax = 2
    InternalMax = 4
    INVALID_PAGE_ID = INVALID_PAGE_ID
    Largest = 7
    Entries <- MCEntries
    Frames = 7
    Busy = {0, 2, 4, 7}
    MaxStuck = 1
INVARIANTS TypeOK TreeSound ScanMatches
PROPERTIES EnoughFrames ImplementsKeyMap StarvedKeepsEntries
CHECK_DEADLOCK FALSE
VIEW TreeView
