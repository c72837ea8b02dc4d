SPECIFICATION TreeSpec
CONSTANTS
    LeafMax = 2
    InternalMax = 4
    INVALID_PAGE_ID = INVALID_PAGE_ID
    Largest = 4
    Entries <- MCEntries
    Frames = 4
    Busy = {0, 3}
    MaxStuck = 1
INVARIANTS StaysInArrays
CHECK_DEADLOCK FALSE
VIEW TreeView
