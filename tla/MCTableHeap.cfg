SPECIFICATION Spec
CONSTANTS
    PAGE_SIZE = 9
    HeaderSize = 1
    SlotSize = 2
    MaxSlots = 2
    Tuples = {"a", "c", "huge"}
    LengthOf <- MCLengthOf
    INVALID_PAGE_ID = INVALID_PAGE_ID
    HeapPages <- Pages
    p1 = p1
    p2 = p2
SYMMETRY Symmetric
INVARIANTS LayoutSound SlotArrayFits RowsReadBack ChainSound
CHECK_DEADLOCK FALSE
