CONSTANTS
    MaxPages = 4
    INVALID_PAGE_ID = 5
    Values = {2, 5}
    CallerPages <- DataPages
    MaxCrashes = 2
SPECIFICATION Spec
INVARIANTS
    TypeOK
    FreeListSound
    AllocationFresh
    WritesDurable
    LeakBounded
    MetadataSynchronized
