CONSTANTS
    num_frames_ = 4
SPECIFICATION Spec
INVARIANTS
    ListMatchesMap
    ListInAgeOrder
PROPERTIES
    ImplementsReplacer
