CONSTANTS
    num_frames_ = 4
SPECIFICATION Spec
INVARIANTS
    SizeCountsCandidates
    SweepBounded
    BoundedBypass
PROPERTIES
    SweepEnds
    ImplementsReplacer
