SPECIFICATION Spec
CONSTANTS
    s1 = s1
    s2 = s2
    s3 = s3
    s4 = s4
    None = None
    State <- States3
    Rank <- TwoRanks
    Options <- MemoryOptions
    ForkBound = 2
    MaxTargets = 2
SYMMETRY Addresses3
INVARIANTS
    NoAbort
CHECK_DEADLOCK FALSE
