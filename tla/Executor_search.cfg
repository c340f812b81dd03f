SPECIFICATION Spec
CONSTANTS
    s1 = s1
    s2 = s2
    s3 = s3
    s4 = s4
    None = None
    State <- States4
    Rank <- TwoRanks
    Options <- SearchOptions
    ForkBound = 3
    MaxTargets = 3
SYMMETRY Addresses4
INVARIANTS NoAbort StatesMirrored PathsAccounted
PROPERTIES SelectsCostliest EndedNeverForks
CHECK_DEADLOCK FALSE
