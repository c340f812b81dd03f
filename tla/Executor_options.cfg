SPECIFICATION FairSpec
CONSTANTS
    s1 = s1
    s2 = s2
    s3 = s3
    s4 = s4
    None = None
    State <- States3
    Rank <- OneRank
    Options <- ManyOptions
    ForkBound = 2
    MaxTargets = 2
INVARIANTS StatesReleasedInTime SeedsFollowStates
PROPERTIES HaltEnds
CHECK_DEADLOCK FALSE
