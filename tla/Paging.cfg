SPECIFICATION FairSpec
CONSTANTS
    N = 4
    Limit = 2
    MaxKeys = 2
    MaxChanges = 3
INVARIANTS TypeOK NothingTwice WalkIsComplete OnlyChangesFail
PROPERTIES WalkEnds
CHECK_DEADLOCK FALSE
