SPECIFICATION BFairSpec
CONSTANTS
    Requests = {r1, r2}
    Files <- MCFiles
    HashedName <- MCHashedName
    InitialSlots <- OneSlot
    Calls <- EmptyOverwrites
    MaxSize = 1
    MaxAge = 1
    MaxClock = 2
    MaxCrashes = 1
    NoFile = NoFile
INVARIANTS CycleIsThorough
PROPERTIES FreshSurvives RetentionIsEnforced
