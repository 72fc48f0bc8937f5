SPECIFICATION HSpec
CONSTANTS
    Requests = {r1, r2}
    Files <- MCFiles
    HashedName <- MCHashedName
    InitialSlots <- LegacySlot
    Calls <- OverwriteRead
    MaxSize = 1
    MaxAge = 0
    MaxClock = 1
    MaxCrashes = 0
    NoFile = NoFile
INVARIANTS NoFalseMiss
