SPECIFICATION Spec
CONSTANTS
    Requests = {r1, r2}
    Files <- MCFiles
    HashedName <- MCHashedName
    InitialSlots <- OneSlot
    Calls <- Overwrites
    MaxSize = 1
    MaxAge = 0
    MaxClock = 1
    MaxCrashes = 0
    NoFile = NoFile
PROPERTIES SweepRemovesOnlyExpired
