SPECIFICATION HSpec
CONSTANTS
    Requests = {r1, r2}
    Files <- MCFiles
    HashedName <- MCHashedName
    InitialSlots <- OneSlot
    Calls <- EveryCall
    MaxSize = 1
    MaxAge = 0
    MaxClock = 1
    MaxCrashes = 1
    NoFile = NoFile
SYMMETRY RequestSymmetry
INVARIANTS NoFalseMiss AnswersAreTrue
PROPERTIES ImplementsFileStore
