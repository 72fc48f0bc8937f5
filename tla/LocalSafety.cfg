SPECIFICATION Spec
CONSTANTS
    Requests = {r1, r2}
    Files <- MCFiles
    HashedName <- MCHashedName
    InitialSlots <- AllSlots
    Calls <- EveryCall
    MaxSize = 1
    MaxAge = 0
    MaxClock = 1
    MaxCrashes = 1
    NoFile = NoFile
SYMMETRY RequestSymmetry
INVARIANTS TypeOK VisibleIsComplete ServedIsStored RefusedLeavesNoTrace MixesOnlyWithNewer DeletedIsGone
PROPERTIES CreateOnlyNeverDestroys
