SPECIFICATION HSpec
CONSTANTS
    Requests = {r1, r2}
    Files <- MCFiles
    InitialFiles <- MCFiles
    Calls <- EveryCall
    Threshold = 2
    MaxSize = 2
    MaxAge = 0
    FaultKinds = {"refused", "lost", "late", "again"}
    MaxFaults = 2
    MaxClock = 1
    MaxCrashes = 1
    NoFile = NoFile
SYMMETRY RequestSymmetry
INVARIANTS TypeOK VisibleIsComplete ServedIsStored AnswersAreTrue NoMultipartLeft OnlyLateTagsAreWrong
PROPERTIES CreateOnlyNeverDestroys ImplementsFileStore
