SPECIFICATION FairSpec
CONSTANTS
    Requests = {r1, r2}
    Files <- TwoFiles
    InitialFiles <- TwoFiles
    Calls <- SmallWrites
    Threshold = 2
    MaxSize = 1
    MaxAge = 1
    FaultKinds = {"refused", "lost", "late", "again"}
    MaxFaults = 1
    MaxClock = 2
    MaxCrashes = 1
    NoFile = NoFile
PROPERTIES FreshSurvives OnlyFailuresSkip RetentionIsEnforced
