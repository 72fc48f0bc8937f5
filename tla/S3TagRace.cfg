SPECIFICATION Spec
CONSTANTS
    Requests = {r1, r2}
    Files <- MCFiles
    InitialFiles <- MCFiles
    Calls <- BigOverwrites
    Threshold = 2
    MaxSize = 2
    MaxAge = 0
    FaultKinds = {}
    MaxFaults = 0
    MaxClock = 1
    MaxCrashes = 0
    NoFile = NoFile
INVARIANTS TagDescribesContent
