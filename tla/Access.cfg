SPECIFICATION Spec
CONSTANTS
    Candidates <- MCCandidates
    Inputs <- MCInputs
    NonAscii <- MCNonAscii
    Unusable <- MCUnusable
    MaxFiles = 1
    None = None
INVARIANTS TypeOK OnlyGranted GrantIsHonoured UploadIsReachable
PROPERTIES AlwaysAnswered
