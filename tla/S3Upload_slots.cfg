SPECIFICATION FairSpec
CONSTANTS
    PartSize = 2
    MaxUploadThreads = 2
    S3MaxParts = 4
    Uint16 = 8
    Retries = 1
    CanSpawnFail = FALSE
    MaxLen = 5
    MaxFinalizeCalls = 1
INVARIANTS
    SlotsMatchThreads
    WaitsForSomeone
PROPERTIES
    CallsReturn
