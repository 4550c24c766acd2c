SPECIFICATION Spec
CONSTANTS
    PartSize = 1
    MaxUploadThreads = 1
    S3MaxParts = 2
    Uint16 = 5
    Retries = 0
    CanSpawnFail = TRUE
    MaxLen = 2
    MaxFinalizeCalls = 1
INVARIANTS
    WaitsForSomeone
