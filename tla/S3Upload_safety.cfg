\* Up to six parts, of which S3 accepts two; part numbers come as close to the
\* width that the code gives them (16 bits there, six numbers here) as they can.
SPECIFICATION Spec
CONSTANTS
    PartSize = 2
    MaxUploadThreads = 2
    S3MaxParts = 2
    Uint16 = 6
    Retries = 1
    CanSpawnFail = TRUE
    MaxLen = 11
    MaxFinalizeCalls = 2
INVARIANTS
    TypeOK
    PublishedIsComplete
    NoSilentLoss
    AppendsInPlace
    ListIsComplete
    Inv
PROPERTIES
    ImplementsObjectWriter
