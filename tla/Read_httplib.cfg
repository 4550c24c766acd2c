\* A forced download with the streaming client breaks and is repeated.
SPECIFICATION Spec
CONSTANTS
    Situations <- Httplib
    MaxVersion = 2
    Retries = 1
    INITIAL_READ_BUFFER_LEN = 1
    MAXIMUM_READ_BUFFER_LEN = 2
INVARIANTS
    CachedIsWhole
