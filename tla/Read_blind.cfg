\* A file opened from a full download, and again in a later query.
SPECIFICATION Spec
CONSTANTS
    Situations <- Unvalidated
    MaxVersion = 2
    Retries = 1
    INITIAL_READ_BUFFER_LEN = 1
    MAXIMUM_READ_BUFFER_LEN = 2
INVARIANTS
    OneVersionOfServer
