\* The caller reads on after a failed Read.
SPECIFICATION Spec
CONSTANTS
    Situations <- GoesOn
    MaxVersion = 2
    Retries = 1
    INITIAL_READ_BUFFER_LEN = 1
    MAXIMUM_READ_BUFFER_LEN = 2
INVARIANTS
    RightBytes
