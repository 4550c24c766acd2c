\* Ranged reads through the buffer, and full downloads; see MCHTTPFileHandle.
SPECIFICATION Spec
CONSTANTS
    Situations <- RangesAndFallback
    MaxVersion = 2
    Retries = 1
    INITIAL_READ_BUFFER_LEN = 1
    MAXIMUM_READ_BUFFER_LEN = 2
INVARIANTS
    RightBytes
    OneVersion
    EofIsTrue
    CurlCachesWhole
    StaleEntryIsDropped
