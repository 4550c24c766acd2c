\* Pages of two entries; see MCHFGlob for the situations.
CONSTANTS
  SharedPath <- Root
  Written <- Read
  MaxPerPage = 2
  Retries = 1
  Repositories <- Regular
SPECIFICATION HFFairSpec
INVARIANTS
  FilesAreExactByCurl
PROPERTIES
  GlobReturns
CHECK_DEADLOCK FALSE
