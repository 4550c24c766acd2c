\* A file with a quote in its name.
CONSTANTS
  SharedPath <- Root
  Written <- Read
  MaxPerPage = 2
  Retries = 1
  Repositories <- QuotedOnly
SPECIFICATION HFSpec
INVARIANTS
  FilesAreExact
CHECK_DEADLOCK FALSE
