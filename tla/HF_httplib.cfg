\* The client hands over the body as it arrives.
CONSTANTS
  SharedPath <- Root
  Written <- Read
  MaxPerPage = 1
  Retries = 1
  Repositories <- HttplibOnly
SPECIFICATION HFSpec
INVARIANTS
  FilesAreExact
CHECK_DEADLOCK FALSE
