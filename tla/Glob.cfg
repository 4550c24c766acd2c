\* Pages of two entries, and one file per folder before the listing becomes
\* hierarchical: every folder has further pages. See MCS3Glob for the situations.
CONSTANTS
  Order <- FolderOrder
  InitialKeys = {1, 3, 4, 5, 6, 8, 9}
  SharedDir <- Bucket
  SharedStart <- StartsD
  Names <- FolderNames
  Encode <- FolderEncode
  Decode <- FolderDecode
  PageSize = 2
  FilesPerFolder = 1
  Situations <- Regular
SPECIFICATION FairSpec
INVARIANTS
  ListedOnce
  NothingLost
PROPERTIES
  GlobTerminates
CHECK_DEADLOCK FALSE
