\* Four files in a folder whose name has a plus: two pages of the folder.
CONSTANTS
  Order <- PlusOrder
  InitialKeys = {1, 2, 3, 4}
  SharedDir <- Bucket
  SharedStart <- StartsPlus
  Names <- PlusNames
  Encode <- PlusEncode
  Decode <- PlusDecode
  PageSize = 2
  FilesPerFolder = 1
  Situations <- Plus
SPECIFICATION FairSpec
PROPERTIES
  GlobTerminates
CHECK_DEADLOCK FALSE
