\* save, restart, load, create.
CONSTANTS
  RAM_SIZE = 14
  DATA_REGION_OFFSET = 3
  BLOCK_HEADER_SIZE = 2
  MAX_INODES = 7
  MAX_CHILDREN = 5
  MAX_NAME_LEN = 2
  Names <- FewNames
  Contents <- TwoTexts
  PATH_SIZE = 20
  MaxBoots = 2
  Transfers = {"all"}
  Tears = {"nothing"}
SPECIFICATION ShellSpec
PROPERTIES CreatesSpareLiveInodes
CHECK_DEADLOCK FALSE
