\* An fwrite that transfers less than it was asked to.
CONSTANTS
  RAM_SIZE = 14
  DATA_REGION_OFFSET = 3
  BLOCK_HEADER_SIZE = 2
  MAX_INODES = 7
  MAX_CHILDREN = 5
  MAX_NAME_LEN = 2
  Names <- FewNames
  Contents <- TwoTexts
  PATH_SIZE = 20
  MaxBoots = 1
  Transfers = {"nothing", "tables", "all"}
  Tears = {"nothing"}
SPECIFICATION ShellSpec
PROPERTIES SavePersists
CHECK_DEADLOCK FALSE
