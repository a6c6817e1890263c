\* Two runs of the program around one image, with up to two new inodes in each.
CONSTANTS
  RAM_SIZE = 14
  DATA_REGION_OFFSET = 3
  BLOCK_HEADER_SIZE = 2
  MAX_INODES = 8
  MAX_CHILDREN = 5
  MAX_NAME_LEN = 2
  Names <- HomeName
  Contents <- OneText
  PATH_SIZE = 20
  MaxBoots = 2
  Transfers = {"all"}
  Tears = {"nothing"}
SPECIFICATION ShellSpec
INVARIANTS ChainTiles DataBlocksExclusive CanGoHome
CHECK_DEADLOCK FALSE
