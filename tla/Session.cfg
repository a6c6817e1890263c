\* One run of the program: two new inodes, saves and loads.  It stops when the program ends.
CONSTANTS
  RAM_SIZE = 12
  DATA_REGION_OFFSET = 3
  BLOCK_HEADER_SIZE = 2
  MAX_INODES = 8
  MAX_CHILDREN = 5
  MAX_NAME_LEN = 2
  Names <- FewNames
  Contents <- TwoTexts
  PATH_SIZE = 7
  MaxBoots = 1
  Transfers = {"all"}
  Tears = {"nothing"}
SPECIFICATION ShellSpec
INVARIANTS ShellTypeOK PromptsAlways CommandsAgree MemstatCountsFiles
PROPERTIES CreatesSpareLiveInodes ImplementsSnapshots
CHECK_DEADLOCK FALSE
