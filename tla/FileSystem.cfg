CONSTANTS
  RAM_SIZE = 18
  DATA_REGION_OFFSET = 3
  BLOCK_HEADER_SIZE = 2
  MAX_INODES = 8
  MAX_CHILDREN = 5
  MAX_NAME_LEN = 2
  Names <- ShortNames
  Contents <- Texts
SPECIFICATION Spec
INVARIANTS TypeOK DataBlocksExclusive NothingLeaks ParentsComeFirst SiblingNamesUnique PathsResolve ListingsComplete
PROPERTIES DeletedStaysDeleted ImplementsTree
CHECK_DEADLOCK FALSE
