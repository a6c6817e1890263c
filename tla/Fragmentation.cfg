CONSTANTS
  RAM_SIZE = 21
  DATA_REGION_OFFSET = 3
  BLOCK_HEADER_SIZE = 2
  Sizes = {0, 1, 2, 3, 4, 7}
SPECIFICATION Spec
INVARIANTS EmptyHeapServesAll
