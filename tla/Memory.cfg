\* A data region of 18 bytes with 2-byte headers: up to six blocks.
CONSTANTS
  RAM_SIZE = 21
  DATA_REGION_OFFSET = 3
  BLOCK_HEADER_SIZE = 2
  Sizes = {0, 1, 2, 3, 4, 7}
SPECIFICATION Spec
INVARIANTS TypeOK ChainTiles UsedBlocksAreHeld SearchFindsLowestFit BytesAddUp
PROPERTIES HeldBlocksStay ImplementsHeap
