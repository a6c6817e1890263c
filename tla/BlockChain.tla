----------------------------- MODULE BlockChain -----------------------------
(***************************************************************************)
(* The first-fit allocator of libs/memory.c as operators on a chain of     *)
(* block headers.  A chain maps the offset of every BlockHeader that the   *)
(* list reaches to its three fields; the payload of the block at o starts  *)
(* at o + BLOCK_HEADER_SIZE.  The operators are used by Memory (the        *)
(* allocator on its own) and by FileSystem (which calls it from fs_write   *)
(* and fs_delete).                                                         *)
(***************************************************************************)
EXTENDS Integers, FiniteSets

CONSTANTS
  RAM_SIZE,             \* bytes of virtual RAM
  DATA_REGION_OFFSET,   \* first byte after the inode and process tables
  BLOCK_HEADER_SIZE     \* sizeof(BlockHeader)

ASSUME LayoutAssumption ==
  /\ RAM_SIZE \in Nat
  /\ DATA_REGION_OFFSET \in Nat
  /\ BLOCK_HEADER_SIZE \in Nat \ {0}
  /\ DATA_REGION_OFFSET + BLOCK_HEADER_SIZE < RAM_SIZE

DATA_REGION_SIZE == RAM_SIZE - DATA_REGION_OFFSET

(* The -1 of the code: "last block" in next_offset, and here also the null *)
(* pointer that alloc returns.                                             *)
NONE == -1

Offsets == DATA_REGION_OFFSET .. RAM_SIZE - 1

BlockHeader == [size : Nat \ {0}, is_free : BOOLEAN, next_offset : Offsets \cup {NONE}]

(* One free block over the whole data region, as memory_init leaves it. *)
FreshChain ==
  [o \in {DATA_REGION_OFFSET} |->
     [size |-> DATA_REGION_SIZE - BLOCK_HEADER_SIZE, is_free |-> TRUE, next_offset |-> NONE]]

-----------------------------------------------------------------------------
(* alloc *)

Suits_AnyState(block, size) == block.size >= size
Suits(block, size) == block.is_free /\ block.size >= size

(* Where the search loop of alloc ends when it has reached offset o. *)
Walk(chain, size) ==
  LET walk[o \in DOMAIN chain \cup {NONE}] ==
        IF o = NONE \/ Suits(chain[o], size) THEN o ELSE walk[chain[o].next_offset]
  IN walk

FirstFit(chain, size) == Walk(chain, size)[DATA_REGION_OFFSET]

(* A block is split only when the rest can hold a header and one byte. *)
Splits_HeaderOnly(remaining) == remaining >= BLOCK_HEADER_SIZE
Splits_Never(remaining) == FALSE
Splits(remaining) == remaining >= BLOCK_HEADER_SIZE + 1

RestOffset_NoHeader(o, size) == o + size
RestOffset(o, size) == o + BLOCK_HEADER_SIZE + size

RestHeader_DropsTail(block, size) ==
  [size |-> block.size - size - BLOCK_HEADER_SIZE, is_free |-> TRUE, next_offset |-> NONE]
RestHeader(block, size) ==
  [size |-> block.size - size - BLOCK_HEADER_SIZE, is_free |-> TRUE,
   next_offset |-> block.next_offset]

Occupy(chain, o, size) ==
  LET rest == RestOffset(o, size)
  IN IF Splits(chain[o].size - size)
     THEN [p \in DOMAIN chain \cup {rest} |->
             IF p = o THEN [size |-> size, is_free |-> FALSE, next_offset |-> rest]
             ELSE IF p = rest THEN RestHeader(chain[o], size)
             ELSE chain[p]]
     ELSE [chain EXCEPT ![o].is_free = FALSE]

(* The pointer handed out (NONE when refused) and the chain afterwards. *)
Alloc(chain, size) ==
  LET o == FirstFit(chain, size)
  IN IF size <= 0 \/ o = NONE
     THEN [ptr |-> NONE, chain |-> chain]
     ELSE [ptr |-> o + BLOCK_HEADER_SIZE, chain |-> Occupy(chain, o, size)]

-----------------------------------------------------------------------------
(* dealloc: free the block and absorb its successor if that is free too.   *)
(* The block before it is never looked at.                                 *)

Absorbs_Unchecked(chain, next) == next # NONE
Absorbs(chain, next) == next # NONE /\ chain[next].is_free

Merged_LosesHeader(block, next) ==
  [size |-> block.size + next.size, is_free |-> TRUE, next_offset |-> next.next_offset]
Merged(block, next) ==
  [size |-> block.size + BLOCK_HEADER_SIZE + next.size, is_free |-> TRUE,
   next_offset |-> next.next_offset]

Release(chain, o) ==
  LET next == chain[o].next_offset
  IN IF Absorbs(chain, next)
     THEN [p \in DOMAIN chain \ {next} |->
             IF p = o THEN Merged(chain[o], chain[next]) ELSE chain[p]]
     ELSE [chain EXCEPT ![o].is_free = TRUE]

(* A pointer whose header would lie outside the region is refused. *)
Dealloc(chain, ptr) ==
  LET o == ptr - BLOCK_HEADER_SIZE
  IN IF o \in DATA_REGION_OFFSET .. RAM_SIZE - BLOCK_HEADER_SIZE
     THEN Release(chain, o) ELSE chain

-----------------------------------------------------------------------------
(* memory_used and memory_free: one pass along next_offset. *)

SumAlong(chain, is_free) ==
  LET sum[o \in DOMAIN chain \cup {NONE}] ==
        IF o = NONE THEN 0
        ELSE (IF chain[o].is_free = is_free THEN chain[o].size ELSE 0) + sum[chain[o].next_offset]
  IN sum[DATA_REGION_OFFSET]

memory_used(chain) == SumAlong(chain, FALSE)
memory_free(chain) == SumAlong(chain, TRUE)

-----------------------------------------------------------------------------
(* What a well-formed chain is. *)

BlockEnd(chain, o) == o + BLOCK_HEADER_SIZE + chain[o].size

IsChain(chain) ==
  /\ DOMAIN chain \subseteq Offsets
  /\ chain \in [DOMAIN chain -> BlockHeader]

(* The blocks tile the data region: each ends where the next one starts,   *)
(* the last one ends at RAM_SIZE, and no header lies inside another block. *)
Tiles(chain) ==
  /\ DATA_REGION_OFFSET \in DOMAIN chain
  /\ \A o \in DOMAIN chain :
       IF chain[o].next_offset = NONE
       THEN BlockEnd(chain, o) = RAM_SIZE
       ELSE chain[o].next_offset = BlockEnd(chain, o) /\ BlockEnd(chain, o) \in DOMAIN chain
  /\ \A o, p \in DOMAIN chain : o < p => BlockEnd(chain, o) <= p
=============================================================================
