------------------------------- MODULE Memory -------------------------------
(***************************************************************************)
(* libs/memory.c on its own: the block chain and the pointers its callers  *)
(* hold.  Callers free only what they were given and free it once, as      *)
(* fs_write and fs_delete do (FileSystem checks that they do).             *)
(***************************************************************************)
EXTENDS BlockChain

CONSTANT Sizes      \* the sizes callers ask for

ASSUME SizesAssumption == Sizes \subseteq Int

VARIABLES
  chain,            \* the block headers in VIRTUAL_RAM
  live              \* live[ptr]: the size asked for by the caller that holds ptr

vars == <<chain, live>>

Init ==
  /\ chain = FreshChain
  /\ live = [ptr \in {} |-> 0]

(* A call that returns a block.  A refused call changes nothing. *)
CallAlloc(size) ==
  LET got == Alloc(chain, size)
  IN /\ got.ptr # NONE
     /\ chain' = got.chain
     /\ live' = [ptr \in DOMAIN live \cup {got.ptr} |->
                   IF ptr = got.ptr THEN size ELSE live[ptr]]

CallDealloc(ptr) ==
  /\ chain' = Dealloc(chain, ptr)
  /\ live' = [p \in DOMAIN live \ {ptr} |-> live[p]]

Next ==
  \/ \E size \in Sizes : CallAlloc(size)
  \/ \E ptr \in DOMAIN live : CallDealloc(ptr)

Spec == Init /\ [][Next]_vars

-----------------------------------------------------------------------------
(* Every header holds a positive size, a flag and an offset of the region, *)
(* and callers hold offsets of the region.  (alloc, dealloc)               *)
TypeOK ==
  /\ IsChain(chain)
  /\ DOMAIN live \subseteq Offsets
  /\ live \in [DOMAIN live -> Nat \ {0}]

(* The chain always tiles the data region, so no split or merge loses      *)
(* bytes, overlaps two blocks or leaves the region.  (alloc, dealloc)      *)
ChainTiles == Tiles(chain)

(* The blocks in use are exactly those the callers hold, and each is at    *)
(* least as large as the request and wastes no more than a header: a rest  *)
(* too small to split off stays with the block.  (alloc's split test)      *)
UsedBlocksAreHeld ==
  /\ {o \in DOMAIN chain : ~chain[o].is_free} = {ptr - BLOCK_HEADER_SIZE : ptr \in DOMAIN live}
  /\ \A ptr \in DOMAIN live :
       chain[ptr - BLOCK_HEADER_SIZE].size \in live[ptr] .. live[ptr] + BLOCK_HEADER_SIZE

(* The search along next_offset finds the lowest block that is large       *)
(* enough, and misses only when the chain has none.  (alloc's loop)        *)
SearchFindsLowestFit ==
  \A size \in Sizes :
    LET fits == {o \in DOMAIN chain : Suits(chain[o], size)}
    IN IF fits = {} THEN FirstFit(chain, size) = NONE
       ELSE FirstFit(chain, size) \in fits /\ \A o \in fits : FirstFit(chain, size) <= o

(* memstat adds up: used and free bytes and one header per block make up   *)
(* the whole region after any history.  (memory_used, memory_free)         *)
BytesAddUp ==
  memory_used(chain) + memory_free(chain) + BLOCK_HEADER_SIZE * Cardinality(DOMAIN chain)
    = DATA_REGION_SIZE

(* No call moves, resizes or frees a block that a caller holds before and  *)
(* after it.  (the header writes of split and merge)                       *)
HeldBlocksStay ==
  [][\A ptr \in DOMAIN live \cap DOMAIN live' :
       LET o == ptr - BLOCK_HEADER_SIZE
       IN /\ o \in DOMAIN chain'
          /\ chain'[o].is_free = chain[o].is_free
          /\ chain'[o].size = chain[o].size
          /\ live'[ptr] = live[ptr]]_vars

(* The allocator keeps its promise to callers. *)
Heap == INSTANCE HeapSpec WITH held <- live
ImplementsHeap == Heap!Spec

(* memory.c:56 says NULL is returned "if no space available": with nothing *)
(* held, the whole region but one header is available space.               *)
EmptyHeapServesAll ==
  DOMAIN live = {} =>
    \A size \in Sizes : size \in 1 .. DATA_REGION_SIZE - BLOCK_HEADER_SIZE
                          => Alloc(chain, size).ptr # NONE
=============================================================================
