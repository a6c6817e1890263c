---------------------------- MODULE MemoryProofs ----------------------------
(***************************************************************************)
(* The invariants of Memory, and that it implements HeapSpec, for every    *)
(* layout of the region and every set of request sizes.                    *)
(***************************************************************************)
EXTENDS Memory, BlockChainProofs

(* The three state invariants support each other: a merge keeps the tiling *)
(* because the chain is well-typed, and a pointer that callers hold names  *)
(* a header because the blocks in use are those held.                      *)
Inv == TypeOK /\ ChainTiles /\ UsedBlocksAreHeld

(* The invariant makes the lemmas of BlockChainProofs apply.               *)
LEMMA InvSound == Inv => Sound(chain)
BY DEF Inv, TypeOK, ChainTiles, Sound

(* What the invariant says of one pointer that a caller holds. *)
LEMMA HeldPointer ==
  ASSUME Inv, NEW ptr \in DOMAIN live
  PROVE  LET o == ptr - BLOCK_HEADER_SIZE
         IN /\ o \in DOMAIN chain /\ ~chain[o].is_free
            /\ ptr \in Int /\ live[ptr] \in Nat /\ live[ptr] > 0
            /\ live[ptr] <= chain[o].size /\ chain[o].size <= live[ptr] + BLOCK_HEADER_SIZE
            /\ o + BLOCK_HEADER_SIZE = ptr
            /\ ptr + live[ptr] <= BlockEnd(chain, o)
            /\ BlockEnd(chain, o) <= RAM_SIZE
<1> DEFINE o == ptr - BLOCK_HEADER_SIZE
<1>1. /\ RAM_SIZE \in Nat /\ DATA_REGION_OFFSET \in Nat /\ BLOCK_HEADER_SIZE \in Nat
      /\ DOMAIN live \subseteq Offsets /\ live[ptr] \in Nat \ {0}
  BY LayoutAssumption DEF Inv, TypeOK
<1>2. ptr \in Int
  BY <1>1 DEF Offsets
<1>3. /\ {p \in DOMAIN chain : ~chain[p].is_free} = {p - BLOCK_HEADER_SIZE : p \in DOMAIN live}
      /\ chain[o].size \in live[ptr] .. live[ptr] + BLOCK_HEADER_SIZE
  BY DEF Inv, UsedBlocksAreHeld
<1>4. o \in {p \in DOMAIN chain : ~chain[p].is_free}
  BY <1>3
<1>5. /\ chain[o].size \in Nat /\ BlockEnd(chain, o) <= RAM_SIZE
      /\ BlockEnd(chain, o) = o + BLOCK_HEADER_SIZE + chain[o].size
  BY <1>4, InvSound, SoundBlock DEF BlockEnd
<1> QED BY <1>1, <1>2, <1>3, <1>4, <1>5

(* A call that returns a block occupies a free block of the chain. *)
LEMMA AllocStep ==
  ASSUME Inv, NEW size \in Sizes, CallAlloc(size)
  PROVE  \E o \in DOMAIN chain :
           /\ size \in Nat /\ size > 0
           /\ chain[o].is_free /\ chain[o].size >= size
           /\ chain' = Occupy(chain, o, size)
           /\ o + BLOCK_HEADER_SIZE \notin DOMAIN live
           /\ DOMAIN live' = DOMAIN live \cup {o + BLOCK_HEADER_SIZE}
           /\ live'[o + BLOCK_HEADER_SIZE] = size
           /\ \A ptr \in DOMAIN live : live'[ptr] = live[ptr]
           /\ live' = [ptr \in DOMAIN live' |-> live'[ptr]]
<1>1. size \in Int
  BY SizesAssumption
<1>2. Alloc(chain, size).ptr # NONE /\ chain' = Alloc(chain, size).chain
  BY DEF CallAlloc
<1>3. PICK o \in DOMAIN chain :
        /\ Alloc(chain, size).ptr = o + BLOCK_HEADER_SIZE
        /\ size > 0 /\ chain[o].is_free /\ chain[o].size >= size
        /\ Alloc(chain, size).chain = Occupy(chain, o, size)
  BY <1>1, <1>2, InvSound, AllocOutcome
<1>4. o \in Int /\ BLOCK_HEADER_SIZE \in Nat
  BY InvSound, SoundBlock, LayoutAssumption
<1>5. o + BLOCK_HEADER_SIZE \notin DOMAIN live
  BY <1>3, <1>4, HeldPointer
<1>6. live' = [ptr \in DOMAIN live \cup {o + BLOCK_HEADER_SIZE} |->
                 IF ptr = o + BLOCK_HEADER_SIZE THEN size ELSE live[ptr]]
  BY <1>3 DEF CallAlloc
<1> QED BY <1>1, <1>2, <1>3, <1>5, <1>6

(* A call that frees a block releases that of the pointer given back. *)
LEMMA DeallocStep ==
  ASSUME Inv, NEW ptr \in DOMAIN live, CallDealloc(ptr)
  PROVE  /\ chain' = Release(chain, ptr - BLOCK_HEADER_SIZE)
         /\ DOMAIN live' = DOMAIN live \ {ptr}
         /\ \A p \in DOMAIN live \ {ptr} : live'[p] = live[p]
         /\ live' = [p \in DOMAIN live' |-> live'[p]]
<1>1. /\ ptr - BLOCK_HEADER_SIZE \in DOMAIN chain
      /\ (ptr - BLOCK_HEADER_SIZE) + BLOCK_HEADER_SIZE = ptr
  BY HeldPointer
<1>2. Dealloc(chain, ptr) = Release(chain, ptr - BLOCK_HEADER_SIZE)
  BY <1>1, InvSound, DeallocOutcome
<1> QED BY <1>2 DEF CallDealloc

(* A fresh chain with nothing held satisfies the invariant.                *)
LEMMA InvInit == Init => Inv
<1> SUFFICES ASSUME Init PROVE Inv
  OBVIOUS
<1>1. chain = FreshChain /\ DOMAIN live = {}
  BY DEF Init
<1>2. IsChain(chain) /\ Tiles(chain)
  BY <1>1, FreshSound DEF Sound
<1>3. live \in [DOMAIN live -> Nat \ {0}]
  BY DEF Init
<1>4. {o \in DOMAIN chain : ~chain[o].is_free} = {}
  BY <1>1 DEF FreshChain
<1> QED BY <1>1, <1>2, <1>3, <1>4 DEF Inv, TypeOK, ChainTiles, UsedBlocksAreHeld

(* Every call keeps the invariant.                                         *)
LEMMA InvNext == Inv /\ [Next]_vars => Inv'
<1> SUFFICES ASSUME Inv, [Next]_vars PROVE Inv'
  OBVIOUS
<1>0. /\ Sound(chain)
      /\ RAM_SIZE \in Nat /\ DATA_REGION_OFFSET \in Nat /\ BLOCK_HEADER_SIZE \in Nat \ {0}
      /\ DOMAIN live \subseteq Offsets
      /\ {o \in DOMAIN chain : ~chain[o].is_free} = {ptr - BLOCK_HEADER_SIZE : ptr \in DOMAIN live}
  BY InvSound, LayoutAssumption DEF Inv, TypeOK, UsedBlocksAreHeld
<1>1. ASSUME NEW size \in Sizes, CallAlloc(size) PROVE Inv'
  <2>1. PICK o \in DOMAIN chain :
          /\ size \in Nat /\ size > 0
          /\ chain[o].is_free /\ chain[o].size >= size
          /\ chain' = Occupy(chain, o, size)
          /\ o + BLOCK_HEADER_SIZE \notin DOMAIN live
          /\ DOMAIN live' = DOMAIN live \cup {o + BLOCK_HEADER_SIZE}
          /\ live'[o + BLOCK_HEADER_SIZE] = size
          /\ \A ptr \in DOMAIN live : live'[ptr] = live[ptr]
          /\ live' = [ptr \in DOMAIN live' |-> live'[ptr]]
    BY <1>1, AllocStep
  <2>2. /\ Sound(chain')
        /\ o \in DOMAIN chain' /\ ~chain'[o].is_free
        /\ size <= chain'[o].size /\ chain'[o].size <= size + BLOCK_HEADER_SIZE
        /\ \A p \in DOMAIN chain \ {o} :
             /\ p \in DOMAIN chain'
             /\ chain'[p].size = chain[p].size /\ chain'[p].is_free = chain[p].is_free
        /\ \A p \in DOMAIN chain' \ DOMAIN chain : chain'[p].is_free
    BY <1>0, <2>1, OccupySound
  <2>3. /\ o \in Int /\ o >= DATA_REGION_OFFSET /\ o + BLOCK_HEADER_SIZE < RAM_SIZE
        /\ (o + BLOCK_HEADER_SIZE) - BLOCK_HEADER_SIZE = o
        /\ chain'[o].size \in Nat
    BY <1>0, <2>2, SoundBlock
  <2>4. TypeOK'
    <3>1. o + BLOCK_HEADER_SIZE \in Offsets
      BY <2>3, <1>0 DEF Offsets
    <3>2. \A ptr \in DOMAIN live' : live'[ptr] \in Nat \ {0}
      BY <2>1, HeldPointer
    <3> QED BY <3>1, <3>2, <2>1, <2>2, <1>0 DEF TypeOK, Sound
  <2>5. ChainTiles'
    BY <2>2 DEF ChainTiles, Sound
  <2>6. UsedBlocksAreHeld'
    <3>1. {p \in DOMAIN chain' : ~chain'[p].is_free}
            = {p \in DOMAIN chain : ~chain[p].is_free} \cup {o}
      BY <2>1, <2>2
    <3>2. {ptr - BLOCK_HEADER_SIZE : ptr \in DOMAIN live'}
            = {ptr - BLOCK_HEADER_SIZE : ptr \in DOMAIN live} \cup {o}
      BY <2>1, <2>3
    <3>3. \A ptr \in DOMAIN live :
            chain'[ptr - BLOCK_HEADER_SIZE].size \in live'[ptr] .. live'[ptr] + BLOCK_HEADER_SIZE
      <4> SUFFICES ASSUME NEW ptr \in DOMAIN live
                   PROVE  chain'[ptr - BLOCK_HEADER_SIZE].size
                            \in live'[ptr] .. live'[ptr] + BLOCK_HEADER_SIZE
        OBVIOUS
      <4>1. /\ ptr - BLOCK_HEADER_SIZE \in DOMAIN chain \ {o}
            /\ chain[ptr - BLOCK_HEADER_SIZE].size
                 \in live[ptr] .. live[ptr] + BLOCK_HEADER_SIZE
        BY <2>1, HeldPointer DEF Inv, UsedBlocksAreHeld
      <4> QED BY <4>1, <2>1, <2>2
    <3>4. chain'[o].size \in size .. size + BLOCK_HEADER_SIZE
      BY <2>1, <2>2, <2>3, <1>0
    <3> QED BY <3>1, <3>2, <3>3, <3>4, <2>1, <2>3, <1>0 DEF UsedBlocksAreHeld
  <2> QED BY <2>4, <2>5, <2>6 DEF Inv
<1>2. ASSUME NEW ptr \in DOMAIN live, CallDealloc(ptr) PROVE Inv'
  <2> DEFINE o == ptr - BLOCK_HEADER_SIZE
  <2>1. /\ chain' = Release(chain, o)
        /\ DOMAIN live' = DOMAIN live \ {ptr}
        /\ \A p \in DOMAIN live \ {ptr} : live'[p] = live[p]
        /\ live' = [p \in DOMAIN live' |-> live'[p]]
    BY <1>2, DeallocStep
  <2>2. o \in DOMAIN chain /\ ptr \in Int
    BY HeldPointer
  <2>3. /\ Sound(chain')
        /\ o \in DOMAIN chain' /\ chain'[o].is_free
        /\ DOMAIN chain' \subseteq DOMAIN chain
        /\ \A p \in DOMAIN chain \ {o} : ~chain[p].is_free =>
             p \in DOMAIN chain' /\ chain'[p] = chain[p]
        /\ \A p \in DOMAIN chain' \ {o} : chain'[p] = chain[p]
    BY <1>0, <2>1, <2>2, ReleaseSound
  <2>4. TypeOK'
    BY <2>1, <2>3, <1>0, HeldPointer DEF TypeOK, Sound
  <2>5. ChainTiles'
    BY <2>3 DEF ChainTiles, Sound
  <2>6. UsedBlocksAreHeld'
    <3>1. {p \in DOMAIN chain' : ~chain'[p].is_free}
            = {p \in DOMAIN chain : ~chain[p].is_free} \ {o}
      BY <2>3
    <3>2. \A p \in DOMAIN live : p \in Int /\ (p - BLOCK_HEADER_SIZE = o => p = ptr)
      BY <2>2, <1>0, HeldPointer
    <3>3. {p - BLOCK_HEADER_SIZE : p \in DOMAIN live'}
            = {p - BLOCK_HEADER_SIZE : p \in DOMAIN live} \ {o}
      BY <2>1, <3>2
    <3>4. \A p \in DOMAIN live' :
            chain'[p - BLOCK_HEADER_SIZE].size \in live'[p] .. live'[p] + BLOCK_HEADER_SIZE
      <4> SUFFICES ASSUME NEW p \in DOMAIN live \ {ptr}
                   PROVE  chain'[p - BLOCK_HEADER_SIZE].size
                            \in live'[p] .. live'[p] + BLOCK_HEADER_SIZE
        BY <2>1
      <4>1. /\ p - BLOCK_HEADER_SIZE \in DOMAIN chain \ {o}
            /\ ~chain[p - BLOCK_HEADER_SIZE].is_free
            /\ chain[p - BLOCK_HEADER_SIZE].size \in live[p] .. live[p] + BLOCK_HEADER_SIZE
        BY <3>2, HeldPointer DEF Inv, UsedBlocksAreHeld
      <4> QED BY <4>1, <2>1, <2>3
    <3> QED BY <3>1, <3>3, <3>4, <1>0 DEF UsedBlocksAreHeld
  <2> QED BY <2>4, <2>5, <2>6 DEF Inv
<1>3. CASE UNCHANGED vars
  BY <1>3 DEF vars, Inv, TypeOK, ChainTiles, UsedBlocksAreHeld
<1> QED BY <1>1, <1>2, <1>3 DEF Next

(* The chain and the pointers keep their types, for every layout.          *)
THEOREM Typing == Spec => []TypeOK
<1>1. Inv => TypeOK
  BY DEF Inv
<1> QED BY <1>1, InvInit, InvNext, PTL DEF Spec

(* No history of calls makes two blocks overlap, loses bytes or leaves the *)
(* region.                                                                 *)
THEOREM Tiling == Spec => []ChainTiles
<1>1. Inv => ChainTiles
  BY DEF Inv
<1> QED BY <1>1, InvInit, InvNext, PTL DEF Spec

(* No history of splits and merges loses or doubles a byte: the sums that  *)
(* memstat shows, with the headers, are the whole region.                  *)
THEOREM AddingUp == Spec => []BytesAddUp
<1>1. Inv => BytesAddUp
  BY InvSound, BytesOfChain DEF BytesAddUp
<1> QED BY <1>1, InvInit, InvNext, PTL DEF Spec

(* The blocks in use are those of the callers, large enough and with at    *)
(* most a header to spare.                                                 *)
THEOREM Holding == Spec => []UsedBlocksAreHeld
<1>1. Inv => UsedBlocksAreHeld
  BY DEF Inv
<1> QED BY <1>1, InvInit, InvNext, PTL DEF Spec

(* The search of alloc misses no free block that is large enough.          *)
THEOREM Searching == Spec => []SearchFindsLowestFit
<1>1. Inv => SearchFindsLowestFit
  <2> SUFFICES ASSUME Inv, NEW size \in Sizes
               PROVE  LET fits == {o \in DOMAIN chain : Suits(chain[o], size)}
                      IN IF fits = {} THEN FirstFit(chain, size) = NONE
                         ELSE /\ FirstFit(chain, size) \in fits
                              /\ \A o \in fits : FirstFit(chain, size) <= o
    BY DEF SearchFindsLowestFit
  <2> DEFINE fits == {o \in DOMAIN chain : Suits(chain[o], size)}
  <2>1. fits \in SUBSET Nat
    BY InvSound, SoundBlock
  <2>2. FirstFit(chain, size) = Lowest(fits)
    BY InvSound, FirstFitIsLowest
  <2> HIDE DEF fits
  <2>3. IF fits = {} THEN FirstFit(chain, size) = NONE
        ELSE FirstFit(chain, size) \in fits /\ \A o \in fits : FirstFit(chain, size) <= o
    BY <2>1, <2>2, LowestIsLeast
  <2> QED BY <2>3 DEF fits
<1> QED BY <1>1, InvInit, InvNext, PTL DEF Spec

(* No call disturbs a block that a caller holds across it.                 *)
THEOREM Staying == Spec => HeldBlocksStay
<1> DEFINE Stays ==
      \A ptr \in DOMAIN live \cap DOMAIN live' :
        LET o == ptr - BLOCK_HEADER_SIZE
        IN /\ o \in DOMAIN chain'
           /\ chain'[o].is_free = chain[o].is_free
           /\ chain'[o].size = chain[o].size
           /\ live'[ptr] = live[ptr]
<1>1. Inv /\ [Next]_vars => [Stays]_vars
  <2> SUFFICES ASSUME Inv, Next PROVE Stays
    BY DEF vars
  <2>1. Sound(chain)
    BY InvSound
  <2>2. ASSUME NEW size \in Sizes, CallAlloc(size) PROVE Stays
    <3>1. PICK o \in DOMAIN chain :
            /\ size \in Nat /\ size > 0
            /\ chain[o].is_free /\ chain[o].size >= size
            /\ chain' = Occupy(chain, o, size)
            /\ \A ptr \in DOMAIN live : live'[ptr] = live[ptr]
      BY <2>2, AllocStep
    <3>2. \A p \in DOMAIN chain \ {o} :
            /\ p \in DOMAIN chain'
            /\ chain'[p].size = chain[p].size /\ chain'[p].is_free = chain[p].is_free
      BY <2>1, <3>1, OccupySound
    <3>3. \A ptr \in DOMAIN live : ptr - BLOCK_HEADER_SIZE \in DOMAIN chain \ {o}
      BY <3>1, HeldPointer
    <3> QED BY <3>1, <3>2, <3>3
  <2>3. ASSUME NEW ptr \in DOMAIN live, CallDealloc(ptr) PROVE Stays
    <3> DEFINE o == ptr - BLOCK_HEADER_SIZE
    <3>1. /\ chain' = Release(chain, o)
          /\ DOMAIN live' = DOMAIN live \ {ptr}
          /\ \A p \in DOMAIN live \ {ptr} : live'[p] = live[p]
          /\ o \in DOMAIN chain
      BY <2>3, DeallocStep, HeldPointer
    <3>2. \A p \in DOMAIN chain \ {o} : ~chain[p].is_free =>
            p \in DOMAIN chain' /\ chain'[p] = chain[p]
      BY <2>1, <3>1, ReleaseSound
    <3>3. \A p \in DOMAIN live \ {ptr} :
            p - BLOCK_HEADER_SIZE \in DOMAIN chain \ {o} /\ ~chain[p - BLOCK_HEADER_SIZE].is_free
      BY HeldPointer, LayoutAssumption
    <3> QED BY <3>1, <3>2, <3>3
  <2> QED BY <2>2, <2>3 DEF Next
<1> QED BY <1>1, InvInit, InvNext, PTL DEF Spec, HeldBlocksStay

-----------------------------------------------------------------------------
(* The allocator implements the heap that its callers rely on: what it     *)
(* grants lies in the data region and overlaps nothing that is held.       *)
THEOREM Implementing == Spec => ImplementsHeap
<1>1. Init => Heap!Init
  BY DEF Init, Heap!Init
<1>2. Inv /\ [Next]_vars => [Heap!Next]_live
  <2> SUFFICES ASSUME Inv, Next PROVE Heap!Next \/ UNCHANGED live
    BY DEF vars
  <2>0. /\ Sound(chain)
        /\ RAM_SIZE \in Nat /\ DATA_REGION_OFFSET \in Nat /\ BLOCK_HEADER_SIZE \in Nat \ {0}
    BY InvSound, LayoutAssumption
  <2>1. ASSUME NEW size \in Sizes, CallAlloc(size) PROVE Heap!Next
    <3>1. PICK o \in DOMAIN chain :
            /\ size \in Nat /\ size > 0
            /\ chain[o].is_free /\ chain[o].size >= size
            /\ o + BLOCK_HEADER_SIZE \notin DOMAIN live
            /\ DOMAIN live' = DOMAIN live \cup {o + BLOCK_HEADER_SIZE}
            /\ live'[o + BLOCK_HEADER_SIZE] = size
            /\ \A ptr \in DOMAIN live : live'[ptr] = live[ptr]
            /\ live' = [ptr \in DOMAIN live' |-> live'[ptr]]
      BY <2>1, AllocStep
    <3> DEFINE p == o + BLOCK_HEADER_SIZE
    <3>2. /\ o \in Int /\ o >= DATA_REGION_OFFSET /\ chain[o].size \in Nat
          /\ BlockEnd(chain, o) = p + chain[o].size
          /\ BlockEnd(chain, o) <= RAM_SIZE
          /\ \A q \in DOMAIN chain : o < q => BlockEnd(chain, o) <= q
      BY <2>0, SoundBlock DEF BlockEnd
    <3>3. p \in DATA_REGION_OFFSET .. RAM_SIZE /\ p + size <= RAM_SIZE
      BY <2>0, <3>1, <3>2
    <3>4. ASSUME NEW q \in DOMAIN live PROVE Heap!Disjoint(p, size, q, live[q])
      <4> DEFINE h == q - BLOCK_HEADER_SIZE
      <4>1. /\ h \in DOMAIN chain /\ ~chain[h].is_free /\ h + BLOCK_HEADER_SIZE = q
            /\ q \in Int /\ live[q] \in Nat /\ q + live[q] <= BlockEnd(chain, h)
            /\ h \in Int /\ BlockEnd(chain, h) \in Int
            /\ \A r \in DOMAIN chain : h < r => BlockEnd(chain, h) <= r
        BY <2>0, HeldPointer, SoundBlock
      <4>2. CASE o < h
        BY <4>1, <4>2, <3>1, <3>2, <2>0 DEF Heap!Disjoint
      <4>3. CASE h < o
        BY <4>1, <4>3, <3>1, <3>2, <2>0 DEF Heap!Disjoint
      <4> QED BY <4>1, <4>2, <4>3, <3>1, <3>2
    <3>5. live' = [q \in DOMAIN live \cup {p} |-> IF q = p THEN size ELSE live[q]]
      BY <3>1
    <3>6. Heap!Grant(p, size)
      BY <3>1, <3>2, <3>3, <3>4, <3>5, <2>0 DEF Heap!Grant
    <3> QED BY <3>3, <3>6 DEF Heap!Next
  <2>2. ASSUME NEW ptr \in DOMAIN live, CallDealloc(ptr) PROVE Heap!Next
    <3>1. Heap!GiveBack(ptr)
      BY <2>2 DEF Heap!GiveBack, CallDealloc
    <3> QED BY <3>1 DEF Heap!Next
  <2> QED BY <2>1, <2>2 DEF Next
<1> QED BY <1>1, <1>2, InvInit, InvNext, PTL DEF Spec, ImplementsHeap, Heap!Spec
=============================================================================
