-------------------------- MODULE BlockChainProofs --------------------------
(***************************************************************************)
(* Facts about the allocator's operators, for every layout of the region:  *)
(* splitting and merging keep a chain that tiles the data region, and the  *)
(* search along next_offset finds the lowest block that suits.             *)
(***************************************************************************)
EXTENDS BlockChain, FiniteSetTheorems, OrderLemmas, TLAPS

(* A chain as alloc and dealloc find it and leave it. *)
Sound(c) == IsChain(c) /\ Tiles(c)

(* What a sound chain says of one of its blocks, in the arithmetic that    *)
(* the proofs below use.                                                   *)
LEMMA SoundBlock ==
  ASSUME NEW c, Sound(c), NEW o \in DOMAIN c
  PROVE  /\ o \in Int /\ o >= DATA_REGION_OFFSET /\ o >= 0
         /\ c[o].size \in Nat /\ c[o].size > 0
         /\ c[o].is_free \in BOOLEAN
         /\ BlockEnd(c, o) \in Int /\ BlockEnd(c, o) <= RAM_SIZE
         /\ o + BLOCK_HEADER_SIZE < BlockEnd(c, o)
         /\ c[o].next_offset = NONE => BlockEnd(c, o) = RAM_SIZE
         /\ c[o].next_offset # NONE =>
              /\ c[o].next_offset = BlockEnd(c, o)
              /\ BlockEnd(c, o) \in DOMAIN c
         /\ \A p \in DOMAIN c : o < p => BlockEnd(c, o) <= p
<1>1. /\ c[o] \in BlockHeader /\ o \in Offsets
      /\ RAM_SIZE \in Nat /\ DATA_REGION_OFFSET \in Nat /\ BLOCK_HEADER_SIZE \in Nat \ {0}
  BY LayoutAssumption DEF Sound, IsChain
<1>2. c[o].size \in Nat \ {0} /\ c[o].is_free \in BOOLEAN
  BY <1>1 DEF BlockHeader
<1>3. o \in Int /\ o >= DATA_REGION_OFFSET
  BY <1>1 DEF Offsets
<1>4. BlockEnd(c, o) \in Int /\ o + BLOCK_HEADER_SIZE < BlockEnd(c, o)
  BY <1>1, <1>2, <1>3 DEF BlockEnd
<1>5. /\ c[o].next_offset = NONE => BlockEnd(c, o) = RAM_SIZE
      /\ c[o].next_offset # NONE =>
           c[o].next_offset = BlockEnd(c, o) /\ BlockEnd(c, o) \in DOMAIN c
      /\ \A p \in DOMAIN c : o < p => BlockEnd(c, o) <= p
  BY DEF Sound, Tiles
<1>6. BlockEnd(c, o) <= RAM_SIZE
  <2>1. CASE c[o].next_offset = NONE
    BY <2>1, <1>5, <1>1
  <2>2. CASE c[o].next_offset # NONE
    <3>1. BlockEnd(c, o) \in Offsets
      BY <2>2, <1>5 DEF Sound, IsChain
    <3> QED BY <3>1, <1>1 DEF Offsets
  <2> QED BY <2>1, <2>2
<1> QED BY <1>1, <1>2, <1>3, <1>4, <1>5, <1>6

(* memory_init leaves a sound chain. *)
LEMMA FreshSound == Sound(FreshChain)
<1>1. /\ RAM_SIZE \in Nat /\ DATA_REGION_OFFSET \in Nat /\ BLOCK_HEADER_SIZE \in Nat \ {0}
      /\ DATA_REGION_OFFSET + BLOCK_HEADER_SIZE < RAM_SIZE
  BY LayoutAssumption
<1>2. DATA_REGION_OFFSET \in Offsets
  BY <1>1 DEF Offsets
<1>3. FreshChain[DATA_REGION_OFFSET] \in BlockHeader
  BY <1>1 DEF FreshChain, BlockHeader, DATA_REGION_SIZE, NONE
<1>4. IsChain(FreshChain)
  BY <1>2, <1>3 DEF IsChain, FreshChain
<1>5. BlockEnd(FreshChain, DATA_REGION_OFFSET) = RAM_SIZE
  BY <1>1 DEF BlockEnd, FreshChain, DATA_REGION_SIZE
<1>6. Tiles(FreshChain)
  BY <1>1, <1>5 DEF Tiles, FreshChain
<1> QED BY <1>4, <1>6 DEF Sound

(* Occupying a free block that is large enough keeps the chain sound; the  *)
(* block gets at least the bytes asked for and at most a header more, and  *)
(* no other block is touched.                                              *)
LEMMA OccupySound ==
  ASSUME NEW c, Sound(c), NEW o \in DOMAIN c, NEW size \in Nat, size > 0,
         c[o].is_free, c[o].size >= size
  PROVE  LET d == Occupy(c, o, size)
         IN /\ Sound(d)
            /\ o \in DOMAIN d /\ ~d[o].is_free
            /\ size <= d[o].size /\ d[o].size <= size + BLOCK_HEADER_SIZE
            /\ \A p \in DOMAIN c \ {o} :
                 p \in DOMAIN d /\ d[p].size = c[p].size /\ d[p].is_free = c[p].is_free
            /\ \A p \in DOMAIN d \ DOMAIN c : d[p].is_free
<1> DEFINE d == Occupy(c, o, size)
           rest == RestOffset(o, size)
<1>1. /\ RAM_SIZE \in Nat /\ DATA_REGION_OFFSET \in Nat /\ BLOCK_HEADER_SIZE \in Nat \ {0}
  BY LayoutAssumption
<1>2. /\ c[o] \in BlockHeader /\ o \in Int
      /\ c[o].size \in Nat /\ c[o].size > 0
      /\ c[o].next_offset \in Offsets \cup {NONE}
      /\ BlockEnd(c, o) = o + BLOCK_HEADER_SIZE + c[o].size
      /\ BlockEnd(c, o) <= RAM_SIZE /\ o >= DATA_REGION_OFFSET
  BY SoundBlock DEF Sound, IsChain, BlockHeader, BlockEnd
<1>3. CASE ~Splits(c[o].size - size)
  <2>1. d = [c EXCEPT ![o].is_free = FALSE]
    BY <1>3 DEF Occupy
  <2>2. /\ DOMAIN d = DOMAIN c
        /\ d[o] = [size |-> c[o].size, is_free |-> FALSE, next_offset |-> c[o].next_offset]
        /\ \A p \in DOMAIN c \ {o} : d[p] = c[p]
    BY <2>1, <1>2 DEF BlockHeader
  <2>3. IsChain(d)
    <3>1. d[o] \in BlockHeader
      BY <2>2, <1>2 DEF BlockHeader
    <3> QED BY <3>1, <2>1, <2>2 DEF Sound, IsChain
  <2>4. \A p \in DOMAIN c : BlockEnd(d, p) = BlockEnd(c, p) /\ d[p].next_offset = c[p].next_offset
    BY <2>2 DEF BlockEnd
  <2>5. Tiles(d)
    BY <2>2, <2>4 DEF Sound, Tiles
  <2>6. d[o].size <= size + BLOCK_HEADER_SIZE
    BY <2>2, <1>1, <1>2, <1>3 DEF Splits
  <2> QED BY <2>2, <2>3, <2>5, <2>6 DEF Sound
<1>4. CASE Splits(c[o].size - size)
  <2>1. /\ rest = o + BLOCK_HEADER_SIZE + size
        /\ c[o].size - size >= BLOCK_HEADER_SIZE + 1
        /\ rest \in Int /\ o < rest
        /\ rest < BlockEnd(c, o)
    BY <1>1, <1>2, <1>4 DEF Splits, RestOffset
  <2>2. \A p \in DOMAIN c : p \in Int /\ (p <= o \/ BlockEnd(c, o) <= p)
    BY SoundBlock, <1>2
  <2>3. rest \notin DOMAIN c /\ rest \in Offsets
    BY <2>1, <2>2, <1>1, <1>2 DEF Offsets
  <2>4. /\ DOMAIN d = DOMAIN c \cup {rest}
        /\ d[o] = [size |-> size, is_free |-> FALSE, next_offset |-> rest]
        /\ d[rest] = [size |-> c[o].size - size - BLOCK_HEADER_SIZE, is_free |-> TRUE,
                      next_offset |-> c[o].next_offset]
        /\ \A p \in DOMAIN c \ {o} : d[p] = c[p]
    BY <1>4, <2>1, <2>3 DEF Occupy, RestHeader
  <2>5. IsChain(d)
    <3>1. d[o] \in BlockHeader
      BY <2>3, <2>4 DEF BlockHeader
    <3>2. d[rest] \in BlockHeader
      BY <2>1, <2>4, <1>1, <1>2 DEF BlockHeader
    <3>3. \A p \in DOMAIN d : d[p] \in BlockHeader
      BY <3>1, <3>2, <2>4 DEF Sound, IsChain
    <3>4. d = [p \in DOMAIN d |-> d[p]]
      BY <1>4 DEF Occupy
    <3> QED BY <3>3, <3>4, <2>3, <2>4 DEF Sound, IsChain
  <2>6. /\ BlockEnd(d, o) = rest
        /\ BlockEnd(d, rest) = BlockEnd(c, o)
        /\ \A p \in DOMAIN c \ {o} : BlockEnd(d, p) = BlockEnd(c, p)
    BY <2>1, <2>4, <1>1, <1>2 DEF BlockEnd
  <2>7. Tiles(d)
    <3>1. DATA_REGION_OFFSET \in DOMAIN d
      BY <2>4 DEF Sound, Tiles
    <3>2. \A p \in DOMAIN d :
            IF d[p].next_offset = NONE
            THEN BlockEnd(d, p) = RAM_SIZE
            ELSE d[p].next_offset = BlockEnd(d, p) /\ BlockEnd(d, p) \in DOMAIN d
      <4>1. rest # NONE
        BY <2>3, <1>1 DEF Offsets, NONE
      <4>2. /\ c[o].next_offset = NONE => BlockEnd(c, o) = RAM_SIZE
            /\ c[o].next_offset # NONE =>
                 c[o].next_offset = BlockEnd(c, o) /\ BlockEnd(c, o) \in DOMAIN c
        BY SoundBlock
      <4>3. \A p \in DOMAIN c \ {o} :
              /\ c[p].next_offset = NONE => BlockEnd(c, p) = RAM_SIZE
              /\ c[p].next_offset # NONE =>
                   c[p].next_offset = BlockEnd(c, p) /\ BlockEnd(c, p) \in DOMAIN c
        BY SoundBlock
      <4> QED BY <4>1, <4>2, <4>3, <2>4, <2>6
    <3>3. \A p, q \in DOMAIN d : p < q => BlockEnd(d, p) <= q
      <4>1. \A p \in DOMAIN c : BlockEnd(c, p) \in Int
        BY SoundBlock
      <4>2. \A p, q \in DOMAIN c : p < q => BlockEnd(c, p) <= q
        BY DEF Sound, Tiles
      <4> QED BY <4>1, <4>2, <2>1, <2>2, <2>4, <2>6, <1>2
    <3> QED BY <3>1, <3>2, <3>3 DEF Tiles
  <2> QED BY <2>4, <2>5, <2>7, <1>1, <2>3 DEF Sound
<1> QED BY <1>3, <1>4

(* Freeing a block keeps the chain sound and touches no block in use but   *)
(* that one.                                                               *)
LEMMA ReleaseSound ==
  ASSUME NEW c, Sound(c), NEW o \in DOMAIN c
  PROVE  LET d == Release(c, o)
         IN /\ Sound(d)
            /\ o \in DOMAIN d /\ d[o].is_free
            /\ DOMAIN d \subseteq DOMAIN c
            /\ \A p \in DOMAIN c \ {o} : ~c[p].is_free => p \in DOMAIN d /\ d[p] = c[p]
            /\ \A p \in DOMAIN d \ {o} : d[p] = c[p]
<1> DEFINE d == Release(c, o)
           next == c[o].next_offset
<1>1. /\ RAM_SIZE \in Nat /\ DATA_REGION_OFFSET \in Nat /\ BLOCK_HEADER_SIZE \in Nat \ {0}
  BY LayoutAssumption
<1>2. /\ c[o] \in BlockHeader /\ o \in Int
      /\ c[o].size \in Nat /\ c[o].size > 0
      /\ next \in Offsets \cup {NONE}
  BY SoundBlock DEF Sound, IsChain, BlockHeader
<1>3. CASE ~Absorbs(c, next)
  <2>1. d = [c EXCEPT ![o].is_free = TRUE]
    BY <1>3 DEF Release
  <2>2. /\ DOMAIN d = DOMAIN c
        /\ d[o] = [size |-> c[o].size, is_free |-> TRUE, next_offset |-> c[o].next_offset]
        /\ \A p \in DOMAIN c \ {o} : d[p] = c[p]
    BY <2>1, <1>2 DEF BlockHeader
  <2>3. IsChain(d)
    <3>1. d[o] \in BlockHeader
      BY <2>2, <1>2 DEF BlockHeader
    <3> QED BY <3>1, <2>1, <2>2 DEF Sound, IsChain
  <2>4. \A p \in DOMAIN c : BlockEnd(d, p) = BlockEnd(c, p) /\ d[p].next_offset = c[p].next_offset
    BY <2>2 DEF BlockEnd
  <2>5. Tiles(d)
    BY <2>2, <2>4 DEF Sound, Tiles
  <2> QED BY <2>2, <2>3, <2>5 DEF Sound
<1>4. CASE Absorbs(c, next)
  <2>1. /\ next # NONE /\ c[next].is_free
        /\ next = BlockEnd(c, o) /\ next \in DOMAIN c /\ o < next
    BY <1>1, <1>2, <1>4, SoundBlock DEF Absorbs
  <2>2. /\ c[next].size \in Nat /\ c[next].size > 0 /\ next \in Int
        /\ c[next].next_offset \in Offsets \cup {NONE}
    BY <2>1, SoundBlock DEF Sound, IsChain, BlockHeader
  <2>3. /\ DOMAIN d = DOMAIN c \ {next}
        /\ o \in DOMAIN d
        /\ d[o] = [size |-> c[o].size + BLOCK_HEADER_SIZE + c[next].size, is_free |-> TRUE,
                   next_offset |-> c[next].next_offset]
        /\ \A p \in DOMAIN d \ {o} : d[p] = c[p]
    BY <1>2, <1>4, <2>1 DEF Release, Merged
  <2>4. IsChain(d)
    <3>1. d[o] \in BlockHeader
      BY <2>2, <2>3, <1>1, <1>2 DEF BlockHeader
    <3>2. \A p \in DOMAIN d : d[p] \in BlockHeader
      BY <3>1, <2>3 DEF Sound, IsChain
    <3>3. d = [p \in DOMAIN d |-> d[p]]
      BY <1>4 DEF Release
    <3> QED BY <3>2, <3>3, <2>3 DEF Sound, IsChain
  <2>5. /\ BlockEnd(d, o) = BlockEnd(c, next)
        /\ \A p \in DOMAIN d \ {o} : BlockEnd(d, p) = BlockEnd(c, p)
    BY <2>1, <2>2, <2>3, <1>1, <1>2 DEF BlockEnd
  <2>6. Tiles(d)
    <3>1. \A p \in DOMAIN c :
            /\ p \in Int /\ BlockEnd(c, p) \in Int /\ p < BlockEnd(c, p)
            /\ p >= DATA_REGION_OFFSET
            /\ c[p].next_offset = NONE => BlockEnd(c, p) = RAM_SIZE
            /\ c[p].next_offset # NONE =>
                 c[p].next_offset = BlockEnd(c, p) /\ BlockEnd(c, p) \in DOMAIN c
            /\ \A q \in DOMAIN c : p < q => BlockEnd(c, p) <= q
      BY SoundBlock, <1>1
    <3>2. DATA_REGION_OFFSET \in DOMAIN d
      BY <2>1, <2>3, <3>1, <1>1 DEF Sound, Tiles
    <3>3. \A p \in DOMAIN c \ {o} : BlockEnd(c, p) # next
      <4> SUFFICES ASSUME NEW p \in DOMAIN c \ {o}, BlockEnd(c, p) = next PROVE FALSE
        OBVIOUS
      <4>1. p < o \/ o < p
        BY <3>1
      <4>2. CASE p < o
        BY <4>2, <3>1, <2>1
      <4>3. CASE o < p
        BY <4>3, <3>1, <2>1
      <4> QED BY <4>1, <4>2, <4>3
    <3>4. \A p \in DOMAIN d :
            IF d[p].next_offset = NONE
            THEN BlockEnd(d, p) = RAM_SIZE
            ELSE d[p].next_offset = BlockEnd(d, p) /\ BlockEnd(d, p) \in DOMAIN d
      <4>1. BlockEnd(c, next) # next
        BY <3>1, <2>1
      <4> QED BY <4>1, <2>1, <2>3, <2>5, <3>1, <3>3
    <3>5. \A p, q \in DOMAIN d : p < q => BlockEnd(d, p) <= q
      <4> SUFFICES ASSUME NEW p \in DOMAIN d, NEW q \in DOMAIN d, p < q
                   PROVE  BlockEnd(d, p) <= q
        OBVIOUS
      <4>1. CASE p # o
        BY <4>1, <2>3, <2>5, <3>1
      <4>2. CASE p = o
        <5>1. BlockEnd(c, o) <= q /\ q # next
          BY <4>2, <2>3, <3>1
        <5>2. next < q
          BY <5>1, <2>1, <2>3, <3>1
        <5> QED BY <5>2, <4>2, <2>1, <2>3, <2>5, <3>1
      <4> QED BY <4>1, <4>2
    <3> QED BY <3>2, <3>4, <3>5 DEF Tiles
  <2>7. \A p \in DOMAIN c \ {o} : ~c[p].is_free => p \in DOMAIN d
    BY <2>1, <2>3
  <2> QED BY <2>3, <2>4, <2>6, <2>7 DEF Sound
<1> QED BY <1>3, <1>4

(* The least element of a set of offsets, NONE when it is empty. *)
Lowest(T) == IF T = {} THEN NONE ELSE CHOOSE m \in T : \A n \in T : m <= n

(* Lowest is the least element of a set of naturals, if there is one.      *)
LEMMA LowestIsLeast ==
  ASSUME NEW T \in SUBSET Nat
  PROVE  /\ T = {} => Lowest(T) = NONE
         /\ T # {} => Lowest(T) \in T /\ \A n \in T : Lowest(T) <= n
BY LeastNat DEF Lowest

(* The loop of alloc finds the lowest block that suits, or none when there *)
(* is none.  The recursive function Walk is determined by its equation     *)
(* because next_offset only increases.                                     *)
THEOREM FirstFitIsLowest ==
  ASSUME NEW c, Sound(c), NEW size
  PROVE  FirstFit(c, size) = Lowest({o \in DOMAIN c : Suits(c[o], size)})
<1> DEFINE S == DOMAIN c \cup {NONE}
           From(o) == {p \in DOMAIN c : o <= p /\ Suits(c[p], size)}
           f == [o \in S |-> IF o = NONE THEN NONE ELSE Lowest(From(o))]
           Step(g) == [o \in S |-> IF o = NONE \/ Suits(c[o], size) THEN o
                                   ELSE g[c[o].next_offset]]
           Solves(g) == g = Step(g)
<1>1. /\ RAM_SIZE \in Nat /\ DATA_REGION_OFFSET \in Nat
      /\ DOMAIN c \subseteq Offsets /\ DATA_REGION_OFFSET \in DOMAIN c
      /\ \A o \in DOMAIN c : o \in Nat /\ DATA_REGION_OFFSET <= o /\ o < RAM_SIZE
      /\ NONE \notin DOMAIN c
  BY LayoutAssumption DEF Sound, IsChain, Tiles, Offsets, NONE
<1>2. \A o \in DOMAIN c :
        /\ c[o].next_offset \in S
        /\ c[o].next_offset # NONE => o < c[o].next_offset
        /\ \A p \in DOMAIN c : o < p => c[o].next_offset # NONE /\ c[o].next_offset <= p
  <2> SUFFICES ASSUME NEW o \in DOMAIN c
               PROVE  /\ c[o].next_offset \in S
                      /\ c[o].next_offset # NONE => o < c[o].next_offset
                      /\ \A p \in DOMAIN c : o < p => c[o].next_offset # NONE
                                                     /\ c[o].next_offset <= p
    OBVIOUS
  <2>1. /\ o \in Int /\ BLOCK_HEADER_SIZE \in Nat
        /\ BlockEnd(c, o) \in Int /\ o + BLOCK_HEADER_SIZE < BlockEnd(c, o)
        /\ c[o].next_offset = NONE => BlockEnd(c, o) = RAM_SIZE
        /\ c[o].next_offset # NONE =>
             c[o].next_offset = BlockEnd(c, o) /\ BlockEnd(c, o) \in DOMAIN c
        /\ \A p \in DOMAIN c : o < p => BlockEnd(c, o) <= p
    BY SoundBlock, LayoutAssumption
  <2> QED BY <2>1, <1>1
<1>3. \A o \in DOMAIN c :
        /\ From(o) \in SUBSET Nat
        /\ Suits(c[o], size) => Lowest(From(o)) = o
        /\ ~Suits(c[o], size) /\ c[o].next_offset = NONE => Lowest(From(o)) = NONE
        /\ ~Suits(c[o], size) /\ c[o].next_offset # NONE => From(o) = From(c[o].next_offset)
  <2> SUFFICES ASSUME NEW o \in DOMAIN c
               PROVE  /\ From(o) \in SUBSET Nat
                      /\ Suits(c[o], size) => Lowest(From(o)) = o
                      /\ ~Suits(c[o], size) /\ c[o].next_offset = NONE => Lowest(From(o)) = NONE
                      /\ ~Suits(c[o], size) /\ c[o].next_offset # NONE =>
                           From(o) = From(c[o].next_offset)
    OBVIOUS
  <2>1. From(o) \in SUBSET Nat
    BY <1>1
  <2>2. ASSUME Suits(c[o], size) PROVE Lowest(From(o)) = o
    <3>1. o \in From(o) /\ \A p \in From(o) : o <= p
      BY <2>2, <1>1
    <3>2. Lowest(From(o)) \in From(o) /\ Lowest(From(o)) <= o
      BY <3>1, <2>1, LowestIsLeast
    <3> HIDE DEF From
    <3> QED BY <3>1, <3>2, <2>1, <1>1
  <2>3. ASSUME ~Suits(c[o], size), c[o].next_offset = NONE PROVE Lowest(From(o)) = NONE
    <3>1. From(o) = {}
      BY <2>3, <1>1, <1>2
    <3> QED BY <3>1, LowestIsLeast
  <2>4. ASSUME ~Suits(c[o], size), c[o].next_offset # NONE
        PROVE  From(o) = From(c[o].next_offset)
    BY <2>4, <1>1, <1>2
  <2> QED BY <2>1, <2>2, <2>3, <2>4
<1>4. Solves(f)
  <2>1. \A o \in S : f[o] = Step(f)[o]
    <3> SUFFICES ASSUME NEW o \in DOMAIN c PROVE f[o] = Step(f)[o]
      BY <1>1
    <3>1. o # NONE
      BY <1>1
    <3>2. f[o] = Lowest(From(o)) /\ f[NONE] = NONE
      BY <3>1
    <3>3. c[o].next_offset \in DOMAIN c => f[c[o].next_offset] = Lowest(From(c[o].next_offset))
      BY <1>1
    <3>4. c[o].next_offset \in S
      BY <1>2
    <3>5. Step(f)[o] = IF Suits(c[o], size) THEN o ELSE f[c[o].next_offset]
      BY <3>1
    <3> HIDE DEF f, From, Step
    <3> QED BY <3>2, <3>3, <3>4, <3>5, <1>3
  <2> QED BY <2>1
<1>5. ASSUME NEW g, Solves(g) PROVE g = f
  <2>1. /\ g[NONE] = NONE
        /\ \A o \in DOMAIN c : g[o] = IF Suits(c[o], size) THEN o ELSE g[c[o].next_offset]
        /\ f[NONE] = NONE
        /\ \A o \in DOMAIN c : f[o] = IF Suits(c[o], size) THEN o ELSE f[c[o].next_offset]
    <3>1. \A h : Solves(h) => /\ h[NONE] = NONE
                             /\ \A o \in DOMAIN c :
                                  h[o] = IF Suits(c[o], size) THEN o ELSE h[c[o].next_offset]
      <4> SUFFICES ASSUME NEW h, Solves(h)
                   PROVE  /\ h[NONE] = NONE
                          /\ \A o \in DOMAIN c :
                               h[o] = IF Suits(c[o], size) THEN o ELSE h[c[o].next_offset]
        OBVIOUS
      <4>1. \A o \in S : h[o] = IF o = NONE \/ Suits(c[o], size) THEN o
                               ELSE h[c[o].next_offset]
        OBVIOUS
      <4> QED BY <4>1, <1>1
    <3> HIDE DEF Solves, f
    <3> QED BY <3>1, <1>4, <1>5
  <2> DEFINE Bad == {o \in DOMAIN c : g[o] # f[o]}
  <2>2. Bad = {}
    <3> SUFFICES ASSUME Bad # {} PROVE FALSE
      OBVIOUS
    <3> DEFINE D == {RAM_SIZE - o : o \in Bad}
    <3>0. Bad \subseteq DOMAIN c /\ \A p \in DOMAIN c \ Bad : g[p] = f[p]
      OBVIOUS
    <3> HIDE DEF Bad, f
    <3>1. D \in SUBSET Nat /\ D # {}
      BY <1>1, <3>0
    <3>2. PICK n \in D : \A m \in D : n <= m
      BY <3>1, LeastNat
    <3>3. PICK o \in Bad : n = RAM_SIZE - o
      OBVIOUS
    <3>4. \A p \in Bad : p <= o
      BY <3>2, <3>3, <3>0, <1>1
    <3>5. c[o].next_offset \notin Bad
      BY <3>4, <3>0, <1>1, <1>2
    <3>6. g[c[o].next_offset] = f[c[o].next_offset]
      BY <3>5, <3>0, <1>2, <2>1
    <3>7. g[o] = f[o]
      BY <3>6, <3>0, <2>1
    <3> QED BY <3>7 DEF Bad
  <2>3. \A o \in S : g[o] = f[o]
    BY <2>1, <2>2
  <2>4. g = [o \in S |-> g[o]]
    BY <1>5
  <2> QED BY <2>3, <2>4
<1>6. Walk(c, size) = f
  <2>1. Walk(c, size) = CHOOSE g : Solves(g)
    BY DEF Walk
  <2> HIDE DEF Solves, f
  <2> QED BY <2>1, <1>4, <1>5
<1>7. FirstFit(c, size) = Lowest(From(DATA_REGION_OFFSET))
  <2>1. DATA_REGION_OFFSET # NONE
    BY <1>1
  <2> QED BY <1>1, <1>6, <2>1 DEF FirstFit
<1>8. From(DATA_REGION_OFFSET) = {o \in DOMAIN c : Suits(c[o], size)}
  BY <1>1
<1> QED BY <1>7, <1>8

(* alloc either refuses and leaves the chain alone, or occupies a free     *)
(* block that is large enough and returns the byte after its header.       *)
LEMMA AllocOutcome ==
  ASSUME NEW c, Sound(c), NEW size \in Int
  PROVE  LET got == Alloc(c, size)
         IN \/ got.ptr = NONE /\ got.chain = c
            \/ \E o \in DOMAIN c :
                 /\ got.ptr = o + BLOCK_HEADER_SIZE /\ got.ptr # NONE
                 /\ size > 0 /\ c[o].is_free /\ c[o].size >= size
                 /\ got.chain = Occupy(c, o, size)
<1> DEFINE o == FirstFit(c, size)
           fits == {p \in DOMAIN c : Suits(c[p], size)}
<1>1. CASE size <= 0 \/ o = NONE
  BY <1>1 DEF Alloc
<1>2. CASE ~(size <= 0 \/ o = NONE)
  <2>1. /\ Alloc(c, size).ptr = o + BLOCK_HEADER_SIZE
        /\ Alloc(c, size).chain = Occupy(c, o, size)
    BY <1>2 DEF Alloc
  <2>2. fits \in SUBSET Nat
    BY SoundBlock
  <2>3. o \in fits
    <3>1. o = Lowest(fits) /\ o # NONE
      BY <1>2, FirstFitIsLowest
    <3> HIDE DEF fits, o
    <3> QED BY <3>1, <2>2, LowestIsLeast
  <2>4. o \in DOMAIN c /\ c[o].is_free /\ c[o].size >= size
    BY <2>3 DEF Suits
  <2>5. o + BLOCK_HEADER_SIZE # NONE
    BY <2>4, SoundBlock, LayoutAssumption DEF NONE
  <2> QED BY <1>2, <2>1, <2>4, <2>5
<1> QED BY <1>1, <1>2

(* dealloc of what alloc returned for the block at o passes its bounds     *)
(* check and frees that block.                                             *)
LEMMA DeallocOutcome ==
  ASSUME NEW c, Sound(c), NEW o \in DOMAIN c
  PROVE  Dealloc(c, o + BLOCK_HEADER_SIZE) = Release(c, o)
<1>1. /\ o \in Int /\ o >= DATA_REGION_OFFSET
      /\ o + BLOCK_HEADER_SIZE < RAM_SIZE
      /\ RAM_SIZE \in Nat /\ DATA_REGION_OFFSET \in Nat /\ BLOCK_HEADER_SIZE \in Nat
  BY SoundBlock, LayoutAssumption
<1>2. /\ (o + BLOCK_HEADER_SIZE) - BLOCK_HEADER_SIZE = o
      /\ o \in DATA_REGION_OFFSET .. RAM_SIZE - BLOCK_HEADER_SIZE
  BY <1>1
<1> QED BY <1>2 DEF Dealloc

-----------------------------------------------------------------------------
(* next_offset leads to the next header upwards, and nothing lies between. *)
LEMMA NextIsAbove ==
  ASSUME NEW c, Sound(c), NEW o \in DOMAIN c
  PROVE  LET next == c[o].next_offset
         IN /\ next \in DOMAIN c \cup {NONE}
            /\ next # NONE => o < next
            /\ \A p \in DOMAIN c : o < p => next # NONE /\ next <= p
<1>1. /\ o \in Int /\ BLOCK_HEADER_SIZE \in Nat /\ RAM_SIZE \in Nat
      /\ BlockEnd(c, o) \in Int /\ o + BLOCK_HEADER_SIZE < BlockEnd(c, o)
      /\ c[o].next_offset = NONE => BlockEnd(c, o) = RAM_SIZE
      /\ c[o].next_offset # NONE =>
           c[o].next_offset = BlockEnd(c, o) /\ BlockEnd(c, o) \in DOMAIN c
      /\ \A p \in DOMAIN c : o < p => BlockEnd(c, o) <= p
  BY SoundBlock, LayoutAssumption
<1>2. \A p \in DOMAIN c : p \in Int /\ p < RAM_SIZE
  BY LayoutAssumption DEF Sound, IsChain, Offsets
<1> QED BY <1>1, <1>2

(* The blocks from o upwards: the first of them, and those of its next.    *)
From(c, o) == {p \in DOMAIN c : o # NONE /\ o <= p}

LEMMA FromNext ==
  ASSUME NEW c, Sound(c), NEW o \in DOMAIN c
  PROVE  LET next == c[o].next_offset
         IN /\ From(c, o) = From(c, next) \cup {o} /\ o \notin From(c, next)
            /\ IsFiniteSet(From(c, next))
            /\ Cardinality(From(c, next)) \in Nat
            /\ Cardinality(From(c, o)) = Cardinality(From(c, next)) + 1
<1> DEFINE next == c[o].next_offset
<1>1. /\ o \in Int /\ o # NONE /\ DOMAIN c \subseteq Offsets /\ DOMAIN c \subseteq Int
  BY LayoutAssumption DEF Sound, IsChain, Offsets, NONE
<1>2. From(c, o) = From(c, next) \cup {o} /\ o \notin From(c, next)
  BY <1>1, NextIsAbove DEF From
<1>3. IsFiniteSet(Offsets)
  <2>1. RAM_SIZE - 1 \in Int /\ DATA_REGION_OFFSET \in Int
    BY LayoutAssumption
  <2> QED BY <2>1, FS_Interval DEF Offsets
<1>4. IsFiniteSet(From(c, next))
  BY <1>1, <1>3, FS_Subset DEF From
<1> QED BY <1>2, <1>4, FS_AddElement, FS_CardinalityType

(* A sum along next_offset of what each block weighs.                      *)
WeighsUp(sum, c, w) ==
  /\ sum[NONE] = 0
  /\ \A o \in DOMAIN c : sum[o] = w[o] + sum[c[o].next_offset]

(* There is one, for any weights.                                          *)
LEMMA WeightsAddUp ==
  ASSUME NEW c, Sound(c), NEW w \in [DOMAIN c -> Nat]
  PROVE  \E sum \in [DOMAIN c \cup {NONE} -> Nat] : WeighsUp(sum, c, w)
<1> DEFINE D == DOMAIN c \cup {NONE}
           B == {NONE}
           rank == [o \in D |-> IF o = NONE THEN 0 ELSE RAM_SIZE - o]
           next == [o \in D \ B |-> c[o].next_offset]
           base == [o \in D |-> 0]
           G == [o \in D \ B |-> [n \in Nat |-> w[o] + n]]
<1>1. /\ RAM_SIZE \in Nat /\ NONE \notin DOMAIN c
      /\ \A o \in DOMAIN c : o \in Nat /\ o < RAM_SIZE
  BY LayoutAssumption, SoundBlock DEF Sound, IsChain, Offsets, NONE
<1>2. rank \in [D -> 0 .. RAM_SIZE]
  BY <1>1
<1>3. next \in [D \ B -> D]
  BY NextIsAbove
<1>4. \A o \in D \ B : rank[next[o]] < rank[o]
  <2> SUFFICES ASSUME NEW o \in DOMAIN c PROVE rank[c[o].next_offset] < rank[o]
    OBVIOUS
  <2>1. c[o].next_offset \in D /\ (c[o].next_offset # NONE => o < c[o].next_offset)
    BY NextIsAbove
  <2> QED BY <1>1, <2>1
<1>5. base \in [D -> Nat] /\ G \in [D \ B -> [Nat -> Nat]]
  BY <1>1
<1> HIDE DEF rank, next, base, G, D, B
<1>6. LeadsDown(next, D, B, rank, RAM_SIZE)
  BY <1>1, <1>2, <1>3, <1>4 DEF LeadsDown
<1>7. PICK f \in [D -> Nat] : Recurs(f, next, D, B, base, G)
  BY <1>5, <1>6, RecursionDownwards
<1> USE DEF D, B
<1>8. f[NONE] = 0
  BY <1>7 DEF base, Recurs
<1>9. ASSUME NEW o \in DOMAIN c PROVE f[o] = w[o] + f[c[o].next_offset]
  <2>1. o \in D \ B /\ next[o] = c[o].next_offset /\ next[o] \in D
    BY <1>1, NextIsAbove DEF next
  <2>2. f[o] = G[o][f[next[o]]] /\ f[next[o]] \in Nat
    BY <1>7, <2>1 DEF Recurs
  <2> QED BY <2>1, <2>2 DEF G
<1> QED BY <1>8, <1>9 DEF WeighsUp

(* Weights that differ at one block add up to sums that differ by as much. *)
LEMMA OneBlockMore ==
  ASSUME NEW c, Sound(c), NEW D, D = DOMAIN c \cup {NONE},
         NEW v \in [DOMAIN c -> Nat], NEW s \in [D -> Nat], WeighsUp(s, c, v),
         NEW w \in [DOMAIN c -> Nat], NEW r \in [D -> Nat], WeighsUp(r, c, w),
         NEW at \in DOMAIN c, NEW x \in Nat, w[at] = v[at] + x,
         \A o \in DOMAIN c \ {at} : w[o] = v[o]
  PROVE  r[DATA_REGION_OFFSET] = s[DATA_REGION_OFFSET] + x
<1> DEFINE Good(o) == r[o] = s[o] + (IF o <= at THEN x ELSE 0)
           S == {n \in Nat : \A o \in DOMAIN c : RAM_SIZE - o <= n => Good(o)}
<1>1. /\ RAM_SIZE \in Nat /\ NONE \notin DOMAIN c
      /\ DATA_REGION_OFFSET \in DOMAIN c /\ DATA_REGION_OFFSET <= at
      /\ \A o \in DOMAIN c : o \in Nat /\ o < RAM_SIZE
  BY LayoutAssumption, SoundBlock DEF Sound, IsChain, Tiles, Offsets, NONE
<1>2. 0 \in S
  BY <1>1
<1>3. ASSUME NEW n \in 0 .. RAM_SIZE - 1, n \in S PROVE n + 1 \in S
  <2> SUFFICES ASSUME NEW o \in DOMAIN c, RAM_SIZE - o <= n + 1 PROVE Good(o)
    OBVIOUS
  <2> DEFINE next == c[o].next_offset
  <2>1. /\ next \in D /\ (next # NONE => o < next)
        /\ o < at => next # NONE /\ next <= at
    BY NextIsAbove
  <2>2. /\ r[o] = w[o] + r[next] /\ s[o] = v[o] + s[next]
        /\ r[NONE] = 0 /\ s[NONE] = 0 /\ r[next] \in Nat /\ s[next] \in Nat
        /\ w[o] \in Nat /\ v[o] \in Nat /\ v[at] \in Nat
    BY <2>1 DEF WeighsUp
  <2>3. next # NONE => Good(next)
    BY <1>1, <1>3, <2>1
  <2> HIDE DEF next
  <2>4. CASE o < at
    <3>1. r[next] = s[next] + x /\ w[o] = v[o]
      BY <1>1, <2>1, <2>3, <2>4
    <3> QED BY <1>1, <2>2, <2>4, <3>1
  <2>5. CASE o = at
    <3>1. r[next] = s[next]
      BY <1>1, <2>1, <2>2, <2>3, <2>5
    <3> QED BY <1>1, <2>2, <2>5, <3>1
  <2>6. CASE at < o
    <3>1. r[next] = s[next] /\ w[o] = v[o]
      BY <1>1, <2>1, <2>2, <2>3, <2>6
    <3> QED BY <1>1, <2>2, <2>6, <3>1
  <2> QED BY <1>1, <2>4, <2>5, <2>6
<1>4. RAM_SIZE \in S
  <2> HIDE DEF S
  <2>1. \A n \in 0 .. RAM_SIZE : n \in S
    BY <1>1, <1>2, <1>3, InductUpTo
  <2> QED BY <1>1, <2>1
<1>5. Good(DATA_REGION_OFFSET)
  BY <1>1, <1>4
<1> QED BY <1>1, <1>5

(* The pass of memory_used and memory_free: the weight of a block is its   *)
(* size, if it is in the state that is counted.                            *)
CountedSizes(c, is_free) ==
  [o \in DOMAIN c |-> IF c[o].is_free = is_free THEN c[o].size ELSE 0]

SumsUp(sum, c, is_free) == WeighsUp(sum, c, CountedSizes(c, is_free))

LEMMA SumSteps ==
  ASSUME NEW c, Sound(c), NEW is_free
  PROVE  \E sum \in [DOMAIN c \cup {NONE} -> Nat] :
           SumAlong(c, is_free) = sum[DATA_REGION_OFFSET] /\ SumsUp(sum, c, is_free)
<1> DEFINE D == DOMAIN c \cup {NONE}
           Counted(o) == IF c[o].is_free = is_free THEN c[o].size ELSE 0
           Step(g) == [o \in D |-> IF o = NONE THEN 0 ELSE Counted(o) + g[c[o].next_offset]]
           Solves(g) == g = Step(g)
<1>1. /\ RAM_SIZE \in Nat /\ NONE \notin DOMAIN c /\ DATA_REGION_OFFSET \in DOMAIN c
      /\ \A o \in DOMAIN c : o \in Nat /\ o < RAM_SIZE
      /\ \A o \in DOMAIN c : Counted(o) \in Nat
  BY LayoutAssumption, SoundBlock DEF Sound, IsChain, Tiles, Offsets, NONE
<1>2. \E f \in [D -> Nat] : Solves(f)
  <2> DEFINE w == [o \in DOMAIN c |-> Counted(o)]
  <2>1. w \in [DOMAIN c -> Nat]
    BY <1>1
  <2>2. \A o \in DOMAIN c : w[o] = Counted(o)
    OBVIOUS
  <2> HIDE DEF Counted, w
  <2>3. PICK f \in [D -> Nat] : WeighsUp(f, c, w)
    BY <2>1, WeightsAddUp
  <2>4. \A o \in D : f[o] = IF o = NONE THEN 0 ELSE Counted(o) + f[c[o].next_offset]
    BY <1>1, <2>2, <2>3 DEF WeighsUp
  <2>5. f = Step(f)
    BY <2>4
  <2> QED BY <2>5
<1> DEFINE sum == CHOOSE g : Solves(g)
<1>4. SumAlong(c, is_free) = sum[DATA_REGION_OFFSET]
  BY DEF SumAlong
<1>5. Solves(sum)
  <2> HIDE DEF Solves
  <2> QED BY <1>2
<1> HIDE DEF sum
<1>6. /\ sum[NONE] = 0 /\ DOMAIN sum = D
      /\ \A o \in DOMAIN c : sum[o] = Counted(o) + sum[c[o].next_offset]
  <2> HIDE DEF Counted
  <2>1. \A o \in D : sum[o] = IF o = NONE THEN 0 ELSE Counted(o) + sum[c[o].next_offset]
    BY <1>5
  <2>2. DOMAIN sum = D
    BY <1>5
  <2> QED BY <1>1, <2>1, <2>2
<1>7. sum \in [D -> Nat]
  <2> DEFINE S == {n \in Nat : \A o \in DOMAIN c : RAM_SIZE - o <= n => sum[o] \in Nat}
  <2>1. 0 \in S
    BY <1>1
  <2>2. ASSUME NEW n \in 0 .. RAM_SIZE - 1, n \in S PROVE n + 1 \in S
    <3> SUFFICES ASSUME NEW o \in DOMAIN c, RAM_SIZE - o <= n + 1 PROVE sum[o] \in Nat
      OBVIOUS
    <3>1. sum[c[o].next_offset] \in Nat
      <4>1. CASE c[o].next_offset = NONE
        BY <1>6, <4>1
      <4>2. CASE c[o].next_offset # NONE
        BY <1>1, <2>2, <4>2, NextIsAbove
      <4> QED BY <4>1, <4>2
    <3> QED BY <1>1, <1>6, <3>1
  <2>3. RAM_SIZE \in S
    <3> HIDE DEF S
    <3> QED BY <1>1, <2>1, <2>2, InductUpTo
  <2>4. \A o \in DOMAIN c : sum[o] \in Nat
    BY <1>1, <2>3
  <2>5. sum = [o \in D |-> sum[o]]
    BY <1>5
  <2> QED BY <1>6, <2>4, <2>5
<1> QED BY <1>4, <1>6, <1>7 DEF SumsUp, WeighsUp, CountedSizes

(* Used and free bytes and the headers are the whole region.               *)
LEMMA BytesOfChain ==
  ASSUME NEW c, Sound(c)
  PROVE  /\ memory_used(c) \in Nat /\ memory_free(c) \in Nat
         /\ memory_used(c) + memory_free(c) + BLOCK_HEADER_SIZE * Cardinality(DOMAIN c)
              = DATA_REGION_SIZE
<1>1. PICK used \in [DOMAIN c \cup {NONE} -> Nat] :
        memory_used(c) = used[DATA_REGION_OFFSET] /\ SumsUp(used, c, FALSE)
  BY SumSteps DEF memory_used
<1>2. PICK free \in [DOMAIN c \cup {NONE} -> Nat] :
        memory_free(c) = free[DATA_REGION_OFFSET] /\ SumsUp(free, c, TRUE)
  BY SumSteps DEF memory_free
<1>3. /\ RAM_SIZE \in Nat /\ DATA_REGION_OFFSET \in Nat /\ BLOCK_HEADER_SIZE \in Nat
      /\ DATA_REGION_OFFSET \in DOMAIN c
      /\ \A o \in DOMAIN c : o \in Nat /\ o < RAM_SIZE /\ DATA_REGION_OFFSET <= o /\ o # NONE
  BY LayoutAssumption, SoundBlock DEF Sound, IsChain, Tiles, Offsets, NONE
<1> DEFINE Bytes(o) == used[o] + free[o] + BLOCK_HEADER_SIZE * Cardinality(From(c, o))
           Good(o) == Bytes(o) = RAM_SIZE - o
           S == {n \in Nat : \A o \in DOMAIN c : RAM_SIZE - o <= n => Good(o)}
<1>4. 0 \in S
  BY <1>3
<1>5. ASSUME NEW n \in 0 .. RAM_SIZE - 1, n \in S PROVE n + 1 \in S
  <2> SUFFICES ASSUME NEW o \in DOMAIN c, RAM_SIZE - o <= n + 1 PROVE Good(o)
    OBVIOUS
  <2> DEFINE next == c[o].next_offset
             k == Cardinality(From(c, next))
  <2>1. used[o] + free[o] = c[o].size + used[next] + free[next]
    <3>1. c[o].is_free \in BOOLEAN /\ c[o].size \in Nat /\ next \in DOMAIN c \cup {NONE}
      BY SoundBlock, NextIsAbove
    <3>2. used[next] \in Nat /\ free[next] \in Nat
      BY <3>1
    <3> QED BY <1>1, <1>2, <3>1, <3>2 DEF SumsUp, WeighsUp, CountedSizes
  <2>2. k \in Nat /\ Cardinality(From(c, o)) = k + 1
    BY FromNext
  <2>3. used[next] + free[next] + BLOCK_HEADER_SIZE * k = RAM_SIZE - BlockEnd(c, o)
    <3>1. CASE next = NONE
      <4>1. From(c, next) = {}
        BY <3>1 DEF From
      <4>2. k = 0
        BY <4>1, FS_EmptySet
      <4> HIDE DEF k, next
      <4>3. used[next] = 0 /\ free[next] = 0 /\ BlockEnd(c, o) = RAM_SIZE
        BY <1>1, <1>2, <3>1, SoundBlock DEF next, SumsUp, WeighsUp
      <4> QED BY <1>3, <4>2, <4>3
    <3>2. CASE next # NONE
      <4>1. next \in DOMAIN c /\ next = BlockEnd(c, o) /\ o < next
        BY <3>2, NextIsAbove, SoundBlock
      <4>2. Good(next)
        BY <1>3, <1>5, <4>1
      <4> QED BY <4>1, <4>2
    <3> QED BY <3>1, <3>2
  <2>4. /\ BlockEnd(c, o) = o + BLOCK_HEADER_SIZE + c[o].size
        /\ c[o].size \in Nat /\ o \in Nat
        /\ used[next] \in Nat /\ free[next] \in Nat
        /\ used[o] \in Nat /\ free[o] \in Nat
    BY <1>3, SoundBlock, NextIsAbove DEF BlockEnd
  <2>5. BLOCK_HEADER_SIZE * (k + 1) = BLOCK_HEADER_SIZE * k + BLOCK_HEADER_SIZE
    BY <1>3, <2>2
  <2> DEFINE headers == BLOCK_HEADER_SIZE * k
             all == BLOCK_HEADER_SIZE * Cardinality(From(c, o))
  <2>6. headers \in Nat /\ all = headers + BLOCK_HEADER_SIZE
    BY <1>3, <2>2, <2>5
  <2>7. used[next] + free[next] + headers = RAM_SIZE - BlockEnd(c, o)
    BY <2>3
  <2> HIDE DEF headers, all, k, next
  <2>8. used[o] + free[o] + all = RAM_SIZE - o
    BY <1>3, <2>1, <2>4, <2>6, <2>7
  <2> QED BY <2>8 DEF all
<1>6. RAM_SIZE \in S
  <2>1. RAM_SIZE \in Nat
    BY <1>3
  <2> HIDE DEF S
  <2>2. \A n \in 0 .. RAM_SIZE : n \in S
    BY <1>4, <1>5, <2>1, InductUpTo
  <2> QED BY <2>1, <2>2
<1>7. Good(DATA_REGION_OFFSET)
  BY <1>3, <1>6
<1>8. From(c, DATA_REGION_OFFSET) = DOMAIN c
  BY <1>3 DEF From
<1> QED BY <1>1, <1>2, <1>3, <1>7, <1>8 DEF DATA_REGION_SIZE
=============================================================================
