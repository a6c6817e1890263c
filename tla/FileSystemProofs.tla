-------------------------- MODULE FileSystemProofs --------------------------
(***************************************************************************)
(* The invariants of FileSystem for every size of the table and of the     *)
(* data region, and every set of names and texts.                          *)
(***************************************************************************)
EXTENDS FileSystem, BlockChainProofs, SequenceTheorems

(* A slot of the table with all its fields, in range. *)
IsInode(r) ==
  /\ r = [name |-> r.name, type |-> r.type, parent_id |-> r.parent_id, children |-> r.children,
          data_offset |-> r.data_offset, data_size |-> r.data_size, is_active |-> r.is_active]
  /\ r.type \in {INODE_FILE, INODE_DIR}
  /\ r.parent_id \in Ids \cup {NONE}
  /\ r.children \in Seq(Ids) /\ Len(r.children) <= MAX_CHILDREN
  /\ r.data_offset \in Nat \cup {NONE}
  /\ r.data_size \in Nat
  /\ r.is_active \in BOOLEAN

IsTable(t) == t = [id \in Ids |-> t[id]] /\ \A id \in Ids : IsInode(t[id])

(* Parents before children, for the slots of deleted inodes too: so the    *)
(* order holds all the way up, without asking whether ancestors exist.     *)
Ordered ==
  \A id \in Ids : IF id = ROOT THEN inode[id].parent_id = NONE
                  ELSE inode[id].parent_id \in 0 .. id - 1

(* What the counter has not reached is not in use and no directory: so the *)
(* counter is ahead of every parent that a create can have, in use or not. *)
SparesInactive ==
  \A id \in Ids : inode[id].is_active \/ inode[id].type = INODE_DIR => id < next_inode_id

(* The block of a file, its size and the text in it. *)
Owns(id) ==
  LET ptr == inode[id].data_offset
      o == ptr - BLOCK_HEADER_SIZE
  IN /\ o \in DOMAIN chain /\ ~chain[o].is_free
     /\ inode[id].type = INODE_FILE
     /\ inode[id].data_size <= chain[o].size
     /\ ptr \in DOMAIN text /\ BytesFor(text[ptr]) = inode[id].data_size

FilesOwnBlocks ==
  /\ \A id \in Ids : HasData(id) => Owns(id)
  /\ \A i, j \in Ids : HasData(i) /\ HasData(j)
                       /\ inode[i].data_offset = inode[j].data_offset => i = j

(* What every operation keeps on any table, whatever slot the counter      *)
(* names and whatever the parents are.                                     *)
DataInv ==
  /\ IsTable(inode) /\ next_inode_id \in 0 .. MAX_INODES
  /\ Sound(chain) /\ DOMAIN text \subseteq Offsets
  /\ FilesOwnBlocks

(* The inductive invariant. *)
FsInv == DataInv /\ Ordered /\ SparesInactive /\ NothingLeaks

-----------------------------------------------------------------------------
(* What is left when the first e is removed from a sequence.               *)
LEMMA RemoveFirstShifts ==
  ASSUME NEW S, NEW s \in Seq(S), NEW e
  PROVE  LET r == RemoveFirst(s, e)
         IN /\ r \in Seq(S)
            /\ \/ r = s /\ \A i \in 1 .. Len(s) : s[i] # e
               \/ \E at \in 1 .. Len(s) :
                    /\ s[at] = e /\ Len(r) = Len(s) - 1
                    /\ \A i \in 1 .. Len(s) - 1 : r[i] = IF i < at THEN s[i] ELSE s[i + 1]
<1> DEFINE I == {i \in 1 .. Len(s) : s[i] = e}
           at == SelectInSeq(s, LAMBDA v : v = e)
<1>1. CASE ~ \E i \in 1 .. Len(s) : s[i] = e
  BY <1>1 DEF RemoveFirst
<1>2. CASE \E i \in 1 .. Len(s) : s[i] = e
  <2>1. I # {} /\ I \in SUBSET Nat
    BY <1>2
  <2>2. PICK m \in I : \A n \in I : m <= n
    BY <2>1, LeastNat
  <2>3. at \in I
    BY <2>1, <2>2 DEF SelectInSeq, Min
  <2>4. RemoveFirst(s, e) = SubSeq(s, 1, at - 1) \o SubSeq(s, at + 1, Len(s))
    BY <1>2 DEF RemoveFirst, RemoveAt
  <2> HIDE DEF at
  <2>5. at \in 1 .. Len(s) /\ Len(s) \in Nat
    BY <2>3
  <2>6. /\ SubSeq(s, 1, at - 1) \in Seq(S) /\ Len(SubSeq(s, 1, at - 1)) = at - 1
        /\ SubSeq(s, at + 1, Len(s)) \in Seq(S) /\ Len(SubSeq(s, at + 1, Len(s))) = Len(s) - at
    <3>1. \A i \in 1 .. at - 1 : s[i] \in S
      BY <2>5
    <3>2. \A i \in at + 1 .. Len(s) : s[i] \in S
      BY <2>5
    <3>3. SubSeq(s, 1, at - 1) \in Seq(S) /\ Len(SubSeq(s, 1, at - 1)) = at - 1
      <4>1. /\ SubSeq(s, 1, at - 1) \in Seq(S)
            /\ Len(SubSeq(s, 1, at - 1)) = IF 1 <= at - 1 THEN at - 1 - 1 + 1 ELSE 0
        BY <2>5, <3>1, at - 1 \in Int, 1 \in Int, SubSeqProperties
      <4> QED BY <2>5, <4>1
    <3>4. SubSeq(s, at + 1, Len(s)) \in Seq(S) /\ Len(SubSeq(s, at + 1, Len(s))) = Len(s) - at
      <4>1. /\ SubSeq(s, at + 1, Len(s)) \in Seq(S)
            /\ Len(SubSeq(s, at + 1, Len(s)))
                 = IF at + 1 <= Len(s) THEN Len(s) - (at + 1) + 1 ELSE 0
        BY <2>5, <3>2, at + 1 \in Int, Len(s) \in Int, SubSeqProperties
      <4> QED BY <2>5, <4>1
    <3> QED BY <3>3, <3>4
  <2> DEFINE low == SubSeq(s, 1, at - 1)
             high == SubSeq(s, at + 1, Len(s))
  <2>7. /\ \A i \in 1 .. at - 1 : low[i] = s[i]
        /\ \A i \in 1 .. Len(s) - at : high[i] = s[i + at]
    BY <2>5
  <2> HIDE DEF low, high
  <2>8. /\ low \o high \in Seq(S)
        /\ Len(low \o high) = (at - 1) + (Len(s) - at)
        /\ \A i \in 1 .. (at - 1) + (Len(s) - at) :
             (low \o high)[i] = IF i <= at - 1 THEN low[i] ELSE high[i - (at - 1)]
    <3>1. /\ low \in Seq(S) /\ Len(low) = at - 1
          /\ high \in Seq(S) /\ Len(high) = Len(s) - at
      BY <2>6 DEF low, high
    <3>2. /\ low \o high \in Seq(S) /\ Len(low \o high) = Len(low) + Len(high)
          /\ \A i \in 1 .. Len(low) + Len(high) :
               (low \o high)[i] = IF i <= Len(low) THEN low[i] ELSE high[i - Len(low)]
      BY <3>1, ConcatProperties
    <3> QED BY <3>1, <3>2
  <2> DEFINE r == low \o high
  <2>9. /\ r \in Seq(S) /\ Len(r) = Len(s) - 1
        /\ \A i \in 1 .. Len(s) - 1 : r[i] = IF i <= at - 1 THEN low[i] ELSE high[i - (at - 1)]
    <3>1. (at - 1) + (Len(s) - at) = Len(s) - 1
      BY <2>5
    <3> QED BY <2>8, <3>1
  <2>10. RemoveFirst(s, e) = r
    BY <2>4 DEF low, high
  <2>11. s[at] = e
    BY <2>3
  <2> HIDE DEF r
  <2>12. r \in Seq(S) /\ Len(r) = Len(s) - 1
    BY <2>9
  <2>13. ASSUME NEW i \in 1 .. Len(s) - 1
         PROVE  r[i] = IF i < at THEN s[i] ELSE s[i + 1]
    <3>1. CASE i < at
      <4>1. i <= at - 1 /\ i \in 1 .. at - 1
        BY <2>5, <3>1
      <4>2. r[i] = low[i]
        BY <2>9, <4>1
      <4> QED BY <2>7, <3>1, <4>1, <4>2
    <3>2. CASE ~(i < at)
      <4>1. ~(i <= at - 1) /\ i - (at - 1) \in 1 .. Len(s) - at
        BY <2>5, <3>2
      <4>2. r[i] = high[i - (at - 1)]
        BY <2>9, <4>1
      <4>3. high[i - (at - 1)] = s[(i - (at - 1)) + at]
        BY <2>7, <4>1
      <4>4. (i - (at - 1)) + at = i + 1
        BY <2>5
      <4> QED BY <3>2, <4>2, <4>3, <4>4
    <3> QED BY <3>1, <3>2
  <2>14. \E k \in 1 .. Len(s) :
           /\ s[k] = e /\ Len(r) = Len(s) - 1
           /\ \A i \in 1 .. Len(s) - 1 : r[i] = IF i < k THEN s[i] ELSE s[i + 1]
    BY <2>5, <2>11, <2>12, <2>13
  <2> QED BY <2>10, <2>12, <2>14
<1> QED BY <1>1, <1>2

(* The table as fs_init formats it satisfies the invariant.                *)
LEMMA InvInit == FsInit => FsInv
<1> SUFFICES ASSUME FsInit PROVE FsInv
  OBVIOUS
<1>1. /\ MAX_INODES \in Nat /\ MAX_INODES >= 6 /\ MAX_CHILDREN \in Nat /\ MAX_CHILDREN >= 4
      /\ \A k \in 0 .. 5 : k \in Ids
  BY TableAssumption DEF Ids
<1>2. Len(DefaultTree) = 6
  BY DEF DefaultTree
<1>3. ASSUME NEW k \in 0 .. 5
      PROVE  LET d == DefaultTree[k + 1]
             IN /\ d.children \in Seq(Ids) /\ Len(d.children) <= 4
                /\ d.parent_id \in Ids \cup {NONE}
                /\ IF k = 0 THEN d.parent_id = NONE ELSE d.parent_id \in 0 .. k - 1
  <2> DEFINE Small(q) == q \in Seq(Ids) /\ Len(q) <= 4
  <2>1. Small(<<>>) /\ Small(<<3>>) /\ Small(<<1, 2, 4, 5>>)
    BY <1>1
  <2> HIDE DEF Small
  <2>2. /\ Small(DefaultTree[1].children) /\ DefaultTree[1].parent_id = NONE
        /\ Small(DefaultTree[2].children) /\ DefaultTree[2].parent_id = 0
        /\ Small(DefaultTree[3].children) /\ DefaultTree[3].parent_id = 0
        /\ Small(DefaultTree[4].children) /\ DefaultTree[4].parent_id = 2
        /\ Small(DefaultTree[5].children) /\ DefaultTree[5].parent_id = 0
        /\ Small(DefaultTree[6].children) /\ DefaultTree[6].parent_id = 0
    BY <2>1 DEF DefaultTree
  <2>3. /\ Small(DefaultTree[k + 1].children)
        /\ DefaultTree[k + 1].parent_id \in {NONE, 0, 2}
        /\ IF k = 0 THEN DefaultTree[k + 1].parent_id = NONE
           ELSE DefaultTree[k + 1].parent_id \in 0 .. k - 1
    <3>1. k = 0 \/ k = 1 \/ k = 2 \/ k = 3 \/ k = 4 \/ k = 5
      OBVIOUS
    <3> QED BY <2>2, <3>1
  <2> QED BY <1>1, <2>3 DEF Small
<1>4. ASSUME NEW id \in Ids
      PROVE  /\ IsInode(inode[id])
             /\ IF id = ROOT THEN inode[id].parent_id = NONE
                ELSE inode[id].parent_id \in 0 .. id - 1
             /\ inode[id].is_active \/ inode[id].type = INODE_DIR => id < 6
             /\ ~HasData(id)
  <2>1. CASE id < 6
    <3>1. inode[id] = DefaultInode(DefaultTree[id + 1]) /\ id \in 0 .. 5
      BY <1>2, <2>1 DEF FsInit, FormattedTable, Ids
    <3> DEFINE d == DefaultTree[id + 1]
    <3>2. /\ d.children \in Seq(Ids) /\ Len(d.children) <= 4
          /\ d.parent_id \in Ids \cup {NONE}
          /\ IF id = 0 THEN d.parent_id = NONE ELSE d.parent_id \in 0 .. id - 1
      BY <1>3, <3>1
    <3> HIDE DEF d
    <3>3. inode[id] = [name |-> d.name, type |-> INODE_DIR, parent_id |-> d.parent_id,
                       children |-> d.children, data_offset |-> NONE, data_size |-> 0,
                       is_active |-> TRUE]
      BY <3>1 DEF d, DefaultInode
    <3>4. IsInode(inode[id])
      BY <1>1, <3>2, <3>3 DEF IsInode
    <3> QED BY <2>1, <3>2, <3>3, <3>4 DEF HasData, ROOT
  <2>2. CASE ~(id < 6)
    <3>1. inode[id] = ZeroInode
      BY <1>2, <2>2 DEF FsInit, FormattedTable
    <3> QED BY <1>1, <2>2, <3>1 DEF ZeroInode, IsInode, HasData, ROOT, INODE_FILE, INODE_DIR, Ids
  <2> QED BY <2>1, <2>2
<1>5. IsTable(inode) /\ Ordered
  BY <1>4 DEF IsTable, Ordered, FsInit, FormattedTable
<1>6. SparesInactive /\ next_inode_id \in 0 .. MAX_INODES
  BY <1>1, <1>2, <1>4 DEF SparesInactive, FsInit
<1>7. Sound(chain) /\ DOMAIN text = {}
  BY FreshSound DEF FsInit
<1>8. FilesOwnBlocks
  BY <1>4 DEF FilesOwnBlocks
<1>9. NothingLeaks
  BY DEF NothingLeaks, FsInit, FreshChain
<1> QED BY <1>5, <1>6, <1>7, <1>8, <1>9 DEF FsInv, DataInv
-----------------------------------------------------------------------------
(* What the operations write to the table, field by field. *)

SameRest(r, q) ==
  /\ r.name = q.name /\ r.type = q.type /\ r.parent_id = q.parent_id
  /\ r.data_offset = q.data_offset /\ r.data_size = q.data_size /\ r.is_active = q.is_active

(* Giving an inode another list of children touches nothing else of it.    *)
LEMMA RelistedInode ==
  ASSUME NEW r, IsInode(r), NEW list \in Seq(Ids), Len(list) <= MAX_CHILDREN
  PROVE  IsInode([r EXCEPT !.children = list]) /\ SameRest([r EXCEPT !.children = list], r)
BY DEF IsInode, SameRest

(* A record with the fields of an inode, of which only the name and those  *)
(* about its data may be new, is an inode again.                           *)
LEMMA RebuiltInode ==
  ASSUME NEW r, IsInode(r), NEW q, DOMAIN q = DOMAIN r, q = [f \in DOMAIN q |-> q[f]],
         q.type = r.type, q.parent_id = r.parent_id, q.children = r.children,
         q.data_offset \in Nat \cup {NONE}, q.data_size \in Nat, q.is_active \in BOOLEAN
  PROVE  IsInode(q)
<1>1. DOMAIN r = {"name", "type", "parent_id", "children", "data_offset", "data_size", "is_active"}
  BY DEF IsInode
<1>2. q = [name |-> q.name, type |-> q.type, parent_id |-> q.parent_id, children |-> q.children,
           data_offset |-> q.data_offset, data_size |-> q.data_size, is_active |-> q.is_active]
  BY <1>1
<1> QED BY <1>2 DEF IsInode

(* What fs_delete writes to the slot it retires.                           *)
LEMMA RetiredInode ==
  ASSUME NEW r, IsInode(r)
  PROVE  LET q == [r EXCEPT !.is_active = FALSE, !.name = <<>>,
                            !.data_offset = NONE, !.data_size = 0]
         IN IsInode(q) /\ q.parent_id = r.parent_id /\ ~q.is_active
<1> DEFINE q == [r EXCEPT !.is_active = FALSE, !.name = <<>>,
                          !.data_offset = NONE, !.data_size = 0]
<1>1. DOMAIN q = DOMAIN r /\ q = [f \in DOMAIN q |-> q[f]]
  OBVIOUS
<1>2. q.data_offset = NONE /\ q.data_size = 0
  BY DEF IsInode
<1>3. q.parent_id = r.parent_id /\ q.type = r.type /\ q.children = r.children
  BY DEF IsInode
<1>4. q.is_active = FALSE
  BY DEF IsInode
<1> HIDE DEF q
<1>5. q.is_active \in BOOLEAN
  BY <1>4
<1>6. IsInode(q)
  BY <1>1, <1>2, <1>3, <1>5, RebuiltInode
<1> QED BY <1>3, <1>4, <1>6 DEF q

(* Taking an entry out of a directory changes no slot but for its list.    *)
LEMMA UnlinkTable ==
  ASSUME NEW t, IsTable(t), NEW d \in Ids \cup {NONE}, NEW id
  PROVE  /\ IsTable(Unlink(t, d, id))
         /\ \A j \in Ids : SameRest(Unlink(t, d, id)[j], t[j])
<1> DEFINE list == RemoveFirst(t[d].children, id)
           r == [t[d] EXCEPT !.children = list]
<1>1. CASE d \in Ids
  <2>1. list \in Seq(Ids) /\ Len(list) <= Len(t[d].children)
    BY <1>1, RemoveFirstShifts DEF IsTable, IsInode
  <2>2. Len(list) <= MAX_CHILDREN
    BY <1>1, <2>1, TableAssumption DEF IsTable, IsInode
  <2>3. IsInode(r) /\ SameRest(r, t[d])
    BY <1>1, <2>1, <2>2, RelistedInode DEF IsTable
  <2>4. Unlink(t, d, id) = [t EXCEPT ![d] = r]
    BY <1>1 DEF Unlink
  <2> HIDE DEF r
  <2> QED BY <1>1, <2>3, <2>4 DEF IsTable, SameRest
<1>2. CASE d \notin Ids
  BY <1>2 DEF Unlink, IsTable, SameRest
<1> QED BY <1>1, <1>2

(* Adding an entry to a directory with room changes no slot but for its    *)
(* list.                                                                   *)
LEMMA LinkTable ==
  ASSUME NEW t, IsTable(t), NEW d \in Ids, NEW id \in Ids, Len(t[d].children) < MAX_CHILDREN
  PROVE  /\ IsTable(Link(t, d, id))
         /\ \A j \in Ids : SameRest(Link(t, d, id)[j], t[j])
<1> DEFINE list == Append(t[d].children, id)
           r == [t[d] EXCEPT !.children = list]
<1>1. t[d].children \in Seq(Ids)
  BY DEF IsTable, IsInode
<1>2. list \in Seq(Ids) /\ Len(list) <= MAX_CHILDREN
  BY <1>1, AppendProperties, TableAssumption
<1>3. IsInode(r) /\ SameRest(r, t[d])
  BY <1>2, RelistedInode DEF IsTable
<1>4. Link(t, d, id) = [t EXCEPT ![d] = r]
  BY DEF Link
<1> HIDE DEF r
<1> QED BY <1>3, <1>4 DEF IsTable, SameRest

-----------------------------------------------------------------------------
(* What freeing the block of an inode leaves: a sound chain in which the   *)
(* blocks of the other files are as they were and its own is not in use.   *)
LEMMA FreedBlocks ==
  ASSUME DataInv, NEW id \in Ids, inode[id].is_active
  PROVE  LET d == Freed(id)
         IN /\ Sound(d)
            /\ \A p \in DOMAIN chain :
                 ~chain[p].is_free /\ p + BLOCK_HEADER_SIZE # inode[id].data_offset
                   => p \in DOMAIN d /\ d[p] = chain[p]
            /\ \A p \in DOMAIN d : ~d[p].is_free =>
                 /\ p \in DOMAIN chain /\ ~chain[p].is_free
                 /\ p + BLOCK_HEADER_SIZE # inode[id].data_offset
<1> DEFINE ptr == inode[id].data_offset
           o == ptr - BLOCK_HEADER_SIZE
<1>1. /\ Sound(chain) /\ BLOCK_HEADER_SIZE \in Nat /\ ptr \in Int
      /\ \A p \in DOMAIN chain : p \in Int /\ p >= 0
  <2>1. Sound(chain) /\ ptr \in Nat \cup {NONE}
    BY DEF DataInv, IsTable, IsInode
  <2>2. \A p \in DOMAIN chain : p \in Int /\ p >= 0
    BY <2>1, SoundBlock
  <2> QED BY <2>1, <2>2, LayoutAssumption DEF NONE
<1>2. CASE ptr = NONE
  <2>1. Freed(id) = chain
    BY <1>2 DEF Freed
  <2> QED BY <1>1, <1>2, <2>1 DEF NONE
<1>3. CASE ptr # NONE
  <2>1. o \in DOMAIN chain /\ ~chain[o].is_free /\ o + BLOCK_HEADER_SIZE = ptr
    BY <1>1, <1>3 DEF DataInv, FilesOwnBlocks, HasData, Owns
  <2>2. Freed(id) = Release(chain, o)
    <3>1. Freed(id) = Dealloc(chain, o + BLOCK_HEADER_SIZE)
      BY <1>3, <2>1 DEF Freed
    <3> QED BY <1>1, <2>1, <3>1, DeallocOutcome
  <2>3. /\ Sound(Freed(id))
        /\ o \in DOMAIN Freed(id) /\ Freed(id)[o].is_free
        /\ DOMAIN Freed(id) \subseteq DOMAIN chain
        /\ \A p \in DOMAIN chain \ {o} : ~chain[p].is_free =>
             p \in DOMAIN Freed(id) /\ Freed(id)[p] = chain[p]
        /\ \A p \in DOMAIN Freed(id) \ {o} : Freed(id)[p] = chain[p]
    BY <1>1, <2>1, <2>2, ReleaseSound
  <2>4. \A p \in DOMAIN chain : p + BLOCK_HEADER_SIZE # ptr <=> p # o
    BY <1>1
  <2> HIDE DEF o, ptr
  <2> QED BY <2>3, <2>4 DEF ptr
<1> QED BY <1>2, <1>3

(* The blocks of all files but one survive that one being freed.           *)
LEMMA OthersKeep ==
  ASSUME DataInv, NEW id \in Ids, inode[id].is_active, NEW j \in Ids \ {id}, HasData(j)
  PROVE  LET ptr == inode[j].data_offset
             o == ptr - BLOCK_HEADER_SIZE
         IN /\ ptr # inode[id].data_offset /\ ptr \in Int
            /\ o \in DOMAIN Freed(id) /\ ~Freed(id)[o].is_free /\ Freed(id)[o] = chain[o]
            /\ inode[j].type = INODE_FILE /\ inode[j].data_size <= Freed(id)[o].size
            /\ ptr \in DOMAIN TextsBut(id) /\ TextsBut(id)[ptr] = text[ptr]
            /\ BytesFor(text[ptr]) = inode[j].data_size
<1> DEFINE ptr == inode[j].data_offset
           o == ptr - BLOCK_HEADER_SIZE
<1>1. ptr \in Int /\ BLOCK_HEADER_SIZE \in Nat
  BY LayoutAssumption DEF DataInv, IsTable, IsInode, NONE
<1>2. /\ o \in DOMAIN chain /\ ~chain[o].is_free /\ inode[j].type = INODE_FILE
      /\ inode[j].data_size <= chain[o].size
      /\ ptr \in DOMAIN text /\ BytesFor(text[ptr]) = inode[j].data_size
  BY DEF DataInv, FilesOwnBlocks, Owns
<1>3. ptr # inode[id].data_offset
  BY DEF DataInv, FilesOwnBlocks, HasData
<1>4. o + BLOCK_HEADER_SIZE # inode[id].data_offset
  BY <1>1, <1>3
<1>5. o \in DOMAIN Freed(id) /\ Freed(id)[o] = chain[o]
  BY <1>2, <1>4, FreedBlocks
<1> QED BY <1>1, <1>2, <1>3, <1>5 DEF TextsBut
-----------------------------------------------------------------------------
(* Each operation keeps the invariant. *)

(* fs_create fills the slot that the counter names; in other slots it can  *)
(* only change a list of children.                                         *)
LEMMA CreateSpares ==
  ASSUME DataInv, NEW d \in Ids, NEW name, NEW type \in {INODE_FILE, INODE_DIR},
         fs_create(d, name, type)
  PROVE  LET id == next_inode_id
         IN /\ IsTable(inode')
            /\ id \in Ids /\ id \in Nat
            /\ \A j \in Ids \ {id} : SameRest(inode'[j], inode[j])
            /\ inode'[id].parent_id = d
            /\ inode'[id].data_offset = NONE /\ inode'[id].data_size = 0
<1> DEFINE id == next_inode_id
           table == [inode EXCEPT ![id] = NewInode(name, type, d)]
<1>1. MAX_INODES \in Nat /\ id \in Nat /\ id \in Ids
  BY TableAssumption DEF DataInv, fs_create, Ids
<1>2. IsInode(NewInode(name, type, d))
  <2>1. <<>> \in Seq(Ids) /\ Len(<<>>) <= MAX_CHILDREN
    BY TableAssumption
  <2> QED BY <2>1 DEF IsInode, NewInode
<1>3. /\ IsTable(table)
      /\ \A j \in Ids \ {id} : table[j] = inode[j]
      /\ table[id] = NewInode(name, type, d)
  BY <1>1, <1>2 DEF DataInv, IsTable
<1>4. Len(table[d].children) < MAX_CHILDREN
  <2>1. CASE d = id
    <3>1. table[d].children = <<>>
      BY <1>3, <2>1 DEF NewInode
    <3> QED BY <3>1, TableAssumption
  <2>2. CASE d # id
    BY <1>3, <2>2, TableAssumption DEF fs_create, IsFull, DataInv, IsTable, IsInode
  <2> QED BY <2>1, <2>2
<1>5. inode' = Link(table, d, id)
  BY DEF fs_create, FreshSlot
<1> HIDE DEF table
<1>6. IsTable(inode') /\ \A j \in Ids : SameRest(inode'[j], table[j])
  BY <1>1, <1>3, <1>4, <1>5, LinkTable
<1> QED BY <1>1, <1>3, <1>6 DEF SameRest, NewInode

(* Wherever the counter stands, a create takes no block from a file other  *)
(* than the one whose slot it fills.                                       *)
LEMMA CreateKeepsData ==
  ASSUME DataInv, NEW d \in Ids, NEW name, NEW type \in {INODE_FILE, INODE_DIR},
         fs_create(d, name, type)
  PROVE  DataInv'
<1> DEFINE id == next_inode_id
<1>1. /\ IsTable(inode') /\ id \in Ids /\ id \in Nat
      /\ \A j \in Ids \ {id} : SameRest(inode'[j], inode[j])
      /\ inode'[id].data_offset = NONE
  BY CreateSpares
<1>2. next_inode_id' = id + 1 /\ chain' = chain /\ text' = text /\ id < MAX_INODES
  BY DEF fs_create
<1>3. next_inode_id' \in 0 .. MAX_INODES
  BY <1>1, <1>2, TableAssumption
<1> HIDE DEF id
<1>4. \A j \in Ids : HasData(j)' => j # id /\ HasData(j)
  BY <1>1 DEF HasData, SameRest
<1>5. FilesOwnBlocks'
  BY <1>1, <1>2, <1>4 DEF DataInv, FilesOwnBlocks, Owns, SameRest
<1> QED BY <1>1, <1>2, <1>3, <1>5 DEF DataInv

(* Where a create may go: a directory, in use or not.  The slot that the   *)
(* counter names is none.                                                  *)
LEMMA CreatesBelow ==
  ASSUME FsInv, NEW d \in Ids, NEW name, NEW type, fs_create(d, name, type)
  PROVE  inode[d].type = INODE_DIR /\ d < next_inode_id /\ d \in Ids \ {next_inode_id}
<1>1. inode[d].type = INODE_DIR /\ next_inode_id \in Nat
  BY TableAssumption DEF fs_create, FsInv, DataInv
<1>2. d < next_inode_id
  BY <1>1 DEF FsInv, SparesInactive
<1> QED BY <1>1, <1>2 DEF Ids

(* A create keeps the invariant, also in a directory that was deleted: the *)
(* new inode has no data and comes after its parent.                       *)
LEMMA CreateKeeps ==
  ASSUME FsInv, NEW d \in Ids,
         NEW name, NEW type \in {INODE_FILE, INODE_DIR}, fs_create(d, name, type)
  PROVE  FsInv'
<1> DEFINE id == next_inode_id
<1>1. /\ id \in Ids /\ id \in Nat /\ d < id /\ ~inode[id].is_active
      /\ \A j \in Ids \ {id} : SameRest(inode'[j], inode[j])
      /\ inode'[id].parent_id = d
  BY CreatesBelow, CreateSpares DEF FsInv, SparesInactive
<1>2. next_inode_id' = id + 1 /\ chain' = chain
  BY DEF fs_create
<1>3. Ordered'
  <2>1. id # ROOT /\ d \in 0 .. id - 1
    BY <1>1 DEF Ids, ROOT
  <2> QED BY <1>1, <2>1 DEF FsInv, Ordered, SameRest
<1>4. SparesInactive'
  BY <1>1, <1>2, TableAssumption DEF FsInv, SparesInactive, SameRest, Ids
<1> HIDE DEF id
<1>5. NothingLeaks'
  <2>1. \A j \in Ids : HasData(j) => HasData(j)' /\ inode'[j].data_offset = inode[j].data_offset
    BY <1>1 DEF HasData, SameRest
  <2> QED BY <1>2, <2>1 DEF FsInv, NothingLeaks
<1>6. DataInv'
  BY CreateKeepsData DEF FsInv
<1> QED BY <1>3, <1>4, <1>5, <1>6 DEF FsInv

(* fs_delete retires one slot; in other slots it can only change a list of *)
(* children.                                                               *)
LEMMA DeleteSpares ==
  ASSUME DataInv, NEW id \in Ids, fs_delete(id)
  PROVE  /\ IsTable(inode')
         /\ \A j \in Ids \ {id} : SameRest(inode'[j], inode[j])
         /\ inode'[id].parent_id = inode[id].parent_id /\ ~inode'[id].is_active
<1> DEFINE table == Unlink(inode, inode[id].parent_id, id)
<1>1. inode[id].is_active /\ inode[id].parent_id \in Ids \cup {NONE}
  BY DEF fs_delete, MayDelete, DataInv, IsTable, IsInode
<1>2. IsTable(table) /\ \A j \in Ids : SameRest(table[j], inode[j])
  BY <1>1, UnlinkTable DEF DataInv
<1>3. inode' = MarkDeleted(table, id)
  BY DEF fs_delete
<1> HIDE DEF table
<1>4. IsInode(inode'[id]) /\ inode'[id].parent_id = table[id].parent_id /\ ~inode'[id].is_active
  <2>1. inode'[id] = [table[id] EXCEPT !.is_active = FALSE, !.name = <<>>,
                                       !.data_offset = NONE, !.data_size = 0]
    BY <1>2, <1>3 DEF MarkDeleted, IsTable
  <2>2. IsInode(table[id])
    BY <1>2 DEF IsTable
  <2> QED BY <2>1, <2>2, RetiredInode
<1>5. \A j \in Ids \ {id} : inode'[j] = table[j]
  BY <1>2, <1>3 DEF MarkDeleted, IsTable
<1>6. inode' = [j \in Ids |-> inode'[j]]
  BY <1>2, <1>3 DEF MarkDeleted, IsTable
<1> QED BY <1>2, <1>4, <1>5, <1>6 DEF IsTable, SameRest

(* A delete frees a block that was nobody else's.                          *)
LEMMA DeleteKeepsData ==
  ASSUME DataInv, NEW id \in Ids, fs_delete(id)
  PROVE  DataInv' /\ (NothingLeaks => NothingLeaks')
<1>1. inode[id].is_active
  BY DEF fs_delete, MayDelete
<1>2. chain' = Freed(id) /\ text' = TextsBut(id) /\ next_inode_id' = next_inode_id
  BY DEF fs_delete
<1>3. /\ IsTable(inode')
      /\ \A j \in Ids \ {id} : SameRest(inode'[j], inode[j])
      /\ ~inode'[id].is_active
  BY DeleteSpares
<1>4. Sound(chain')
  BY <1>1, <1>2, FreedBlocks
<1>5. (DOMAIN text \subseteq Offsets)'
  BY <1>2 DEF DataInv, TextsBut
<1>6. \A j \in Ids : HasData(j)' <=> j # id /\ HasData(j)
  BY <1>3 DEF HasData, SameRest
<1>7. FilesOwnBlocks'
  <2>1. ASSUME NEW j \in Ids, HasData(j)' PROVE Owns(j)'
    <3>1. j \in Ids \ {id} /\ HasData(j)
      BY <1>6, <2>1
    <3> QED BY <1>1, <1>2, <1>3, <3>1, OthersKeep DEF Owns, SameRest
  <2> QED BY <1>3, <1>6, <2>1 DEF DataInv, FilesOwnBlocks, SameRest
<1>8. ASSUME NothingLeaks PROVE NothingLeaks'
  <2> SUFFICES ASSUME NEW o \in DOMAIN chain', ~chain'[o].is_free
               PROVE  \E j \in Ids : HasData(j)' /\ inode'[j].data_offset = o + BLOCK_HEADER_SIZE
    BY DEF NothingLeaks
  <2>1. /\ o \in DOMAIN chain /\ ~chain[o].is_free
        /\ o + BLOCK_HEADER_SIZE # inode[id].data_offset
    BY <1>1, <1>2, FreedBlocks
  <2>2. PICK j \in Ids : HasData(j) /\ inode[j].data_offset = o + BLOCK_HEADER_SIZE
    BY <1>8, <2>1 DEF NothingLeaks
  <2> QED BY <1>3, <1>6, <2>1, <2>2 DEF SameRest
<1> QED BY <1>2, <1>3, <1>4, <1>5, <1>7, <1>8 DEF DataInv

(* A delete keeps the invariant.                                           *)
LEMMA DeleteKeeps ==
  ASSUME FsInv, NEW id \in Ids, fs_delete(id)
  PROVE  FsInv'
<1>1. /\ \A j \in Ids \ {id} : SameRest(inode'[j], inode[j])
      /\ inode'[id].parent_id = inode[id].parent_id /\ ~inode'[id].is_active
  BY DeleteSpares DEF FsInv
<1>2. Ordered'
  BY <1>1 DEF FsInv, Ordered, SameRest
<1>3. SparesInactive'
  <2>1. inode[id].is_active /\ next_inode_id' = next_inode_id
    BY DEF fs_delete, MayDelete
  <2> QED BY <1>1, <2>1 DEF FsInv, SparesInactive, SameRest
<1> QED BY <1>2, <1>3, DeleteKeepsData DEF FsInv

(* A write leaves all files with blocks of their own, also when the        *)
(* request for the new block is refused after the old one was freed; and   *)
(* it changes nothing else of the table.                                   *)
LEMMA WriteKeepsData ==
  ASSUME DataInv, NEW id \in Ids, NEW data \in Contents, fs_write(id, data)
  PROVE  /\ DataInv' /\ (NothingLeaks => NothingLeaks')
         /\ \A j \in Ids : /\ inode'[j].parent_id = inode[j].parent_id
                           /\ (inode'[j].is_active <=> inode[j].is_active)
                           /\ inode'[j].type = inode[j].type
<1> DEFINE freed == Freed(id)
           size == BytesFor(data)
           got == Alloc(freed, size)
           stored == got.ptr # NONE
<1>1. inode[id].is_active /\ inode[id].type = INODE_FILE /\ next_inode_id' = next_inode_id
  BY DEF fs_write
<1>2. size \in Nat /\ size > 0
  BY TextAssumption DEF BytesFor
<1>3. /\ Sound(freed)
      /\ \A p \in DOMAIN freed : ~freed[p].is_free =>
           /\ p \in DOMAIN chain /\ ~chain[p].is_free
           /\ p + BLOCK_HEADER_SIZE # inode[id].data_offset
  BY <1>1, FreedBlocks
<1>4. /\ chain' = got.chain
      /\ text' = [ptr \in DOMAIN TextsBut(id) \cup (IF stored THEN {got.ptr} ELSE {}) |->
                    IF ptr = got.ptr THEN data ELSE text[ptr]]
      /\ inode' = [inode EXCEPT ![id].data_offset = got.ptr,
                                ![id].data_size = IF stored THEN size ELSE 0]
  BY DEF fs_write
<1> HIDE DEF freed, size, got
<1>5. \/ got.ptr = NONE /\ got.chain = freed
      \/ \E o \in DOMAIN freed :
           /\ got.ptr = o + BLOCK_HEADER_SIZE /\ got.ptr # NONE
           /\ freed[o].is_free /\ freed[o].size >= size
           /\ got.chain = Occupy(freed, o, size)
  BY <1>2, <1>3, AllocOutcome DEF got
<1>6. /\ stored => got.ptr \in Offsets
      /\ got.ptr \in Nat \cup {NONE}
  <2>1. \A o \in DOMAIN freed : o + BLOCK_HEADER_SIZE \in Offsets
    <3> SUFFICES ASSUME NEW o \in DOMAIN freed PROVE o + BLOCK_HEADER_SIZE \in Offsets
      OBVIOUS
    <3>1. /\ o \in Int /\ o >= DATA_REGION_OFFSET
          /\ BlockEnd(freed, o) \in Int /\ BlockEnd(freed, o) <= RAM_SIZE
          /\ o + BLOCK_HEADER_SIZE < BlockEnd(freed, o)
      BY <1>3, SoundBlock
    <3> QED BY <3>1, LayoutAssumption DEF Offsets
  <2>2. Offsets \subseteq Nat
    BY LayoutAssumption DEF Offsets
  <2> QED BY <1>5, <2>1, <2>2
<1>7. /\ IsTable(inode')
      /\ \A j \in Ids \ {id} : inode'[j] = inode[j]
      /\ inode'[id].data_offset = got.ptr /\ inode'[id].data_size = IF stored THEN size ELSE 0
      /\ inode'[id].parent_id = inode[id].parent_id
      /\ inode'[id].is_active /\ inode'[id].type = INODE_FILE
  <2>1. IsTable(inode) /\ IsInode(inode[id])
    BY DEF DataInv, IsTable
  <2>2. inode'[id] = [inode[id] EXCEPT !.data_offset = got.ptr,
                                       !.data_size = IF stored THEN size ELSE 0]
    BY <1>4, <2>1 DEF IsTable
  <2>3. /\ IsInode(inode'[id])
        /\ inode'[id].data_offset = got.ptr /\ inode'[id].data_size = IF stored THEN size ELSE 0
        /\ inode'[id].parent_id = inode[id].parent_id
        /\ inode'[id].is_active /\ inode'[id].type = INODE_FILE
    <3> DEFINE newsize == IF stored THEN size ELSE 0
    <3>1. newsize \in Nat
      BY <1>2
    <3> HIDE DEF newsize
    <3>2. inode'[id] = [inode[id] EXCEPT !.data_offset = got.ptr, !.data_size = newsize]
      BY <2>2 DEF newsize
    <3> DEFINE q == inode'[id]
    <3>3. DOMAIN q = DOMAIN inode[id] /\ q = [f \in DOMAIN q |-> q[f]]
      BY <3>2
    <3>4. q.data_offset = got.ptr /\ q.data_size = newsize
      BY <2>1, <3>2 DEF IsInode
    <3>5. q.parent_id = inode[id].parent_id /\ q.type = inode[id].type
          /\ q.children = inode[id].children
      BY <2>1, <3>2 DEF IsInode
    <3>6. q.is_active = inode[id].is_active
      BY <2>1, <3>2 DEF IsInode
    <3>7. q.is_active \in BOOLEAN
      BY <2>1, <3>6 DEF IsInode
    <3>8. IsInode(q)
      BY <1>6, <2>1, <3>1, <3>3, <3>4, <3>5, <3>7, RebuiltInode
    <3> QED BY <1>1, <3>4, <3>5, <3>6, <3>8 DEF newsize
  <2>4. \A j \in Ids \ {id} : inode'[j] = inode[j]
    BY <1>4, <2>1 DEF IsTable
  <2>5. inode' = [j \in Ids |-> inode'[j]]
    BY <1>4, <2>1 DEF IsTable
  <2> QED BY <2>1, <2>3, <2>4, <2>5 DEF IsTable
<1>8. \A j \in Ids : /\ inode'[j].parent_id = inode[j].parent_id
                     /\ (inode'[j].is_active <=> inode[j].is_active)
                     /\ inode'[j].type = inode[j].type
  BY <1>1, <1>7
<1>10. (DOMAIN text \subseteq Offsets)'
  BY <1>4, <1>6 DEF DataInv, TextsBut
<1>11. \A j \in Ids \ {id} : HasData(j)' <=> HasData(j)
  BY <1>7 DEF HasData
<1>12. CASE got.ptr = NONE /\ got.chain = freed
  <2>1. chain' = Freed(id) /\ ~HasData(id)'
    BY <1>4, <1>7, <1>12 DEF HasData, freed
  <2>2. \A ptr \in DOMAIN TextsBut(id) : ptr # NONE
    BY LayoutAssumption DEF DataInv, TextsBut, Offsets, NONE
  <2>3. text' = TextsBut(id)
    BY <1>4, <1>12, <2>2 DEF TextsBut
  <2>4. FilesOwnBlocks'
    <3>1. ASSUME NEW j \in Ids, HasData(j)' PROVE Owns(j)'
      <4>1. j \in Ids \ {id} /\ HasData(j)
        BY <1>11, <2>1, <3>1
      <4> QED BY <1>1, <1>7, <2>1, <2>3, <4>1, OthersKeep DEF Owns
    <3> QED BY <1>7, <1>11, <2>1, <3>1 DEF DataInv, FilesOwnBlocks
  <2>5. ASSUME NothingLeaks PROVE NothingLeaks'
    <3> SUFFICES ASSUME NEW o \in DOMAIN chain', ~chain'[o].is_free
                 PROVE  \E j \in Ids : HasData(j)' /\ inode'[j].data_offset = o + BLOCK_HEADER_SIZE
      BY DEF NothingLeaks
    <3>1. /\ o \in DOMAIN chain /\ ~chain[o].is_free
          /\ o + BLOCK_HEADER_SIZE # inode[id].data_offset
      BY <1>3, <2>1 DEF freed
    <3>2. PICK j \in Ids : HasData(j) /\ inode[j].data_offset = o + BLOCK_HEADER_SIZE
      BY <2>5, <3>1 DEF NothingLeaks
    <3> QED BY <1>7, <1>11, <3>1, <3>2
  <2>6. Sound(chain')
    BY <1>3, <1>4, <1>12
  <2> QED BY <1>1, <1>7, <1>8, <1>10, <2>4, <2>5, <2>6 DEF DataInv
<1>13. ASSUME NEW o \in DOMAIN freed,
              got.ptr = o + BLOCK_HEADER_SIZE, got.ptr # NONE,
              freed[o].is_free, freed[o].size >= size, got.chain = Occupy(freed, o, size)
       PROVE  DataInv' /\ (NothingLeaks => NothingLeaks')
  <2>1. /\ Sound(chain')
        /\ o \in DOMAIN chain' /\ ~chain'[o].is_free
        /\ size <= chain'[o].size
        /\ \A p \in DOMAIN freed \ {o} :
             /\ p \in DOMAIN chain'
             /\ chain'[p].size = freed[p].size /\ chain'[p].is_free = freed[p].is_free
        /\ \A p \in DOMAIN chain' \ DOMAIN freed : chain'[p].is_free
    BY <1>2, <1>3, <1>4, <1>13, OccupySound
  <2>2. o \in Int /\ BLOCK_HEADER_SIZE \in Nat /\ got.ptr - BLOCK_HEADER_SIZE = o
    BY <1>3, <1>13, SoundBlock, LayoutAssumption
  <2>3. got.ptr \in DOMAIN text' /\ text'[got.ptr] = data
    BY <1>4, <1>13
  <2>4. \A ptr \in DOMAIN TextsBut(id) : ptr # got.ptr => ptr \in DOMAIN text' /\ text'[ptr] = text[ptr]
    BY <1>4
  <2>5. Owns(id)'
    BY <1>7, <1>13, <2>1, <2>2, <2>3 DEF Owns, size
  <2>6. ASSUME NEW j \in Ids \ {id}, HasData(j)
        PROVE  Owns(j)' /\ inode[j].data_offset # got.ptr
    <3> DEFINE ptr == inode[j].data_offset
               p == ptr - BLOCK_HEADER_SIZE
    <3>1. /\ ptr \in Int
          /\ p \in DOMAIN freed /\ ~freed[p].is_free
          /\ inode[j].type = INODE_FILE /\ inode[j].data_size <= freed[p].size
          /\ ptr \in DOMAIN TextsBut(id) /\ BytesFor(text[ptr]) = inode[j].data_size
      BY <1>1, <2>6, OthersKeep DEF freed
    <3>2. p # o /\ ptr # got.ptr
      BY <1>13, <2>2, <3>1
    <3>3. /\ p \in DOMAIN chain' /\ ~chain'[p].is_free /\ chain'[p].size = freed[p].size
          /\ ptr \in DOMAIN text' /\ text'[ptr] = text[ptr]
      BY <2>1, <2>4, <3>1, <3>2
    <3> QED BY <1>7, <3>1, <3>2, <3>3 DEF Owns
  <2>7. FilesOwnBlocks'
    <3>1. \A j \in Ids : HasData(j)' => Owns(j)'
      BY <1>11, <2>5, <2>6
    <3>2. ASSUME NEW i \in Ids, NEW j \in Ids, HasData(i)', HasData(j)',
                 inode'[i].data_offset = inode'[j].data_offset
          PROVE  i = j
      BY <1>7, <1>11, <2>6, <3>2 DEF DataInv, FilesOwnBlocks
    <3> QED BY <3>1, <3>2 DEF FilesOwnBlocks
  <2>8. ASSUME NothingLeaks PROVE NothingLeaks'
    <3> SUFFICES ASSUME NEW p \in DOMAIN chain', ~chain'[p].is_free
                 PROVE  \E j \in Ids : HasData(j)' /\ inode'[j].data_offset = p + BLOCK_HEADER_SIZE
      BY DEF NothingLeaks
    <3>1. CASE p = o
      BY <1>7, <1>13, <3>1 DEF HasData
    <3>2. CASE p # o
      <4>1. /\ p \in DOMAIN chain /\ ~chain[p].is_free
            /\ p + BLOCK_HEADER_SIZE # inode[id].data_offset
        BY <1>3, <2>1, <3>2
      <4>2. PICK j \in Ids : HasData(j) /\ inode[j].data_offset = p + BLOCK_HEADER_SIZE
        BY <2>8, <4>1 DEF NothingLeaks
      <4> QED BY <1>7, <1>11, <4>1, <4>2
    <3> QED BY <3>1, <3>2
  <2> QED BY <1>1, <1>7, <1>10, <2>1, <2>7, <2>8 DEF DataInv
<1> QED BY <1>5, <1>8, <1>12, <1>13

(* A write keeps the invariant.                                            *)
LEMMA WriteKeeps ==
  ASSUME FsInv, NEW id \in Ids, NEW data \in Contents, fs_write(id, data)
  PROVE  FsInv'
<1>1. \A j \in Ids : /\ inode'[j].parent_id = inode[j].parent_id
                    /\ inode'[j].type = inode[j].type
                    /\ (inode'[j].is_active <=> inode[j].is_active)
  BY WriteKeepsData DEF FsInv
<1>2. Ordered'
  BY <1>1 DEF FsInv, Ordered
<1>3. SparesInactive'
  <2>1. next_inode_id' = next_inode_id
    BY DEF fs_write
  <2> QED BY <1>1, <2>1 DEF FsInv, SparesInactive
<1> QED BY <1>2, <1>3, WriteKeepsData DEF FsInv

(* Every step keeps the invariant.                                         *)
LEMMA InvNext == FsInv /\ [Next]_fsvars => FsInv'
<1> SUFFICES ASSUME FsInv, [Next]_fsvars PROVE FsInv'
  OBVIOUS
<1>1. ASSUME NEW d \in Ids, NEW name \in Names, NEW type \in {INODE_FILE, INODE_DIR},
             fs_create(d, name, type)
      PROVE  FsInv'
  BY <1>1, CreateKeeps
<1>2. ASSUME NEW id \in Active, fs_delete(id) PROVE FsInv'
  BY <1>2, DeleteKeeps DEF Active
<1>3. ASSUME NEW id \in Active, NEW data \in Contents, fs_write(id, data) PROVE FsInv'
  BY <1>3, WriteKeeps DEF Active
<1>4. CASE UNCHANGED fsvars
  BY <1>4 DEF fsvars, FsInv, DataInv, IsTable, Ordered, SparesInactive, FilesOwnBlocks, Owns, HasData,
              NothingLeaks
<1> QED BY <1>1, <1>2, <1>3, <1>4 DEF Next
-----------------------------------------------------------------------------
(* The walk of fs_get_path.  Up is a recursive function: that it satisfies *)
(* its equation at all is shown by ever longer functions that do.          *)
LEMMA UpSteps ==
  ASSUME NEW id
  PROVE  /\ Up(id)[0] = id
         /\ \A n \in 1 .. MAX_INODES : Up(id)[n] = ParentOf(Up(id)[n - 1])
<1> DEFINE Follows(g, k) == /\ g[0] = id
                            /\ \A n \in 1 .. k : g[n] = ParentOf(g[n - 1])
           Short == {k \in 0 .. MAX_INODES : ~ \E g : Follows(g, k)}
           Step(g) == [n \in 0 .. MAX_INODES |-> IF n = 0 THEN id ELSE ParentOf(g[n - 1])]
           Solves(g) == g = Step(g)
<1>1. MAX_INODES \in Nat
  BY TableAssumption
<1>2. Short = {}
  <2> SUFFICES ASSUME Short # {} PROVE FALSE
    OBVIOUS
  <2>1. Short \in SUBSET Nat
    BY <1>1
  <2>2. PICK k \in Short : \A m \in Short : k <= m
    BY <2>1, LeastNat
  <2>3. \E g : Follows(g, 0)
    <3>1. Follows([n \in {0} |-> id], 0)
      OBVIOUS
    <3> HIDE DEF Follows
    <3> QED BY <3>1
  <2> HIDE DEF Follows
  <2>4. k # 0 /\ k \in 0 .. MAX_INODES /\ k - 1 \notin Short
    BY <1>1, <2>1, <2>2, <2>3
  <2>5. PICK g : Follows(g, k - 1)
    BY <1>1, <2>4
  <2> USE DEF Follows
  <2> DEFINE h == [n \in 0 .. k |-> IF n = k THEN ParentOf(g[k - 1]) ELSE g[n]]
  <2>6. h[0] = id
    BY <2>4, <2>5
  <2>7. ASSUME NEW n \in 1 .. k PROVE h[n] = ParentOf(h[n - 1])
    <3>1. h[n - 1] = g[n - 1]
      BY <2>4, <2>7
    <3>2. CASE n = k
      BY <2>4, <3>1, <3>2
    <3>3. CASE n # k
      <4>1. n \in 1 .. k - 1 /\ h[n] = g[n]
        BY <2>4, <3>3
      <4> QED BY <2>5, <3>1, <4>1
    <3> QED BY <3>2, <3>3
  <2> HIDE DEF h
  <2>8. Follows(h, k)
    BY <2>6, <2>7
  <2> QED BY <2>2, <2>8
<1>3. PICK g : Follows(g, MAX_INODES)
  BY <1>1, <1>2
<1> DEFINE f == [n \in 0 .. MAX_INODES |-> g[n]]
<1>4. Solves(f)
  <2>1. ASSUME NEW n \in 0 .. MAX_INODES PROVE f[n] = Step(f)[n]
    <3>1. CASE n = 0
      BY <1>1, <1>3, <3>1
    <3>2. CASE n # 0
      <4>1. n \in 1 .. MAX_INODES /\ n - 1 \in 0 .. MAX_INODES
        BY <1>1, <3>2
      <4>2. f[n] = g[n] /\ f[n - 1] = g[n - 1] /\ g[n] = ParentOf(g[n - 1])
        BY <1>3, <4>1
      <4>3. Step(f)[n] = ParentOf(f[n - 1])
        BY <3>2
      <4> QED BY <4>2, <4>3
    <3> QED BY <3>1, <3>2
  <2> QED BY <2>1
<1>5. Up(id) = CHOOSE h : Solves(h)
  BY DEF Up
<1> HIDE DEF Solves, f
<1>6. Solves(Up(id))
  BY <1>4, <1>5
<1>7. Up(id) = Step(Up(id))
  BY <1>6 DEF Solves
<1>8. ASSUME NEW n \in 0 .. MAX_INODES
      PROVE  Up(id)[n] = IF n = 0 THEN id ELSE ParentOf(Up(id)[n - 1])
  BY <1>7
<1> QED BY <1>1, <1>8

(* Every round of the walk leads to a smaller inode, so it leaves the      *)
(* table before the stack is full.                                         *)
LEMMA WalkEnds ==
  ASSUME FsInv, NEW id \in Ids
  PROVE  PathFits(id)
<1> DEFINE at == Up(id)
           Bad == {n \in 0 .. MAX_INODES : at[n] \notin {NONE} \cup 0 .. id - n}
<1>1. MAX_INODES \in Nat /\ id \in Nat /\ id < MAX_INODES
  BY TableAssumption DEF Ids
<1>2. at[0] = id /\ \A n \in 1 .. MAX_INODES : at[n] = ParentOf(at[n - 1])
  BY UpSteps
<1> HIDE DEF at
<1>3. \A k \in Ids : ParentOf(k) \in {NONE} \cup 0 .. k - 1
  BY <1>1 DEF ParentOf, FsInv, Ordered
<1>4. ParentOf(NONE) = NONE
  BY DEF ParentOf, Ids, NONE
<1>5. Bad = {}
  <2> SUFFICES ASSUME Bad # {} PROVE FALSE
    OBVIOUS
  <2>1. Bad \in SUBSET Nat
    BY <1>1
  <2>2. PICK n \in Bad : \A m \in Bad : n <= m
    BY <2>1, LeastNat
  <2>3. n \in 1 .. MAX_INODES /\ n - 1 \notin Bad /\ n - 1 \in 0 .. MAX_INODES
    BY <1>1, <1>2, <2>1, <2>2
  <2>4. at[n - 1] \in {NONE} \cup 0 .. id - (n - 1)
    BY <2>3
  <2>5. at[n] = ParentOf(at[n - 1])
    BY <1>2, <2>3
  <2>6. at[n] \in {NONE} \cup 0 .. id - n
    <3>1. CASE at[n - 1] = NONE
      BY <1>4, <2>5, <3>1
    <3>2. CASE at[n - 1] # NONE
      <4>1. at[n - 1] \in 0 .. id - (n - 1) /\ at[n - 1] \in Ids
        BY <1>1, <2>3, <2>4, <3>2 DEF Ids
      <4>2. at[n] \in {NONE} \cup 0 .. at[n - 1] - 1
        BY <1>3, <2>5, <4>1
      <4> QED BY <1>1, <2>3, <4>1, <4>2
    <3> QED BY <3>1, <3>2
  <2> QED BY <2>2, <2>6
<1>6. at[MAX_INODES] \in {NONE} \cup 0 .. id - MAX_INODES
  BY <1>1, <1>5
<1>7. at[MAX_INODES] = NONE
  BY <1>1, <1>6
<1> QED BY <1>7 DEF PathFits, at, Ids, NONE

-----------------------------------------------------------------------------
(* No block is more than a header larger than the data in it: alloc splits *)
(* off a rest that can hold more than that.                                *)
Snug(t, c) ==
  \A id \in Ids : t[id].is_active /\ t[id].data_offset # NONE =>
    c[t[id].data_offset - BLOCK_HEADER_SIZE].size <= t[id].data_size + BLOCK_HEADER_SIZE

LEMMA CreateKeepsSnug ==
  ASSUME DataInv, Snug(inode, chain), NEW d \in Ids, NEW name,
         NEW type \in {INODE_FILE, INODE_DIR}, fs_create(d, name, type)
  PROVE  Snug(inode', chain')
<1>1. PICK id : id = next_inode_id
  OBVIOUS
<1>2. /\ \A j \in Ids \ {id} : SameRest(inode'[j], inode[j])
      /\ inode'[id].data_offset = NONE
  BY <1>1, CreateSpares
<1>3. chain' = chain
  BY DEF fs_create
<1> QED BY <1>2, <1>3 DEF Snug, SameRest

LEMMA DeleteKeepsSnug ==
  ASSUME DataInv, Snug(inode, chain), NEW id \in Ids, fs_delete(id)
  PROVE  Snug(inode', chain')
<1>1. /\ \A j \in Ids \ {id} : SameRest(inode'[j], inode[j])
      /\ ~inode'[id].is_active /\ inode[id].is_active /\ chain' = Freed(id)
  BY DeleteSpares DEF fs_delete, MayDelete
<1>2. ASSUME NEW j \in Ids \ {id}, HasData(j)
      PROVE  LET o == inode[j].data_offset - BLOCK_HEADER_SIZE IN chain'[o] = chain[o]
  BY <1>1, <1>2, OthersKeep
<1> QED BY <1>1, <1>2 DEF Snug, SameRest, HasData

LEMMA WriteKeepsSnug ==
  ASSUME DataInv, Snug(inode, chain), NEW id \in Ids, NEW data \in Contents, fs_write(id, data)
  PROVE  Snug(inode', chain')
<1> DEFINE freed == Freed(id)
           size == BytesFor(data)
           got == Alloc(freed, size)
           newsize == IF got.ptr # NONE THEN size ELSE 0
           Fits(j) == inode'[j].is_active /\ inode'[j].data_offset # NONE =>
             chain'[inode'[j].data_offset - BLOCK_HEADER_SIZE].size
               <= inode'[j].data_size + BLOCK_HEADER_SIZE
<1>1. /\ inode[id].is_active /\ inode = [j \in Ids |-> inode[j]]
      /\ IsInode(inode[id]) /\ chain' = got.chain
      /\ inode' = [inode EXCEPT ![id].data_offset = got.ptr, ![id].data_size = newsize]
  BY DEF fs_write, DataInv, IsTable
<1>2. size \in Nat /\ BLOCK_HEADER_SIZE \in Nat
  BY TextAssumption, LayoutAssumption DEF BytesFor
<1>3. Sound(freed)
  BY <1>1, FreedBlocks
<1>4. \/ got.ptr = NONE /\ got.chain = freed
      \/ \E o \in DOMAIN freed :
           /\ got.ptr = o + BLOCK_HEADER_SIZE /\ got.ptr # NONE
           /\ size > 0 /\ freed[o].is_free /\ freed[o].size >= size
           /\ got.chain = Occupy(freed, o, size)
  BY <1>2, <1>3, AllocOutcome
<1>5. got.ptr # NONE => newsize = size
  OBVIOUS
<1> HIDE DEF got, newsize, size
<1>6. /\ inode'[id].data_offset = got.ptr /\ inode'[id].data_size = newsize
      /\ \A j \in Ids \ {id} : inode'[j] = inode[j]
  <2>1. /\ inode'[id] = [inode[id] EXCEPT !.data_offset = got.ptr, !.data_size = newsize]
        /\ \A j \in Ids \ {id} : inode'[j] = inode[j]
    BY <1>1
  <2> QED BY <1>1, <2>1 DEF IsInode
<1>7. ASSUME NEW j \in Ids \ {id}, HasData(j)
      PROVE  LET o == inode[j].data_offset - BLOCK_HEADER_SIZE
             IN o \in DOMAIN freed /\ ~freed[o].is_free /\ freed[o].size = chain[o].size
  BY <1>1, <1>7, OthersKeep DEF freed
<1> HIDE DEF freed
<1>8. CASE got.ptr = NONE /\ got.chain = freed
  <2>1. Fits(id)
    BY <1>6, <1>8
  <2>2. \A j \in Ids \ {id} : Fits(j)
    BY <1>1, <1>6, <1>7, <1>8 DEF Snug, HasData
  <2> QED BY <2>1, <2>2 DEF Snug
<1>9. ASSUME NEW o \in DOMAIN freed,
             got.ptr = o + BLOCK_HEADER_SIZE, got.ptr # NONE, size > 0,
             freed[o].is_free, freed[o].size >= size, got.chain = Occupy(freed, o, size)
      PROVE  Snug(inode', chain')
  <2>1. /\ chain'[o].size <= size + BLOCK_HEADER_SIZE
        /\ \A p \in DOMAIN freed \ {o} : chain'[p].size = freed[p].size
    BY <1>1, <1>2, <1>3, <1>9, OccupySound
  <2>2. o \in Int
    BY <1>3, <1>9, SoundBlock
  <2>3. Fits(id)
    BY <1>2, <1>5, <1>6, <1>9, <2>1, <2>2
  <2>4. \A j \in Ids \ {id} : Fits(j)
    BY <1>6, <1>7, <1>9, <2>1 DEF Snug, HasData
  <2> QED BY <2>3, <2>4 DEF Snug
<1> QED BY <1>4, <1>8, <1>9

(* The bytes of files, added up in the order of the table, and the blocks  *)
(* in use, added up along the chain: to each file belongs one block, and   *)
(* to each block one file.                                                 *)
SizeOf(id) == IF HasData(id) THEN inode[id].data_size ELSE 0

FilesBelow(k) == {id \in Ids : HasData(id) /\ id < k}

BlocksOf(files) ==
  [o \in DOMAIN chain |->
     IF \E id \in files : inode[id].data_offset - BLOCK_HEADER_SIZE = o THEN chain[o].size ELSE 0]

(* A part of the blocks, their total, and the bytes of the files in them.  *)
Accounted(k, bytes) ==
  /\ bytes \in Nat /\ IsFiniteSet(FilesBelow(k))
  /\ \E sum \in [DOMAIN chain \cup {NONE} -> Nat] :
       /\ WeighsUp(sum, chain, BlocksOf(FilesBelow(k)))
       /\ bytes <= sum[DATA_REGION_OFFSET]
       /\ sum[DATA_REGION_OFFSET] <= bytes + BLOCK_HEADER_SIZE * Cardinality(FilesBelow(k))

LEMMA OneFileMore ==
  ASSUME FsInv, Snug(inode, chain), NEW k \in Ids, NEW bytes, Accounted(k, bytes)
  PROVE  Accounted(k + 1, bytes + SizeOf(k))
<1> DEFINE D == DOMAIN chain \cup {NONE}
           files == FilesBelow(k)
<1>0. Sound(chain) /\ k \in Nat /\ \A id \in Ids : id \in Nat
  BY TableAssumption DEF FsInv, DataInv, Ids
<1>1. \A id \in Ids : id < k + 1 <=> id < k \/ id = k
  BY <1>0
<1>2. ~(k < k)
  BY <1>0
<1>3. CASE ~HasData(k)
  <2>1. FilesBelow(k + 1) = files
    BY <1>1, <1>3 DEF FilesBelow
  <2>2. bytes + SizeOf(k) = bytes
    BY <1>3 DEF SizeOf, Accounted
  <2> QED BY <2>1, <2>2 DEF Accounted
<1>4. CASE HasData(k)
  <2> DEFINE at == inode[k].data_offset - BLOCK_HEADER_SIZE
             size == chain[at].size
             more == FilesBelow(k + 1)
  <2>1. more = files \cup {k} /\ k \notin files
    BY <1>1, <1>2, <1>4 DEF FilesBelow
  <2>2. /\ at \in DOMAIN chain /\ size \in Nat /\ inode[k].data_size \in Nat
        /\ inode[k].data_size <= size /\ size <= inode[k].data_size + BLOCK_HEADER_SIZE
        /\ SizeOf(k) = inode[k].data_size
    <3>1. at \in DOMAIN chain /\ inode[k].data_size <= size
      BY <1>4 DEF FsInv, DataInv, FilesOwnBlocks, Owns
    <3>2. size \in Nat /\ inode[k].data_size \in Nat
      BY <1>0, <3>1, SoundBlock DEF FsInv, DataInv, IsTable, IsInode
    <3> QED BY <1>4, <3>1, <3>2 DEF Snug, HasData, SizeOf
  <2>3. \A id \in files : inode[id].data_offset - BLOCK_HEADER_SIZE # at
    <3> SUFFICES ASSUME NEW id \in files PROVE inode[id].data_offset - BLOCK_HEADER_SIZE # at
      OBVIOUS
    <3>1. /\ id \in Ids /\ HasData(id) /\ id # k
          /\ inode[id].data_offset \in Int /\ inode[k].data_offset \in Int
      BY <1>0 DEF FilesBelow, FsInv, DataInv, IsTable, IsInode, NONE
    <3>2. inode[id].data_offset # inode[k].data_offset
      BY <1>4, <3>1 DEF FsInv, DataInv, FilesOwnBlocks
    <3> QED BY <3>1, <3>2, LayoutAssumption
  <2> HIDE DEF at, files, more
  <2>4. \A o \in DOMAIN chain : chain[o].size \in Nat
    BY <1>0, SoundBlock
  <2>5. BlocksOf(files) \in [DOMAIN chain -> Nat] /\ BlocksOf(more) \in [DOMAIN chain -> Nat]
    BY <2>4 DEF BlocksOf
  <2>6. /\ BlocksOf(more)[at] = BlocksOf(files)[at] + size
        /\ \A o \in DOMAIN chain \ {at} : BlocksOf(more)[o] = BlocksOf(files)[o]
    <3>1. BlocksOf(files)[at] = 0
      BY <2>2, <2>3 DEF BlocksOf
    <3>2. BlocksOf(more)[at] = size
      BY <2>1, <2>2 DEF BlocksOf, at
    <3>3. \A o \in DOMAIN chain \ {at} : BlocksOf(more)[o] = BlocksOf(files)[o]
      BY <2>1 DEF BlocksOf, at
    <3> QED BY <2>2, <3>1, <3>2, <3>3
  <2>7. PICK sum \in [D -> Nat] :
          /\ WeighsUp(sum, chain, BlocksOf(files))
          /\ bytes <= sum[DATA_REGION_OFFSET]
          /\ sum[DATA_REGION_OFFSET] <= bytes + BLOCK_HEADER_SIZE * Cardinality(files)
    BY DEF Accounted, files
  <2>8. PICK all \in [D -> Nat] : WeighsUp(all, chain, BlocksOf(more))
    BY <1>0, <2>5, WeightsAddUp
  <2>9. all[DATA_REGION_OFFSET] = sum[DATA_REGION_OFFSET] + size
    BY <1>0, <2>2, <2>5, <2>6, <2>7, <2>8, OneBlockMore
  <2>10. /\ IsFiniteSet(more) /\ Cardinality(files) \in Nat
         /\ Cardinality(more) = Cardinality(files) + 1
    <3>1. IsFiniteSet(files)
      BY DEF Accounted, files
    <3> QED BY <2>1, <3>1, FS_AddElement, FS_CardinalityType
  <2> DEFINE n == Cardinality(files)
  <2>11. /\ BLOCK_HEADER_SIZE \in Nat /\ bytes \in Nat /\ n \in Nat
         /\ sum[DATA_REGION_OFFSET] \in Nat
    BY <1>0, <2>10, LayoutAssumption DEF Accounted, Sound, Tiles
  <2>12. BLOCK_HEADER_SIZE * (n + 1) = BLOCK_HEADER_SIZE * n + BLOCK_HEADER_SIZE
    BY <2>11
  <2> DEFINE headers == BLOCK_HEADER_SIZE * n
  <2>13. headers \in Nat /\ BLOCK_HEADER_SIZE * Cardinality(more) = headers + BLOCK_HEADER_SIZE
         /\ sum[DATA_REGION_OFFSET] <= bytes + headers
    BY <2>7, <2>10, <2>11, <2>12
  <2> HIDE DEF headers, n, size
  <2>14. /\ bytes + SizeOf(k) \in Nat
         /\ bytes + SizeOf(k) <= all[DATA_REGION_OFFSET]
         /\ all[DATA_REGION_OFFSET] <= bytes + SizeOf(k) + (headers + BLOCK_HEADER_SIZE)
    BY <2>2, <2>7, <2>9, <2>11, <2>13
  <2> QED BY <2>8, <2>10, <2>13, <2>14 DEF Accounted, more
<1> QED BY <1>3, <1>4

LEMMA BytesOfFiles ==
  ASSUME FsInv, Snug(inode, chain), NEW bytes, bytes[0] = 0,
         \A k \in 1 .. MAX_INODES : bytes[k] = bytes[k - 1] + SizeOf(k - 1)
  PROVE  memory_used(chain) \in
           bytes[MAX_INODES] ..
             bytes[MAX_INODES] + BLOCK_HEADER_SIZE * Cardinality({id \in Ids : HasData(id)})
<1> DEFINE D == DOMAIN chain \cup {NONE}
           S == {k \in Nat : Accounted(k, bytes[k])}
<1>0. /\ Sound(chain) /\ MAX_INODES \in Nat /\ NONE \notin DOMAIN chain
      /\ DATA_REGION_OFFSET \in DOMAIN chain
      /\ \A o \in DOMAIN chain : chain[o].size \in Nat /\ o \in Int
      /\ \A id : id \in Ids <=> id \in Nat /\ id < MAX_INODES
  <2>1. Sound(chain)
    BY DEF FsInv, DataInv
  <2> QED BY <2>1, SoundBlock, LayoutAssumption, TableAssumption
          DEF Sound, Tiles, IsChain, Offsets, NONE, Ids
<1>1. 0 \in S
  <2>1. FilesBelow(0) = {}
    BY <1>0 DEF FilesBelow
  <2>2. IsFiniteSet({}) /\ Cardinality({}) = 0
    BY FS_EmptySet
  <2> DEFINE zeros == [o \in D |-> 0]
  <2>3. zeros \in [D -> Nat] /\ zeros[DATA_REGION_OFFSET] = 0 /\ zeros[NONE] = 0
        /\ \A o \in DOMAIN chain : zeros[o] = 0 /\ zeros[chain[o].next_offset] = 0
    BY <1>0, NextIsAbove
  <2>4. \A o \in DOMAIN chain : BlocksOf({})[o] = 0
    BY DEF BlocksOf
  <2> HIDE DEF zeros
  <2>5. WeighsUp(zeros, chain, BlocksOf({}))
    BY <2>3, <2>4 DEF WeighsUp
  <2>6. 0 <= 0 + BLOCK_HEADER_SIZE * 0
    BY LayoutAssumption
  <2>7. /\ 0 <= zeros[DATA_REGION_OFFSET]
        /\ zeros[DATA_REGION_OFFSET] <= 0 + BLOCK_HEADER_SIZE * Cardinality({})
    BY <2>2, <2>3, <2>6
  <2>8. Accounted(0, 0)
    BY <2>1, <2>2, <2>3, <2>5, <2>7 DEF Accounted
  <2> QED BY <2>8
<1>2. ASSUME NEW k \in 0 .. MAX_INODES - 1, k \in S PROVE k + 1 \in S
  <2>1. k \in Ids /\ k + 1 \in 1 .. MAX_INODES /\ (k + 1) - 1 = k
    BY <1>0
  <2>2. bytes[k + 1] = bytes[k] + SizeOf(k)
    BY <2>1
  <2> QED BY <1>2, <2>1, <2>2, OneFileMore
<1>3. Accounted(MAX_INODES, bytes[MAX_INODES])
  <2> HIDE DEF S
  <2>1. \A k \in 0 .. MAX_INODES : k \in S
    BY <1>0, <1>1, <1>2, InductUpTo
  <2>2. MAX_INODES \in S
    BY <1>0, <2>1
  <2> QED BY <2>2 DEF S
<1> DEFINE files == {id \in Ids : HasData(id)}
<1>4. FilesBelow(MAX_INODES) = files
  BY <1>0 DEF FilesBelow
<1>5. PICK sum \in [D -> Nat] :
        /\ WeighsUp(sum, chain, BlocksOf(files))
        /\ bytes[MAX_INODES] <= sum[DATA_REGION_OFFSET]
        /\ sum[DATA_REGION_OFFSET]
             <= bytes[MAX_INODES] + BLOCK_HEADER_SIZE * Cardinality(files)
  BY <1>3, <1>4 DEF Accounted
<1>6. PICK used \in [D -> Nat] :
        memory_used(chain) = used[DATA_REGION_OFFSET] /\ SumsUp(used, chain, FALSE)
  BY <1>0, SumSteps DEF memory_used
<1>7. BlocksOf(files) = CountedSizes(chain, FALSE)
  <2>1. ASSUME NEW o \in DOMAIN chain
        PROVE  (\E id \in files : inode[id].data_offset - BLOCK_HEADER_SIZE = o)
                 <=> chain[o].is_free = FALSE
    <3>1. ASSUME NEW id \in files, inode[id].data_offset - BLOCK_HEADER_SIZE = o
          PROVE  chain[o].is_free = FALSE
      <4>1. ~chain[o].is_free
        BY <3>1 DEF FsInv, DataInv, FilesOwnBlocks, Owns
      <4>2. chain[o].is_free \in BOOLEAN
        BY <1>0, SoundBlock
      <4> QED BY <4>1, <4>2
    <3>2. ASSUME chain[o].is_free = FALSE
          PROVE  \E id \in files : inode[id].data_offset - BLOCK_HEADER_SIZE = o
      <4>1. PICK id \in Ids : HasData(id) /\ inode[id].data_offset = o + BLOCK_HEADER_SIZE
        BY <3>2 DEF FsInv, NothingLeaks
      <4>2. inode[id].data_offset - BLOCK_HEADER_SIZE = o
        BY <1>0, <4>1, LayoutAssumption
      <4> QED BY <4>1, <4>2
    <3> QED BY <3>1, <3>2
  <2> HIDE DEF files
  <2> QED BY <2>1 DEF BlocksOf, CountedSizes
<1> HIDE DEF files
<1>8. used[DATA_REGION_OFFSET] = sum[DATA_REGION_OFFSET] + 0
  <2> DEFINE w == CountedSizes(chain, FALSE)
  <2>1. w \in [DOMAIN chain -> Nat]
    BY <1>0 DEF CountedSizes
  <2>2. WeighsUp(used, chain, w) /\ WeighsUp(sum, chain, w)
    BY <1>5, <1>6, <1>7 DEF SumsUp
  <2> HIDE DEF w
  <2>3. w[DATA_REGION_OFFSET] \in Nat
    BY <1>0, <2>1
  <2>4. w[DATA_REGION_OFFSET] = w[DATA_REGION_OFFSET] + 0 /\ 0 \in Nat
    BY <2>3
  <2> QED BY <1>0, <2>1, <2>2, <2>4, OneBlockMore
<1>9. memory_used(chain) = sum[DATA_REGION_OFFSET] /\ sum[DATA_REGION_OFFSET] \in Nat
  BY <1>0, <1>6, <1>8
<1>10. /\ bytes[MAX_INODES] \in Nat
       /\ BLOCK_HEADER_SIZE * Cardinality(files) \in Int
  <2>1. Cardinality(files) \in Nat
    BY <1>3, <1>4, FS_CardinalityType DEF Accounted
  <2> QED BY <1>3, <2>1, LayoutAssumption DEF Accounted
<1> QED BY <1>5, <1>9, <1>10 DEF files

-----------------------------------------------------------------------------
(* What is in range by the invariant of the data.                          *)
LEMMA DataTypes == DataInv => TypeOK
<1> SUFFICES ASSUME DataInv PROVE TypeOK
  OBVIOUS
<1>1. ASSUME NEW id \in Ids PROVE ToSet(inode[id].children) \subseteq Ids
  <2>1. inode[id].children \in Seq(Ids)
    BY DEF DataInv, IsTable, IsInode
  <2> QED BY <2>1 DEF ToSet
<1> QED BY <1>1 DEF DataInv, IsTable, IsInode, Sound, TypeOK

(* Every slot, the counter and the chain keep their types, whatever is     *)
(* created, deleted and written.                                           *)
THEOREM FsTyping == Spec => []TypeOK
<1>1. FsInv => TypeOK
  BY DataTypes DEF FsInv
<1> QED BY <1>1, InvInit, InvNext, PTL DEF Spec

(* No two files share a block, none points at a freed or too small one,    *)
(* and each block holds the text that its file says it holds.              *)
THEOREM Exclusive == Spec => []DataBlocksExclusive
<1>1. FsInv => DataBlocksExclusive
  BY DEF FsInv, DataInv, FilesOwnBlocks, Owns, HasData, Read, ReadFrom, DataBlocksExclusive
<1> QED BY <1>1, InvInit, InvNext, PTL DEF Spec

(* No history of creates, writes, refused writes and deletes leaks memory. *)
THEOREM LeakFree == Spec => []NothingLeaks
<1>1. FsInv => NothingLeaks
  BY DEF FsInv
<1> QED BY <1>1, InvInit, InvNext, PTL DEF Spec

(* The table stays acyclic, and fs_get_path ends within its stack.         *)
THEOREM PathsEnd == Spec => []ParentsComeFirst
<1>1. FsInv => ParentsComeFirst
  BY WalkEnds DEF FsInv, Ordered, ParentsComeFirst
<1> QED BY <1>1, InvInit, InvNext, PTL DEF Spec

(* The slot of a deleted inode is never used again.                        *)
THEOREM NoReuse == Spec => DeletedStaysDeleted
<1> DEFINE Stays == \A id \in Ids : id < next_inode_id /\ ~inode[id].is_active
                                     => ~inode'[id].is_active
<1>1. FsInv /\ [Next]_fsvars => [Stays]_fsvars
  <2> SUFFICES ASSUME FsInv, Next, NEW id \in Ids, id < next_inode_id, ~inode[id].is_active
               PROVE  ~inode'[id].is_active
    OBVIOUS
  <2>1. ASSUME NEW d \in Ids, NEW name \in Names, NEW type \in {INODE_FILE, INODE_DIR},
               fs_create(d, name, type)
        PROVE  ~inode'[id].is_active
    BY <2>1, CreateSpares DEF SameRest, FsInv
  <2>2. ASSUME NEW other \in Active, fs_delete(other) PROVE ~inode'[id].is_active
    BY <2>2, DeleteSpares DEF Active, SameRest, FsInv
  <2>3. ASSUME NEW other \in Active, NEW data \in Contents, fs_write(other, data)
        PROVE  ~inode'[id].is_active
    <3>1. id # other /\ inode'[id] = inode[id]
      BY <2>3 DEF Active, fs_write, FsInv, DataInv, IsTable
    <3> QED BY <3>1
  <2> QED BY <2>1, <2>2, <2>3 DEF Next
<1> QED BY <1>1, InvInit, InvNext, PTL DEF Spec, DeletedStaysDeleted
=============================================================================
