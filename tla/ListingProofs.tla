--------------------------- MODULE ListingProofs ---------------------------
(***************************************************************************)
(* The lists of children and the parents' fields of the inode table say    *)
(* the same, for every size of the table: what ls shows is what is there,  *)
(* and the table is the tree of TreeSpec.                                  *)
(***************************************************************************)
EXTENDS FileSystemProofs

(* A list without repetitions of the elements of K. *)
Enumerates(list, K) ==
  /\ ToSet(list) = K
  /\ \A i, j \in 1 .. Len(list) : list[i] = list[j] => i = j

ChildrenOf(d) == {id \in Active : inode[id].parent_id = d}

ListsAgree == \A d \in Active : Enumerates(inode[d].children, ChildrenOf(d))

(* Active inodes below the same active directory have different names. *)
NamesDiffer ==
  \A i, j \in Active \ {ROOT} :
    /\ inode[i].parent_id = inode[j].parent_id /\ inode[i].parent_id \in Active
    /\ inode[i].name = inode[j].name
    => i = j

-----------------------------------------------------------------------------
(* Adding a new element to such a list, and taking one out of it.          *)
LEMMA EnumeratesMore ==
  ASSUME NEW S, NEW s \in Seq(S), NEW K, Enumerates(s, K), NEW e \in S, e \notin K
  PROVE  Enumerates(Append(s, e), K \cup {e})
<1> DEFINE r == Append(s, e)
<1>1. /\ Len(s) \in Nat /\ DOMAIN s = 1 .. Len(s)
      /\ Len(r) = Len(s) + 1 /\ DOMAIN r = 1 .. Len(s) + 1
      /\ \A i \in 1 .. Len(s) : r[i] = s[i]
      /\ r[Len(s) + 1] = e
  OBVIOUS
<1>2. \A k : k \in K <=> \E i \in 1 .. Len(s) : s[i] = k
  BY <1>1 DEF Enumerates, ToSet
<1> HIDE DEF r
<1>3. ToSet(r) = K \cup {e}
  <2>1. ASSUME NEW k \in ToSet(r) PROVE k \in K \cup {e}
    <3>1. PICK i \in 1 .. Len(s) + 1 : r[i] = k
      BY <1>1 DEF ToSet
    <3> QED BY <1>1, <1>2, <3>1
  <2>2. ASSUME NEW k \in K \cup {e} PROVE \E i \in 1 .. Len(s) + 1 : r[i] = k
    <3>1. CASE k = e
      BY <1>1, <3>1
    <3>2. CASE k \in K
      BY <1>1, <1>2, <3>2
    <3> QED BY <3>1, <3>2
  <2> QED BY <1>1, <2>1, <2>2 DEF ToSet
<1>4. ASSUME NEW i \in 1 .. Len(r), NEW j \in 1 .. Len(r), r[i] = r[j]
      PROVE  i = j
  BY <1>1, <1>2, <1>4 DEF Enumerates
<1> QED BY <1>3, <1>4 DEF Enumerates, r

LEMMA EnumeratesLess ==
  ASSUME NEW S, NEW s \in Seq(S), NEW K, Enumerates(s, K), NEW e
  PROVE  Enumerates(RemoveFirst(s, e), K \ {e})
<1> DEFINE r == RemoveFirst(s, e)
<1>1. Len(s) \in Nat /\ DOMAIN s = 1 .. Len(s) /\ r \in Seq(S)
  BY RemoveFirstShifts
<1>2. \A k : k \in K <=> \E i \in 1 .. Len(s) : s[i] = k
  BY <1>1 DEF Enumerates, ToSet
<1>3. \/ r = s /\ \A i \in 1 .. Len(s) : s[i] # e
      \/ \E at \in 1 .. Len(s) :
           /\ s[at] = e /\ Len(r) = Len(s) - 1
           /\ \A i \in 1 .. Len(s) - 1 : r[i] = IF i < at THEN s[i] ELSE s[i + 1]
  BY RemoveFirstShifts
<1> HIDE DEF r
<1>4. CASE r = s /\ \A i \in 1 .. Len(s) : s[i] # e
  <2>1. K \ {e} = K
    BY <1>2, <1>4
  <2> QED BY <1>4, <2>1 DEF r
<1>5. ASSUME NEW at \in 1 .. Len(s), s[at] = e, Len(r) = Len(s) - 1,
             \A i \in 1 .. Len(s) - 1 : r[i] = IF i < at THEN s[i] ELSE s[i + 1]
      PROVE  Enumerates(r, K \ {e})
  <2>1. DOMAIN r = 1 .. Len(s) - 1
    BY <1>1, <1>5
  <2>2. \A i, j \in 1 .. Len(s) : s[i] = s[j] => i = j
    BY DEF Enumerates
  <2>3. \A k : k \in ToSet(r) <=> \E i \in 1 .. Len(s) - 1 : r[i] = k
    BY <2>1 DEF ToSet
  <2>4. ASSUME NEW k \in ToSet(r) PROVE k \in K \ {e}
    <3>1. PICK i \in 1 .. Len(s) - 1 : r[i] = k
      BY <2>3
    <3>2. PICK j \in 1 .. Len(s) : s[j] = k /\ j # at
      BY <1>1, <1>5, <3>1
    <3> QED BY <1>2, <1>5, <2>2, <3>2
  <2>5. ASSUME NEW k \in K \ {e} PROVE k \in ToSet(r)
    <3>1. PICK j \in 1 .. Len(s) : s[j] = k
      BY <1>2
    <3>2. j # at
      BY <1>5, <3>1
    <3>3. CASE j < at
      <4>1. j \in 1 .. Len(s) - 1 /\ r[j] = k
        BY <1>1, <1>5, <3>1, <3>3
      <4> QED BY <2>3, <4>1
    <3>4. CASE ~(j < at)
      <4>1. j - 1 \in 1 .. Len(s) - 1 /\ ~(j - 1 < at) /\ (j - 1) + 1 = j
        BY <1>1, <3>2, <3>4
      <4>2. r[j - 1] = s[(j - 1) + 1]
        BY <1>5, <4>1
      <4>3. r[j - 1] = k
        BY <3>1, <4>1, <4>2
      <4> QED BY <2>3, <4>1, <4>3
    <3> QED BY <3>3, <3>4
  <2>6. ASSUME NEW i \in 1 .. Len(s) - 1, NEW j \in 1 .. Len(s) - 1, r[i] = r[j]
        PROVE  i = j
    <3> DEFINE from(k) == IF k < at THEN k ELSE k + 1
    <3>1. /\ from(i) \in 1 .. Len(s) /\ from(j) \in 1 .. Len(s)
          /\ r[i] = s[from(i)] /\ r[j] = s[from(j)]
      BY <1>1, <1>5
    <3>2. from(i) = from(j)
      BY <2>2, <2>6, <3>1
    <3> QED BY <3>2
  <2> QED BY <1>5, <2>4, <2>5, <2>6 DEF Enumerates
<1> QED BY <1>3, <1>4, <1>5 DEF r
-----------------------------------------------------------------------------
(* fs_find_child overlooks no active child of that name.                   *)
LEMMA FindsWhatIsThere ==
  ASSUME IsTable(inode), NEW d \in Ids, inode[d].type = INODE_DIR, NEW name,
         FindChild(d, name) = NONE, NEW i \in 1 .. Len(inode[d].children)
  PROVE  ~IsNamed(inode[d].children[i], name)
<1> DEFINE children == inode[d].children
           I == {k \in 1 .. Len(children) : IsNamed(children[k], name)}
           at == SelectInSeq(children, LAMBDA id : IsNamed(id, name))
<1> SUFFICES ASSUME I # {} PROVE FALSE
  OBVIOUS
<1>1. children \in Seq(Ids) /\ I \in SUBSET Nat
  BY DEF IsTable, IsInode
<1>2. PICK m \in I : \A n \in I : m <= n
  BY <1>1, LeastNat
<1>3. at \in I
  BY <1>1, <1>2 DEF SelectInSeq, Min
<1>4. at # 0 /\ children[at] \in Ids
  BY <1>1, <1>3
<1>5. FindChild(d, name) = IF at = 0 THEN NONE ELSE children[at]
  BY DEF FindChild
<1> HIDE DEF at, children
<1> QED BY <1>4, <1>5 DEF Ids, NONE

(* What fs_find_child finds is an active inode of that name in the list.   *)
LEMMA FoundIsThere ==
  ASSUME IsTable(inode), NEW d \in Ids, NEW name
  PROVE  LET id == FindChild(d, name)
         IN id # NONE => IsNamed(id, name) /\ id \in ToSet(inode[d].children)
<1> DEFINE children == inode[d].children
           Found == {i \in 1 .. Len(children) : IsNamed(children[i], name)}
           at == SelectInSeq(children, LAMBDA id : IsNamed(id, name))
<1>1. children \in Seq(Ids)
  BY DEF IsTable, IsInode
<1>2. CASE Found = {}
  <2>1. at = 0
    BY <1>2 DEF SelectInSeq
  <2> QED BY <2>1 DEF FindChild
<1>3. CASE Found # {}
  <2>1. Found \in SUBSET Nat
    BY <1>1
  <2>2. PICK m \in Found : \A n \in Found : m <= n
    BY <1>3, <2>1, LeastNat
  <2>3. at \in Found
    BY <1>3, <2>1, <2>2 DEF SelectInSeq, Min
  <2> HIDE DEF at
  <2>4. at # 0 /\ IsNamed(children[at], name) /\ children[at] \in ToSet(children)
    BY <1>1, <2>3 DEF ToSet
  <2>5. FindChild(d, name) \in {NONE, children[at]}
    BY <2>4 DEF FindChild, at
  <2> QED BY <2>4, <2>5
<1> QED BY <1>2, <1>3

(* And a child whose name no other active child has is what is found.      *)
LEMMA FindsTheChild ==
  ASSUME IsTable(inode), NEW d \in Ids, inode[d].type = INODE_DIR,
         NEW i \in ToSet(inode[d].children), inode[i].is_active,
         \A j \in ToSet(inode[d].children) :
           inode[j].is_active /\ inode[j].name = inode[i].name => j = i
  PROVE  FindChild(d, inode[i].name) = i
<1>1. inode[d].children \in Seq(Ids)
  BY DEF IsTable, IsInode
<1>2. PICK k \in 1 .. Len(inode[d].children) : inode[d].children[k] = i
  BY <1>1 DEF ToSet
<1>3. IsNamed(inode[d].children[k], inode[i].name)
  BY <1>1, <1>2 DEF IsNamed
<1>4. FindChild(d, inode[i].name) # NONE
  BY <1>3, FindsWhatIsThere
<1> QED BY <1>4, FoundIsThere DEF IsNamed

(* The default directories.                                                *)
LEMMA DefaultListings == FsInit => ListsAgree /\ NamesDiffer
<1> SUFFICES ASSUME FsInit PROVE ListsAgree /\ NamesDiffer
  OBVIOUS
<1>1. \A id : id \in Ids <=> id \in Nat /\ id < MAX_INODES
  BY TableAssumption DEF Ids
<1>2. Len(DefaultTree) = 6
  BY DEF DefaultTree
<1>3. ASSUME NEW id \in Ids
      PROVE  inode[id] = IF id < 6 THEN DefaultInode(DefaultTree[id + 1]) ELSE ZeroInode
  BY <1>2, <1>3 DEF FsInit, FormattedTable
<1>4. ASSUME NEW id \in Ids, id < 6
      PROVE  /\ inode[id].name = DefaultTree[id + 1].name
             /\ inode[id].parent_id = DefaultTree[id + 1].parent_id
             /\ inode[id].children = DefaultTree[id + 1].children
             /\ inode[id].is_active
  <2> DEFINE d == DefaultTree[id + 1]
  <2>1. inode[id] = DefaultInode(d)
    BY <1>3, <1>4
  <2> HIDE DEF d
  <2>2. inode[id] = [name |-> d.name, type |-> INODE_DIR, parent_id |-> d.parent_id,
                     children |-> d.children, data_offset |-> NONE, data_size |-> 0,
                     is_active |-> TRUE]
    BY <2>1 DEF DefaultInode
  <2>3. /\ inode[id].name = d.name /\ inode[id].parent_id = d.parent_id
        /\ inode[id].children = d.children /\ inode[id].is_active
    BY <2>2
  <2> QED BY <2>3 DEF d
<1>5. Active = 0 .. 5
  <2>1. ASSUME NEW id \in Ids, inode[id].is_active PROVE id < 6
    <3>1. SUFFICES ASSUME ~(id < 6) PROVE FALSE
      OBVIOUS
    <3>2. inode[id] = ZeroInode
      BY <1>3, <3>1
    <3>3. ~inode[id].is_active
      BY <3>2 DEF ZeroInode
    <3> QED BY <2>1, <3>3
  <2>2. \A id \in 0 .. 5 : id \in Ids /\ id < 6
    BY <1>1, TableAssumption
  <2>3. \A id \in Ids : id < 6 => id \in 0 .. 5
    BY <1>1
  <2> QED BY <1>4, <2>1, <2>2, <2>3 DEF Active
<1>6. /\ inode[0].parent_id = NONE /\ inode[0].children = <<1, 2, 4, 5>>
      /\ inode[1].parent_id = 0 /\ inode[1].children = <<>> /\ inode[1].name = <<"bin">>
      /\ inode[2].parent_id = 0 /\ inode[2].children = <<3>> /\ inode[2].name = <<"home">>
      /\ inode[3].parent_id = 2 /\ inode[3].children = <<>>
      /\ inode[4].parent_id = 0 /\ inode[4].children = <<>> /\ inode[4].name = <<"tmp">>
      /\ inode[5].parent_id = 0 /\ inode[5].children = <<>> /\ inode[5].name = <<"sys">>
  <2>1. \A id \in 0 .. 5 : id \in Ids /\ id < 6
    BY <1>1, TableAssumption
  <2>2. \A id \in 0 .. 5 : /\ inode[id].name = DefaultTree[id + 1].name
                           /\ inode[id].parent_id = DefaultTree[id + 1].parent_id
                           /\ inode[id].children = DefaultTree[id + 1].children
    BY <1>4, <2>1
  <2>3. /\ inode[0].parent_id = DefaultTree[1].parent_id
        /\ inode[0].children = DefaultTree[1].children
        /\ inode[1].parent_id = DefaultTree[2].parent_id
        /\ inode[1].children = DefaultTree[2].children
        /\ inode[2].parent_id = DefaultTree[3].parent_id
        /\ inode[2].children = DefaultTree[3].children
        /\ inode[3].parent_id = DefaultTree[4].parent_id
        /\ inode[3].children = DefaultTree[4].children
        /\ inode[4].parent_id = DefaultTree[5].parent_id
        /\ inode[4].children = DefaultTree[5].children
        /\ inode[5].parent_id = DefaultTree[6].parent_id
        /\ inode[5].children = DefaultTree[6].children
        /\ inode[1].name = DefaultTree[2].name
        /\ inode[2].name = DefaultTree[3].name
        /\ inode[4].name = DefaultTree[5].name
        /\ inode[5].name = DefaultTree[6].name
    BY <2>2
  <2>4. /\ DefaultTree[1].parent_id = NONE /\ DefaultTree[1].children = <<1, 2, 4, 5>>
        /\ DefaultTree[2].parent_id = 0 /\ DefaultTree[2].children = <<>>
        /\ DefaultTree[3].parent_id = 0 /\ DefaultTree[3].children = <<3>>
        /\ DefaultTree[4].parent_id = 2 /\ DefaultTree[4].children = <<>>
        /\ DefaultTree[5].parent_id = 0 /\ DefaultTree[5].children = <<>>
        /\ DefaultTree[6].parent_id = 0 /\ DefaultTree[6].children = <<>>
        /\ DefaultTree[2].name = <<"bin">> /\ DefaultTree[3].name = <<"home">>
        /\ DefaultTree[5].name = <<"tmp">> /\ DefaultTree[6].name = <<"sys">>
    BY DEF DefaultTree
  <2> QED BY <2>3, <2>4
<1>7. ListsAgree
  <2>1. /\ ChildrenOf(0) = {1, 2, 4, 5} /\ ChildrenOf(2) = {3}
        /\ ChildrenOf(1) = {} /\ ChildrenOf(3) = {} /\ ChildrenOf(4) = {} /\ ChildrenOf(5) = {}
    <3>1. \A d, id : id \in ChildrenOf(d) <=> id \in 0 .. 5 /\ inode[id].parent_id = d
      BY <1>5 DEF ChildrenOf
    <3>2. \A id \in 0 .. 5 : id = 0 \/ id = 1 \/ id = 2 \/ id = 3 \/ id = 4 \/ id = 5
      OBVIOUS
    <3>3. \A k \in 0 .. 5 : \A id :
            id \in ChildrenOf(k) <=> id \in {c \in 0 .. 5 : inode[c].parent_id = k}
      BY <3>1
    <3>4. /\ {c \in 0 .. 5 : inode[c].parent_id = 0} = {1, 2, 4, 5}
          /\ {c \in 0 .. 5 : inode[c].parent_id = 2} = {3}
          /\ \A k \in {1, 3, 4, 5} : {c \in 0 .. 5 : inode[c].parent_id = k} = {}
      BY <1>6, <3>2 DEF NONE
    <3> QED BY <3>3, <3>4
  <2>2. /\ Enumerates(<<1, 2, 4, 5>>, {1, 2, 4, 5}) /\ Enumerates(<<3>>, {3})
        /\ Enumerates(<<>>, {})
    BY DEF Enumerates, ToSet
  <2>3. \A d \in 0 .. 5 : d = 0 \/ d = 1 \/ d = 2 \/ d = 3 \/ d = 4 \/ d = 5
    OBVIOUS
  <2> QED BY <1>5, <1>6, <2>1, <2>2, <2>3 DEF ListsAgree
<1>8. NamesDiffer
  <2>1. /\ <<"bin">> # <<"home">> /\ <<"bin">> # <<"tmp">> /\ <<"bin">> # <<"sys">>
        /\ <<"home">> # <<"tmp">> /\ <<"home">> # <<"sys">> /\ <<"tmp">> # <<"sys">>
    OBVIOUS
  <2>2. \A i \in Active \ {ROOT} : i = 1 \/ i = 2 \/ i = 3 \/ i = 4 \/ i = 5
    BY <1>5 DEF ROOT
  <2> QED BY <1>6, <2>1, <2>2 DEF NamesDiffer
<1> QED BY <1>7, <1>8
-----------------------------------------------------------------------------
(* fs_create appends the new inode to its parent's list and gives it an    *)
(* empty one; the other lists stay.  That the parent exists is not asked.  *)
LEMMA CreateLists ==
  ASSUME FsInv, NEW d \in Ids, NEW name, NEW type \in {INODE_FILE, INODE_DIR},
         fs_create(d, name, type)
  PROVE  LET id == next_inode_id
         IN /\ id \in Ids \ Active /\ d \in Ids \ {id} /\ Active' = Active \cup {id}
            /\ inode'[id].children = <<>> /\ inode'[id].parent_id = d
            /\ inode'[id].name = Stored(name, type) /\ inode'[id].type = type
            /\ inode'[id].data_offset = NONE /\ inode'[id].data_size = 0
            /\ inode'[d].children = Append(inode[d].children, id)
            /\ \A j \in Ids \ {id, d} : inode'[j].children = inode[j].children
            /\ \A j \in Ids \ {id} : SameRest(inode'[j], inode[j])
<1> DEFINE id == next_inode_id
           new == NewInode(name, type, d)
<1>1. /\ id \in Ids /\ id \in Nat /\ inode'[id].parent_id = d
      /\ inode'[id].data_offset = NONE /\ inode'[id].data_size = 0
      /\ \A j \in Ids \ {id} : SameRest(inode'[j], inode[j])
  BY CreateSpares DEF FsInv
<1>2. d \in Ids /\ ~inode[id].is_active /\ d # id
  <2>0. d \in Ids \ {id}
    BY CreatesBelow
  <2>1. \A j \in Ids : inode[j].is_active => j < id
    BY DEF FsInv, SparesInactive
  <2>2. ~inode[id].is_active
    BY <1>1, <2>1
  <2> QED BY <2>0, <2>2
<1>3. inode = [j \in Ids |-> inode[j]] /\ \A j \in Ids : IsInode(inode[j])
  BY DEF FsInv, DataInv, IsTable
<1>4. /\ new.children = <<>> /\ new.is_active /\ new.name = Stored(name, type)
      /\ new.type = type
  BY DEF NewInode
<1>5. inode' = [[inode EXCEPT ![id] = new] EXCEPT ![d].children = Append(@, id)]
  BY DEF fs_create, FreshSlot, Link
<1> HIDE DEF new, id
<1>6. /\ inode'[id] = new
      /\ inode'[d] = [inode[d] EXCEPT !.children = Append(@, id)]
      /\ \A j \in Ids \ {id, d} : inode'[j] = inode[j]
  BY <1>1, <1>2, <1>3, <1>5
<1>7. inode'[d].children = Append(inode[d].children, id)
  BY <1>2, <1>3, <1>6 DEF IsInode
<1>8. \A j : j \in Active' <=> j \in Active \cup {id}
  <2>1. \A j \in Ids \ {id} : inode'[j].is_active = inode[j].is_active
    BY <1>1 DEF SameRest
  <2> QED BY <1>1, <1>4, <1>6, <2>1 DEF Active
<1> QED BY <1>1, <1>2, <1>4, <1>6, <1>7, <1>8 DEF Active, id

(* fs_delete takes the inode out of its parent's list, if it has one; the  *)
(* other lists stay.                                                       *)
LEMMA DeleteLists ==
  ASSUME FsInv, NEW id \in Active, fs_delete(id)
  PROVE  /\ Active' = Active \ {id}
         /\ \A j \in Ids \ {id} :
              /\ SameRest(inode'[j], inode[j])
              /\ inode'[j].children = IF j = inode[id].parent_id
                                      THEN RemoveFirst(inode[j].children, id)
                                      ELSE inode[j].children
<1> DEFINE p == inode[id].parent_id
           table == Unlink(inode, p, id)
<1>1. id \in Ids /\ inode[id].is_active
  BY DEF Active
<1>2. /\ \A j \in Ids \ {id} : SameRest(inode'[j], inode[j])
      /\ ~inode'[id].is_active
  BY <1>1, DeleteSpares DEF FsInv
<1>3. inode = [j \in Ids |-> inode[j]] /\ \A j \in Ids : IsInode(inode[j])
  BY DEF FsInv, DataInv, IsTable
<1>4. inode' = MarkDeleted(table, id)
  BY DEF fs_delete
<1>5. DOMAIN table = Ids
  BY <1>3 DEF Unlink
<1>6. \A j \in Ids : table[j].children = IF j = p THEN RemoveFirst(inode[j].children, id)
                                         ELSE inode[j].children
  BY <1>3 DEF Unlink, IsInode
<1> HIDE DEF table, p
<1>7. \A j \in Ids \ {id} : inode'[j] = table[j]
  BY <1>4, <1>5 DEF MarkDeleted
<1>8. \A j : j \in Active' <=> j \in Active \ {id}
  <2>1. \A j \in Ids \ {id} : inode'[j].is_active = inode[j].is_active
    BY <1>2 DEF SameRest
  <2> QED BY <1>2, <2>1 DEF Active
<1> QED BY <1>2, <1>6, <1>7, <1>8 DEF p

(* fs_write touches neither the lists nor the names nor the types.         *)
LEMMA WriteLists ==
  ASSUME FsInv, NEW id \in Active, NEW data, fs_write(id, data)
  PROVE  /\ Active' = Active
         /\ \A j \in Ids : /\ inode'[j].children = inode[j].children
                           /\ inode'[j].parent_id = inode[j].parent_id
                           /\ inode'[j].name = inode[j].name
                           /\ inode'[j].type = inode[j].type
<1>1. inode = [j \in Ids |-> inode[j]] /\ \A j \in Ids : IsInode(inode[j])
  BY DEF FsInv, DataInv, IsTable
<1> DEFINE ptr == Alloc(Freed(id), BytesFor(data)).ptr
           size == IF ptr # NONE THEN BytesFor(data) ELSE 0
<1>2. inode' = [inode EXCEPT ![id].data_offset = ptr, ![id].data_size = size]
  BY DEF fs_write
<1> HIDE DEF ptr, size
<1>3. \A j \in Ids : /\ inode'[j].children = inode[j].children
                     /\ inode'[j].parent_id = inode[j].parent_id
                     /\ inode'[j].name = inode[j].name
                     /\ inode'[j].type = inode[j].type
                     /\ inode'[j].is_active = inode[j].is_active
  BY <1>1, <1>2 DEF IsInode
<1>4. \A j : j \in Active' <=> j \in Active
  BY <1>3 DEF Active
<1> QED BY <1>3, <1>4

(* By parents: the new inode has none below it and is below its parent;    *)
(* nothing else moves.                                                     *)
LEMMA CreateChildren ==
  ASSUME FsInv, NEW d \in Ids, NEW name, NEW type \in {INODE_FILE, INODE_DIR},
         fs_create(d, name, type), NEW id, id = next_inode_id
  PROVE  /\ ChildrenOf(d)' = ChildrenOf(d) \cup {id} /\ id \notin ChildrenOf(d)
         /\ ChildrenOf(id)' = {}
         /\ \A j \in Ids \ {d, id} : ChildrenOf(j)' = ChildrenOf(j)
<1>1. /\ id \in Ids \ Active /\ d \in Ids \ {id} /\ Active' = Active \cup {id}
      /\ inode'[id].parent_id = d
      /\ \A j \in Ids \ {id} : inode'[j].parent_id = inode[j].parent_id
  BY CreateLists DEF SameRest
<1>2. \A j \in Active : inode[j].parent_id # id
  <2>1. ASSUME NEW j \in Active PROVE inode[j].parent_id # id
    <3>1. j \in Ids /\ j < next_inode_id
      BY DEF Active, FsInv, SparesInactive
    <3>2. inode[j].parent_id = NONE \/ inode[j].parent_id \in 0 .. j - 1
      BY <3>1 DEF FsInv, Ordered
    <3> QED BY <1>1, <3>1, <3>2 DEF Ids, NONE
  <2> QED BY <2>1
<1>3. Active \subseteq Ids
  BY DEF Active
<1>4. \A j : ChildrenOf(j)' = {k \in Active \cup {id} : inode'[k].parent_id = j}
  BY <1>1 DEF ChildrenOf
<1>5. ChildrenOf(d)' = ChildrenOf(d) \cup {id} /\ id \notin ChildrenOf(d)
  BY <1>1, <1>3, <1>4 DEF ChildrenOf
<1>6. ChildrenOf(id)' = {}
  BY <1>1, <1>2, <1>3, <1>4
<1>7. \A j \in Ids \ {d, id} : ChildrenOf(j)' = ChildrenOf(j)
  BY <1>1, <1>3, <1>4 DEF ChildrenOf
<1> QED BY <1>5, <1>6, <1>7

(* The deleted inode was below its parent only.                            *)
LEMMA DeleteChildren ==
  ASSUME FsInv, NEW id \in Active, fs_delete(id)
  PROVE  \A j : ChildrenOf(j)' = ChildrenOf(j) \ {id}
<1>1. /\ Active' = Active \ {id} /\ Active \subseteq Ids
      /\ \A k \in Ids \ {id} : inode'[k].parent_id = inode[k].parent_id
  BY DeleteLists DEF SameRest, Active
<1>2. \A j : ChildrenOf(j)' = {k \in Active \ {id} : inode'[k].parent_id = j}
  BY <1>1 DEF ChildrenOf
<1> QED BY <1>1, <1>2 DEF ChildrenOf

-----------------------------------------------------------------------------
(* Every operation keeps the agreement of lists and parents.               *)
LEMMA CreateKeepsLists ==
  ASSUME FsInv, ListsAgree, NEW d \in Ids, NEW name,
         NEW type \in {INODE_FILE, INODE_DIR}, fs_create(d, name, type)
  PROVE  ListsAgree'
<1>0. PICK id : id = next_inode_id
  OBVIOUS
<1>1. /\ id \in Ids \ Active /\ d \in Ids \ {id} /\ Active' = Active \cup {id}
      /\ inode'[id].children = <<>>
      /\ inode'[d].children = Append(inode[d].children, id)
      /\ \A j \in Ids \ {id, d} : inode'[j].children = inode[j].children
  BY <1>0, CreateLists
<1>2. /\ ChildrenOf(d)' = ChildrenOf(d) \cup {id} /\ id \notin ChildrenOf(d)
      /\ ChildrenOf(id)' = {}
      /\ \A j \in Ids \ {d, id} : ChildrenOf(j)' = ChildrenOf(j)
  BY <1>0, CreateChildren
<1>3. Active \subseteq Ids /\ \A j \in Ids : inode[j].children \in Seq(Ids)
  BY DEF Active, FsInv, DataInv, IsTable, IsInode
<1>4. ASSUME d \in Active PROVE Enumerates(inode'[d].children, ChildrenOf(d)')
  <2>1. Enumerates(inode[d].children, ChildrenOf(d))
    BY <1>4 DEF ListsAgree
  <2> QED BY <1>1, <1>2, <1>3, <2>1, EnumeratesMore
<1>5. Enumerates(inode'[id].children, ChildrenOf(id)')
  BY <1>1, <1>2 DEF Enumerates, ToSet
<1>6. \A j \in Active \ {d, id} : Enumerates(inode'[j].children, ChildrenOf(j)')
  BY <1>1, <1>2, <1>3 DEF ListsAgree
<1>7. ASSUME NEW j \in Active' PROVE Enumerates(inode'[j].children, ChildrenOf(j)')
  BY <1>1, <1>4, <1>5, <1>6
<1> QED BY <1>7 DEF ListsAgree

LEMMA DeleteKeepsLists ==
  ASSUME FsInv, ListsAgree, NEW id \in Active, fs_delete(id)
  PROVE  ListsAgree'
<1>0. Active \subseteq Ids /\ \A j \in Ids : inode[j].children \in Seq(Ids)
  BY DEF Active, FsInv, DataInv, IsTable, IsInode
<1>1. /\ Active' = Active \ {id}
      /\ \A j \in Ids \ {id} :
           inode'[j].children = IF j = inode[id].parent_id
                                THEN RemoveFirst(inode[j].children, id)
                                ELSE inode[j].children
  BY DeleteLists
<1>2. ASSUME NEW j \in Active \ {id}
      PROVE  Enumerates(inode'[j].children, ChildrenOf(j)')
  <2>1. ChildrenOf(j)' = ChildrenOf(j) \ {id}
    BY DeleteChildren
  <2>2. Enumerates(inode[j].children, ChildrenOf(j))
    BY DEF ListsAgree
  <2>3. CASE j = inode[id].parent_id
    BY <1>0, <1>1, <2>1, <2>2, <2>3, EnumeratesLess
  <2>4. CASE j # inode[id].parent_id
    <3>1. ChildrenOf(j) \ {id} = ChildrenOf(j)
      BY <2>4 DEF ChildrenOf
    <3> QED BY <1>0, <1>1, <2>1, <2>2, <2>4, <3>1
  <2> QED BY <2>3, <2>4
<1> QED BY <1>1, <1>2 DEF ListsAgree

LEMMA WriteKeepsLists ==
  ASSUME FsInv, ListsAgree, NEW id \in Active, NEW data, fs_write(id, data)
  PROVE  ListsAgree'
<1>1. Active' = Active /\ Active \subseteq Ids
  BY WriteLists DEF Active
<1>2. \A j \in Active : ChildrenOf(j)' = ChildrenOf(j) /\ inode'[j].children = inode[j].children
  BY <1>1, WriteLists DEF ChildrenOf
<1> QED BY <1>1, <1>2 DEF ListsAgree

LEMMA ListsAgreeStep == FsInv /\ ListsAgree /\ [Next]_fsvars => ListsAgree'
<1>1. CASE UNCHANGED fsvars
  BY <1>1 DEF fsvars, ListsAgree, ChildrenOf, Active
<1> QED BY <1>1, CreateKeepsLists, DeleteKeepsLists, WriteKeepsLists DEF Next

(* No name typed at the shell fills the field.                             *)
ShortNames == \A name \in Names : Len(name) < MAX_NAME_LEN

(* With such names the check of fs_create keeps siblings apart.            *)
LEMMA CreateKeepsNames ==
  ASSUME ShortNames, FsInv, ListsAgree, NamesDiffer, NEW d \in Ids,
         NEW name \in Names, NEW type \in {INODE_FILE, INODE_DIR}, fs_create(d, name, type)
  PROVE  NamesDiffer'
<1>0. PICK id : id = next_inode_id
  OBVIOUS
<1>1. /\ id \in Ids \ Active /\ Active' = Active \cup {id} /\ Active \subseteq Ids
      /\ inode'[id].parent_id = d /\ inode'[id].name = name
      /\ \A j \in Ids \ {id} : inode'[j].parent_id = inode[j].parent_id
                              /\ inode'[j].name = inode[j].name
  BY <1>0, CreateLists DEF SameRest, Stored, ShortNames, Active
<1>2. ASSUME d \in Active, NEW j \in Active, inode[j].parent_id = d PROVE inode[j].name # name
  <2>1. j \in ToSet(inode[d].children)
    BY <1>2 DEF ListsAgree, Enumerates, ChildrenOf
  <2>2. IsTable(inode) /\ d \in Ids /\ inode[d].children \in Seq(Ids)
    BY DEF FsInv, DataInv, IsTable, IsInode
  <2>3. PICK i \in 1 .. Len(inode[d].children) : inode[d].children[i] = j
    BY <2>1, <2>2 DEF ToSet
  <2>4. inode[d].type = INODE_DIR /\ FindChild(d, name) = NONE
    BY DEF fs_create
  <2>5. ~IsNamed(j, name)
    BY <2>2, <2>3, <2>4, FindsWhatIsThere
  <2> QED BY <2>5 DEF IsNamed, Active
<1>3. \A j \in Active' : inode'[j].parent_id # id
  <2>1. ChildrenOf(id)' = {}
    BY <1>0, CreateChildren
  <2> QED BY <2>1 DEF ChildrenOf
<1>4. SUFFICES ASSUME NEW i \in Active' \ {ROOT}, NEW j \in Active' \ {ROOT},
                      inode'[i].parent_id = inode'[j].parent_id, inode'[i].parent_id \in Active,
                      inode'[i].name = inode'[j].name
               PROVE  i = j
  BY <1>1, <1>3 DEF NamesDiffer
<1>5. CASE i = id /\ j # id
  BY <1>1, <1>2, <1>4, <1>5
<1>6. CASE j = id /\ i # id
  BY <1>1, <1>2, <1>4, <1>6
<1>7. CASE i # id /\ j # id
  BY <1>1, <1>4, <1>7 DEF NamesDiffer
<1> QED BY <1>5, <1>6, <1>7

LEMMA DeleteKeepsNames ==
  ASSUME FsInv, NamesDiffer, NEW id \in Active, fs_delete(id)
  PROVE  NamesDiffer'
<1>1. /\ Active' = Active \ {id} /\ Active \subseteq Ids
      /\ \A j \in Ids \ {id} : inode'[j].parent_id = inode[j].parent_id
                              /\ inode'[j].name = inode[j].name
  BY DeleteLists DEF SameRest, Active
<1> QED BY <1>1 DEF NamesDiffer

LEMMA WriteKeepsNames ==
  ASSUME FsInv, NamesDiffer, NEW id \in Active, NEW data, fs_write(id, data)
  PROVE  NamesDiffer'
<1>1. Active' = Active /\ Active \subseteq Ids
  BY WriteLists DEF Active
<1> QED BY <1>1, WriteLists DEF NamesDiffer

LEMMA NamesDifferStep ==
  ASSUME ShortNames
  PROVE  FsInv /\ ListsAgree /\ NamesDiffer /\ [Next]_fsvars => NamesDiffer'
<1>1. CASE UNCHANGED fsvars
  BY <1>1 DEF fsvars, NamesDiffer, Active
<1> QED BY <1>1, CreateKeepsNames, DeleteKeepsNames, WriteKeepsNames DEF Next

-----------------------------------------------------------------------------
(* ls shows the active inodes below a directory, each once, after every    *)
(* history of creates, deletes and writes.                                 *)
THEOREM Listing == Spec => []ListingsComplete
<1>1. FsInv /\ ListsAgree => ListingsComplete
  <2> SUFFICES ASSUME FsInv, ListsAgree, NEW d \in Active
               PROVE  /\ Range(Listed(d)) = ChildrenOf(d)
                      /\ IsInjective(Listed(d))
    BY DEF ListingsComplete, ChildrenOf
  <2> DEFINE children == inode[d].children
  <2>1. children \in Seq(Ids) /\ DOMAIN children = 1 .. Len(children)
    BY DEF FsInv, DataInv, IsTable, IsInode, Active
  <2>2. ToSet(children) = ChildrenOf(d)
        /\ \A i, j \in 1 .. Len(children) : children[i] = children[j] => i = j
    BY DEF ListsAgree, Enumerates
  <2>3. \A k \in DOMAIN children : children[k] \in Ids /\ inode[children[k]].is_active
    BY <2>2 DEF ToSet, ChildrenOf, Active
  <2>4. Listed(d) = [k \in DOMAIN children |-> children[k]]
    BY <2>3 DEF Listed
  <2> QED BY <2>1, <2>2, <2>4 DEF Range, ToSet, IsInjective
<1> QED BY <1>1, InvInit, DefaultListings, InvNext, ListsAgreeStep, PTL DEF Spec

(* When the names fit their field, siblings have different names.          *)
THEOREM SiblingsDiffer ==
  ASSUME ShortNames
  PROVE  Spec => []SiblingNamesUnique
<1>1. FsInv /\ ListsAgree /\ NamesDiffer => SiblingNamesUnique
  <2> SUFFICES ASSUME FsInv, ListsAgree, NamesDiffer, NEW d \in Active,
                      NEW i \in DOMAIN inode[d].children, NEW j \in DOMAIN inode[d].children,
                      inode[inode[d].children[i]].name = inode[inode[d].children[j]].name
               PROVE  i = j
    BY DEF SiblingNamesUnique
  <2> DEFINE a == inode[d].children[i]
             b == inode[d].children[j]
  <2>1. inode[d].children \in Seq(Ids) /\ DOMAIN inode[d].children = 1 .. Len(inode[d].children)
    BY DEF FsInv, DataInv, IsTable, IsInode, Active
  <2>2. a \in ChildrenOf(d) /\ b \in ChildrenOf(d)
    BY DEF ListsAgree, Enumerates, ToSet
  <2>3. d # NONE /\ inode[ROOT].parent_id = NONE
    BY TableAssumption DEF Active, Ids, NONE, ROOT, FsInv, Ordered
  <2>4. a = b
    BY <2>2, <2>3 DEF ChildrenOf, NamesDiffer
  <2> QED BY <2>1, <2>4 DEF ListsAgree, Enumerates
<1> QED BY <1>1, InvInit, DefaultListings, InvNext, ListsAgreeStep, NamesDifferStep, PTL DEF Spec

-----------------------------------------------------------------------------
(* The way up from an inode passes only inodes of a set T that has with    *)
(* each its parent, where each is found by its name: then the names on the *)
(* way, followed from the root, lead back.                                 *)
LEMMA NamesLeadBack ==
  ASSUME Ordered, NEW T \in SUBSET Ids,
         \A i \in T \ {ROOT} : /\ inode[i].parent_id \in T
                               /\ FindChild(inode[i].parent_id, inode[i].name) = i,
         NEW id \in T
  PROVE  Resolve(Path(id)) = id
<1>0. PICK up : up = Up(id)
  OBVIOUS
<1>1. /\ MAX_INODES \in Nat /\ id \in Nat /\ id < MAX_INODES /\ ROOT = 0 /\ NONE \notin Ids
      /\ \A i : i \in Ids <=> i \in Nat /\ i < MAX_INODES
  BY TableAssumption DEF Ids, ROOT, NONE
<1>2. up[0] = id /\ \A n \in 0 .. MAX_INODES - 1 : up[n + 1] = ParentOf(up[n])
  <2>1. up[0] = id /\ \A n \in 1 .. MAX_INODES : up[n] = ParentOf(up[n - 1])
    BY <1>0, UpSteps
  <2>2. \A n \in 0 .. MAX_INODES - 1 : n + 1 \in 1 .. MAX_INODES /\ (n + 1) - 1 = n
    BY <1>1
  <2> QED BY <2>1, <2>2
<1>3. \A i \in T \ {ROOT} : ParentOf(i) \in T /\ ParentOf(i) < i
  BY <1>1 DEF Ordered, ParentOf
<1>4. \E n \in 0 .. id : up[n] = ROOT
  <2> DEFINE S == {n \in Nat : (\E m \in 0 .. n : up[m] = ROOT) \/ (up[n] \in T /\ up[n] <= id - n)}
  <2>1. 0 \in S
    BY <1>1, <1>2
  <2>2. ASSUME NEW n \in 0 .. id - 1, n \in S PROVE n + 1 \in S
    <3>1. CASE \E m \in 0 .. n : up[m] = ROOT
      BY <3>1
    <3>2. CASE up[n] \in T \ {ROOT} /\ up[n] <= id - n
      <4>1. up[n + 1] = ParentOf(up[n])
        BY <1>1, <1>2
      <4>2. up[n + 1] \in T /\ up[n + 1] < up[n] /\ up[n + 1] \in Nat /\ up[n] \in Nat
        BY <1>1, <1>3, <3>2, <4>1
      <4>3. up[n + 1] <= id - (n + 1)
        BY <1>1, <3>2, <4>2
      <4> QED BY <4>2, <4>3
    <3> QED BY <2>2, <3>1, <3>2, n \in 0 .. n
  <2> HIDE DEF S
  <2>3. id \in S
    BY <1>1, <2>1, <2>2, InductUpTo, id \in 0 .. id
  <2>4. (\E m \in 0 .. id : up[m] = ROOT) \/ (up[id] \in T /\ up[id] <= id - id)
    BY <2>3 DEF S
  <2>5. CASE up[id] \in T /\ up[id] <= id - id
    <3>1. \A i \in T : i \in Nat
      BY <1>1
    <3>2. up[id] \in Nat
      BY <2>5, <3>1
    <3>3. id - id = 0 /\ id \in 0 .. id
      BY <1>1
    <3>4. up[id] = 0
      BY <2>5, <3>2, <3>3
    <3> QED BY <1>1, <3>3, <3>4
  <2> QED BY <2>4, <2>5
<1>5. PICK depth \in 0 .. id : up[depth] = ROOT /\ \A n \in 0 .. id : up[n] = ROOT => depth <= n
  <2>1. {n \in 0 .. id : up[n] = ROOT} \in SUBSET Nat
    BY <1>1
  <2> QED BY <1>4, <2>1, LeastNat
<1>6. ASSUME NEW n \in 0 .. depth PROVE up[n] \in T
  <2> DEFINE S == {m \in Nat : m <= depth => up[m] \in T}
  <2>1. 0 \in S
    BY <1>2
  <2>2. ASSUME NEW m \in 0 .. depth - 1, m \in S PROVE m + 1 \in S
    <3>1. up[m] \in T \ {ROOT}
      BY <1>1, <1>5, <2>2
    <3>2. up[m + 1] = ParentOf(up[m])
      BY <1>1, <1>2, <1>5
    <3> QED BY <1>3, <3>1, <3>2
  <2> HIDE DEF S
  <2>3. n \in S
    BY <1>5, <2>1, <2>2, InductUpTo, depth \in Nat
  <2> QED BY <1>6, <2>3 DEF S
<1>7. ASSUME NEW n \in 0 .. MAX_INODES, n > depth PROVE up[n] = NONE
  <2> DEFINE S == {m \in Nat : m > depth => up[m] = NONE}
  <2>1. 0 \in S
    BY <1>5
  <2>2. ASSUME NEW m \in 0 .. MAX_INODES - 1, m \in S PROVE m + 1 \in S
    <3>1. up[m + 1] = ParentOf(up[m])
      BY <1>2
    <3>2. CASE m = depth
      BY <1>1, <1>5, <3>1, <3>2 DEF ParentOf, Ordered
    <3>3. CASE m > depth
      BY <1>1, <2>2, <3>1, <3>3 DEF ParentOf
    <3> QED BY <1>5, <3>2, <3>3
  <2> HIDE DEF S
  <2>3. n \in S
    BY <1>1, <2>1, <2>2, InductUpTo
  <2> QED BY <1>7, <2>3 DEF S
<1>8. {n \in 0 .. MAX_INODES : up[n] \in Ids \ {ROOT}} = 0 .. depth - 1
  <2>1. ASSUME NEW n \in 0 .. MAX_INODES, up[n] \in Ids \ {ROOT} PROVE n \in 0 .. depth - 1
    BY <1>1, <1>5, <1>7, <2>1
  <2>2. ASSUME NEW n \in 0 .. depth - 1 PROVE n \in 0 .. MAX_INODES /\ up[n] \in Ids \ {ROOT}
    <3>1. n \in 0 .. id /\ n \in 0 .. depth /\ n < depth /\ n \in 0 .. MAX_INODES
      BY <1>1, <1>5
    <3>2. up[n] \in T /\ up[n] # ROOT
      BY <1>5, <1>6, <3>1
    <3> QED BY <3>1, <3>2
  <2> QED BY <2>1, <2>2
<1>9. Cardinality(0 .. depth - 1) = depth
  BY <1>5, FS_Interval, 0 \in Int, depth - 1 \in Int
<1> DEFINE path == [k \in 1 .. depth |-> inode[up[depth - k]].name]
<1>10. Path(id) = path
  BY <1>0, <1>8, <1>9 DEF Path
<1>11. Len(path) = depth
  <2>1. depth \in Nat /\ DOMAIN path = 1 .. depth
    BY <1>5
  <2> DEFINE S == {path[k] : k \in 1 .. depth}
  <2>2. path \in [1 .. depth -> S]
    OBVIOUS
  <2> HIDE DEF path, S
  <2>3. path \in Seq(S)
    BY <2>1, <2>2
  <2> QED BY <2>1, <2>3, LenProperties
<1> DEFINE Step(g) == [k \in 0 .. depth |-> IF k = 0 THEN ROOT ELSE FindChild(g[k - 1], path[k])]
           Solves(g) == g = Step(g)
<1>12. ASSUME NEW k \in 0 .. depth - 1
       PROVE  FindChild(up[depth - k], path[k + 1]) = up[depth - (k + 1)]
  <2> DEFINE n == depth - (k + 1)
  <2>1. /\ n \in 0 .. depth - 1 /\ n + 1 = depth - k /\ k + 1 \in 1 .. depth
        /\ n \in 0 .. MAX_INODES - 1 /\ n \in 0 .. depth
    BY <1>1, <1>5
  <2>2. path[k + 1] = inode[up[n]].name
    BY <2>1
  <2> HIDE DEF n, path
  <2>3. up[n] \in T \ {ROOT} /\ up[n] \in Ids
    <3>1. n \in 0 .. id /\ n < depth
      BY <1>1, <1>5, <2>1
    <3> QED BY <1>5, <1>6, <2>1, <3>1
  <2>4. up[n + 1] = inode[up[n]].parent_id
    BY <1>2, <2>1, <2>3 DEF ParentOf
  <2> QED BY <2>1, <2>2, <2>3, <2>4 DEF n
<1> HIDE DEF path
<1>13. Solves([k \in 0 .. depth |-> up[depth - k]])
  <2> DEFINE f == [k \in 0 .. depth |-> up[depth - k]]
  <2>1. ASSUME NEW k \in 0 .. depth PROVE f[k] = Step(f)[k]
    <3>1. CASE k = 0
      BY <1>5, <3>1
    <3>2. CASE k # 0
      <4>1. k - 1 \in 0 .. depth - 1 /\ (k - 1) + 1 = k /\ k - 1 \in 0 .. depth
        BY <1>5, <3>2
      <4>2. FindChild(up[depth - (k - 1)], path[k]) = up[depth - k]
        BY <1>12, <4>1
      <4> QED BY <3>2, <4>1, <4>2
    <3> QED BY <3>1, <3>2
  <2> QED BY <2>1
<1>14. ASSUME NEW g, Solves(g) PROVE g[depth] = id
  <2> DEFINE S == {k \in Nat : k <= depth => g[k] = up[depth - k]}
  <2>1. \A k \in 0 .. depth : g[k] = IF k = 0 THEN ROOT ELSE FindChild(g[k - 1], path[k])
    BY <1>14
  <2>2. 0 \in S
    BY <1>5, <2>1
  <2>3. ASSUME NEW k \in 0 .. depth - 1, k \in S PROVE k + 1 \in S
    <3>1. k + 1 \in 0 .. depth /\ k + 1 # 0 /\ (k + 1) - 1 = k /\ g[k] = up[depth - k]
      BY <1>5, <2>3
    <3>2. g[k + 1] = FindChild(g[k], path[k + 1])
      BY <2>1, <3>1
    <3> QED BY <1>12, <3>1, <3>2
  <2> HIDE DEF S
  <2>4. depth \in S
    BY <1>5, <2>2, <2>3, InductUpTo, depth \in 0 .. depth
  <2> QED BY <1>2, <1>5, <2>4, depth - depth = 0 DEF S
<1>15. Resolve(path) = (CHOOSE g : Solves(g))[depth]
  BY <1>11 DEF Resolve
<1> HIDE DEF Solves
<1> QED BY <1>10, <1>13, <1>14, <1>15

-----------------------------------------------------------------------------
(* The tree in a table.  InTree is a recursive function along the parents. *)

Belongs(t, id, S) ==
  t[id].is_active /\ (id # ROOT => t[id].parent_id \in 0 .. id - 1 /\ t[id].parent_id \in S)

LEMMA TreeMembers ==
  ASSUME NEW t, IsTable(t)
  PROVE  /\ InTree(t) \subseteq Ids
         /\ \A id \in Ids : id \in InTree(t) <=> Belongs(t, id, InTree(t))
<1> DEFINE P(id) == t[id].parent_id
           B == {id \in Ids : id = ROOT \/ P(id) \notin 0 .. id - 1}
           base == [id \in Ids |-> id = ROOT /\ t[id].is_active]
           next == [id \in Ids \ B |-> P(id)]
           rank == [id \in Ids |-> id]
           G == [id \in Ids \ B |-> [v \in BOOLEAN |-> t[id].is_active /\ v]]
           Step(g) == [id \in Ids |-> /\ t[id].is_active
                                      /\ id # ROOT => P(id) \in 0 .. id - 1 /\ g[P(id)]]
           Solves(g) == g = Step(g)
<1>1. /\ \A id \in Ids : id \in Nat /\ id \in 0 .. MAX_INODES /\ t[id].is_active \in BOOLEAN
      /\ MAX_INODES \in Nat /\ \A id \in Ids : \A k \in 0 .. id - 1 : k \in Ids
  BY TableAssumption DEF Ids, IsTable, IsInode
<1>2. LeadsDown(next, Ids, B, rank, MAX_INODES)
  <2>1. rank \in [Ids -> 0 .. MAX_INODES]
    BY <1>1
  <2>2. \A id \in Ids \ B : next[id] \in Ids /\ rank[next[id]] < rank[id]
    BY <1>1
  <2>3. next \in [Ids \ B -> Ids]
    BY <2>2
  <2> QED BY <1>1, <2>1, <2>2, <2>3 DEF LeadsDown
<1>3. base \in [Ids -> BOOLEAN] /\ G \in [Ids \ B -> [BOOLEAN -> BOOLEAN]]
  BY <1>1
<1>4. /\ \A id \in Ids : base[id] = (id = ROOT /\ t[id].is_active)
      /\ \A id \in Ids \ B : next[id] = P(id) /\ \A v \in BOOLEAN : G[id][v] = (t[id].is_active /\ v)
  OBVIOUS
<1>5. \A id \in Ids : id \in B <=> id = ROOT \/ P(id) \notin 0 .. id - 1
  OBVIOUS
<1> HIDE DEF B, base, next, rank, G
<1>6. PICK f \in [Ids -> BOOLEAN] : Recurs(f, next, Ids, B, base, G)
  BY <1>2, <1>3, RecursionDownwards
<1>7. Solves(f)
  <2>1. ASSUME NEW id \in Ids PROVE f[id] = Step(f)[id]
    <3>1. CASE id \in B
      <4>1. f[id] = (id = ROOT /\ t[id].is_active)
        BY <1>4, <1>6, <3>1 DEF Recurs
      <4>2. id = ROOT \/ P(id) \notin 0 .. id - 1
        BY <1>5, <3>1
      <4> QED BY <1>1, <4>1, <4>2
    <3>2. CASE id \notin B
      <4>1. next[id] = P(id) /\ P(id) \in 0 .. id - 1 /\ P(id) \in Ids /\ id # ROOT
        BY <1>1, <1>4, <1>5, <3>2
      <4>2. f[id] = G[id][f[P(id)]]
        BY <1>6, <3>2, <4>1 DEF Recurs
      <4>3. f[P(id)] \in BOOLEAN
        BY <4>1
      <4>4. f[id] = (t[id].is_active /\ f[P(id)])
        BY <1>4, <3>2, <4>2, <4>3
      <4> QED BY <4>1, <4>4
    <3> QED BY <3>1, <3>2
  <2>2. DOMAIN f = Ids /\ f = [id \in Ids |-> f[id]]
    OBVIOUS
  <2> QED BY <2>1, <2>2
<1>8. PICK in : in = CHOOSE g : Solves(g)
  OBVIOUS
<1>9. InTree(t) = {id \in Ids : in[id]}
  BY <1>8 DEF InTree
<1> HIDE DEF Solves
<1>10. Solves(in)
  BY <1>7, <1>8
<1>11. ASSUME NEW id \in Ids
       PROVE  in[id] = (/\ t[id].is_active
                        /\ id # ROOT => P(id) \in 0 .. id - 1 /\ in[P(id)])
  <2>1. in = Step(in)
    BY <1>10 DEF Solves
  <2>2. in[id] = Step(in)[id]
    BY <2>1
  <2>3. Step(in)[id] = (/\ t[id].is_active
                        /\ id # ROOT => P(id) \in 0 .. id - 1 /\ in[P(id)])
    BY Zenon
  <2> QED BY <2>2, <2>3, Zenon
<1>12. \A id \in Ids : id \in InTree(t) <=> in[id]
  BY <1>9
<1>13. ASSUME NEW id \in Ids
       PROVE  id \in InTree(t) <=>
                /\ t[id].is_active
                /\ id # ROOT => P(id) \in 0 .. id - 1 /\ P(id) \in InTree(t)
  <2>1. P(id) \in 0 .. id - 1 => (in[P(id)] <=> P(id) \in InTree(t))
    BY <1>1, <1>12
  <2> QED BY <1>11, <1>12, <2>1, Zenon
<1> QED BY <1>9, <1>13 DEF Belongs

(* It is the only set that its equation describes.                         *)
LEMMA TreeUnique ==
  ASSUME NEW t, IsTable(t), NEW S \in SUBSET Ids, \A id \in Ids : id \in S <=> Belongs(t, id, S)
  PROVE  InTree(t) = S
<1> DEFINE Bad == {id \in Ids : ~(id \in S <=> id \in InTree(t))}
<1>1. InTree(t) \subseteq Ids /\ \A id \in Ids : id \in InTree(t) <=> Belongs(t, id, InTree(t))
  BY TreeMembers
<1> SUFFICES ASSUME Bad # {} PROVE FALSE
  BY <1>1
<1>2. \A id \in Ids : id \in Nat /\ \A k \in 0 .. id - 1 : k \in Ids /\ k < id
  BY TableAssumption DEF Ids
<1>3. PICK id \in Bad : \A k \in Bad : id <= k
  <2>1. Bad \in SUBSET Nat
    BY <1>2
  <2> QED BY <2>1, LeastNat
<1>4. \A k \in 0 .. id - 1 : k \in S <=> k \in InTree(t)
  BY <1>2, <1>3
<1>5. Belongs(t, id, S) <=> Belongs(t, id, InTree(t))
  BY <1>4 DEF Belongs
<1> QED BY <1>1, <1>3, <1>5

-----------------------------------------------------------------------------
(* The lists, names and parents of a table, in RAM or in an image.  A      *)
(* parent need not be in use, for a directory that was deleted still takes *)
(* new entries.                                                            *)

ActiveIn(t) == {id \in Ids : t[id].is_active}
ChildrenIn(t, d) == {id \in ActiveIn(t) : t[id].parent_id = d}

LinkedIn(t) ==
  /\ ROOT \in ActiveIn(t) /\ t[ROOT].type = INODE_DIR
  /\ \A d \in ActiveIn(t) : Enumerates(t[d].children, ChildrenIn(t, d))
  /\ \A i \in ActiveIn(t) \ {ROOT} : t[t[i].parent_id].type = INODE_DIR
  /\ \A i, j \in ActiveIn(t) \ {ROOT} :
       /\ t[i].parent_id = t[j].parent_id /\ t[i].parent_id \in ActiveIn(t)
       /\ t[i].name = t[j].name
       => i = j

RootIsDir == ROOT \in Active /\ inode[ROOT].type = INODE_DIR

BelowDirs == \A i \in Active \ {ROOT} : inode[inode[i].parent_id].type = INODE_DIR

LEMMA LinksByParts ==
  /\ LinkedIn(inode) <=> RootIsDir /\ ListsAgree /\ BelowDirs /\ NamesDiffer
  /\ LinkedIn(inode') <=> (RootIsDir' /\ ListsAgree' /\ BelowDirs' /\ NamesDiffer')
BY DEF LinkedIn, RootIsDir, ListsAgree, BelowDirs, NamesDiffer, ActiveIn, ChildrenIn, Active, ChildrenOf

(* The default directories are below the root or below home.               *)
LEMMA DefaultParents == FsInit => RootIsDir /\ BelowDirs
<1> SUFFICES ASSUME FsInit PROVE RootIsDir /\ BelowDirs
  OBVIOUS
<1>1. Len(DefaultTree) = 6 /\ \A id \in 0 .. 5 : id \in Ids
  BY TableAssumption DEF DefaultTree, Ids
<1>2. ASSUME NEW id \in Ids
      PROVE  inode[id] = IF id < 6 THEN DefaultInode(DefaultTree[id + 1]) ELSE ZeroInode
  BY <1>1 DEF FsInit, FormattedTable
<1>3. ASSUME NEW id \in Ids, id < 6
      PROVE  /\ inode[id].type = INODE_DIR /\ inode[id].is_active
             /\ inode[id].parent_id = DefaultTree[id + 1].parent_id
  <2> DEFINE d == DefaultTree[id + 1]
  <2>1. inode[id] = DefaultInode(d)
    BY <1>2, <1>3
  <2> HIDE DEF d
  <2>2. inode[id].type = INODE_DIR /\ inode[id].is_active /\ inode[id].parent_id = d.parent_id
    BY <2>1 DEF DefaultInode
  <2> QED BY <2>2 DEF d
<1>4. \A id \in 0 .. 5 : id \in Active /\ inode[id].type = INODE_DIR
  BY <1>1, <1>3 DEF Active
<1>5. ASSUME NEW id \in Active PROVE id \in 0 .. 5
  <2>1. SUFFICES ASSUME ~(id < 6) PROVE FALSE
    BY TableAssumption DEF Active, Ids
  <2>2. inode[id] = ZeroInode
    BY <1>2, <2>1 DEF Active
  <2>3. ~inode[id].is_active
    BY <2>2 DEF ZeroInode
  <2> QED BY <2>3 DEF Active
<1>6. ASSUME NEW id \in 1 .. 5 PROVE inode[id].parent_id \in {0, 2}
  <2>1. id \in Ids /\ inode[id].parent_id = DefaultTree[id + 1].parent_id
    BY <1>1, <1>3
  <2>2. /\ DefaultTree[2].parent_id = 0 /\ DefaultTree[3].parent_id = 0
        /\ DefaultTree[4].parent_id = 2 /\ DefaultTree[5].parent_id = 0
        /\ DefaultTree[6].parent_id = 0
    BY DEF DefaultTree
  <2>3. id = 1 \/ id = 2 \/ id = 3 \/ id = 4 \/ id = 5
    OBVIOUS
  <2> QED BY <2>1, <2>2, <2>3
<1>7. \A id \in Active \ {ROOT} : id \in 1 .. 5
  BY <1>5 DEF ROOT
<1> QED BY <1>4, <1>6, <1>7 DEF RootIsDir, BelowDirs, ROOT

(* An inode that fs_delete takes has no active inode below it.             *)
LEMMA NothingBelow ==
  ASSUME FsInv, LinkedIn(inode), NEW id \in Active, fs_delete(id), NEW j \in Active
  PROVE  inode[j].parent_id # id
<1> SUFFICES ASSUME inode[j].parent_id = id PROVE FALSE
  OBVIOUS
<1>1. j # ROOT
  BY TableAssumption DEF FsInv, Ordered, Active, Ids, ROOT, NONE
<1>2. inode[id].type = INODE_DIR /\ j \in ChildrenOf(id)
  BY <1>1, LinksByParts DEF BelowDirs, ChildrenOf
<1>3. inode[id].children = <<>>
  BY <1>2 DEF fs_delete, MayDelete
<1> QED BY <1>2, <1>3, LinksByParts DEF ListsAgree, Enumerates, ToSet

LEMMA CreateKeepsLinks ==
  ASSUME ShortNames, FsInv, LinkedIn(inode), NEW d \in Ids, NEW name \in Names,
         NEW type \in {INODE_FILE, INODE_DIR}, fs_create(d, name, type)
  PROVE  LinkedIn(inode')
<1>0. PICK id : id = next_inode_id
  OBVIOUS
<1>1. /\ FsInv /\ d \in Ids \ {id} /\ inode[d].type = INODE_DIR
      /\ RootIsDir /\ ListsAgree /\ BelowDirs /\ NamesDiffer
  BY <1>0, CreatesBelow, LinksByParts
<1>2. /\ id \in Ids \ Active /\ Active' = Active \cup {id} /\ Active \subseteq Ids
      /\ inode'[id].parent_id = d
      /\ \A j \in Ids \ {id} : inode'[j].type = inode[j].type /\ inode'[j].parent_id = inode[j].parent_id
  BY <1>0, <1>1, CreateLists DEF SameRest, Active
<1>3. ListsAgree' /\ NamesDiffer'
  BY <1>0, <1>1, CreateKeepsLists, CreateKeepsNames
<1>4. RootIsDir'
  BY <1>1, <1>2 DEF RootIsDir
<1>5. BelowDirs'
  <2>1. \A j \in Active \ {ROOT} : inode[j].parent_id \in Ids \ {id}
    <3> SUFFICES ASSUME NEW j \in Active \ {ROOT} PROVE inode[j].parent_id \in Ids \ {id}
      OBVIOUS
    <3>1. j < id /\ j \in Ids /\ inode[j].parent_id \in 0 .. j - 1
      BY <1>0, <1>1, <1>2 DEF FsInv, SparesInactive, Ordered, Active
    <3> QED BY <1>2, <3>1, TableAssumption DEF Ids
  <2> QED BY <1>1, <1>2, <2>1 DEF BelowDirs
<1> QED BY <1>3, <1>4, <1>5, LinksByParts

LEMMA DeleteKeepsLinks ==
  ASSUME FsInv, LinkedIn(inode), NEW id \in Active, fs_delete(id)
  PROVE  LinkedIn(inode')
<1>1. RootIsDir /\ ListsAgree /\ BelowDirs /\ NamesDiffer
  BY LinksByParts
<1>2. /\ Active' = Active \ {id} /\ Active \subseteq Ids /\ id # ROOT
      /\ \A j \in Ids \ {id} : inode'[j].type = inode[j].type /\ inode'[j].parent_id = inode[j].parent_id
  BY DeleteLists DEF SameRest, Active, fs_delete, MayDelete
<1>3. ListsAgree' /\ NamesDiffer'
  BY <1>1, DeleteKeepsLists, DeleteKeepsNames
<1>4. RootIsDir'
  BY <1>1, <1>2 DEF RootIsDir
<1>5. BelowDirs'
  <2>1. \A j \in Active \ {ROOT} : inode[j].parent_id \in Ids \ {id}
    <3>1. \A j \in Ids \ {ROOT} : inode[j].parent_id \in Ids
      BY TableAssumption DEF FsInv, Ordered, Ids
    <3> QED BY <1>2, <3>1, NothingBelow
  <2> QED BY <1>1, <1>2, <2>1 DEF BelowDirs
<1> QED BY <1>3, <1>4, <1>5, LinksByParts

LEMMA WriteKeepsLinks ==
  ASSUME FsInv, LinkedIn(inode), NEW id \in Active, NEW data, fs_write(id, data)
  PROVE  LinkedIn(inode')
<1>1. RootIsDir /\ ListsAgree /\ BelowDirs /\ NamesDiffer
  BY LinksByParts
<1>2. /\ Active' = Active /\ Active \subseteq Ids
      /\ \A j \in Ids : inode'[j].type = inode[j].type /\ inode'[j].parent_id = inode[j].parent_id
  BY WriteLists DEF Active
<1>3. ListsAgree' /\ NamesDiffer'
  BY <1>1, WriteKeepsLists, WriteKeepsNames
<1>4. RootIsDir'
  BY <1>1, <1>2 DEF RootIsDir
<1>5. BelowDirs'
  <2>1. \A j \in Ids \ {ROOT} : inode[j].parent_id \in Ids
    BY TableAssumption DEF FsInv, Ordered, Ids
  <2> QED BY <1>1, <1>2, <2>1 DEF BelowDirs
<1> QED BY <1>3, <1>4, <1>5, LinksByParts

-----------------------------------------------------------------------------
(* What each operation does to the tree: a create adds the inode when the  *)
(* directory is in it, a delete takes the inode out, a write does neither. *)
LEMMA CreateInTree ==
  ASSUME FsInv, NEW d \in Ids, NEW name, NEW type \in {INODE_FILE, INODE_DIR},
         fs_create(d, name, type), NEW id, id = next_inode_id
  PROVE  /\ id \notin InTree(inode)
         /\ InTree(inode') = InTree(inode) \cup (IF d \in InTree(inode) THEN {id} ELSE {})
<1> DEFINE T == InTree(inode)
           S == T \cup (IF d \in T THEN {id} ELSE {})
<1>1. FsInv /\ d \in Ids \ {id} /\ d < id
  BY CreatesBelow
<1>2. /\ id \in Ids \ Active /\ Active' = Active \cup {id}
      /\ inode'[id].parent_id = d
      /\ \A j \in Ids \ {id} : inode'[j].parent_id = inode[j].parent_id
  BY <1>1, CreateLists DEF SameRest
<1>3. IsTable(inode) /\ IsTable(inode')
  BY <1>1, CreateSpares DEF FsInv, DataInv
<1>4. T \subseteq Ids /\ \A j \in Ids : j \in T <=> Belongs(inode, j, T)
  BY <1>3, TreeMembers
<1>5. /\ \A j \in Ids : inode[j].is_active <=> j \in Active
      /\ \A j \in Ids : inode'[j].is_active <=> j \in Active \cup {id}
  BY <1>2 DEF Active
<1>6. id \notin T
  BY <1>2, <1>4, <1>5 DEF Belongs
<1> HIDE DEF T
<1>7. ASSUME NEW j \in Ids PROVE j \in S <=> Belongs(inode', j, S)
  <2>1. CASE j = id
    <3>1. id # ROOT /\ d \in 0 .. id - 1
      BY <1>1, <1>2, TableAssumption DEF Ids, ROOT
    <3> QED BY <1>1, <1>2, <1>5, <1>6, <2>1, <3>1 DEF Belongs
  <2>2. CASE j # id
    <3>1. j \in Active => j < id
      BY <1>1, <2>2 DEF FsInv, SparesInactive, Active
    <3>2. inode[j].is_active /\ inode[j].parent_id \in 0 .. j - 1 => inode[j].parent_id # id
      BY <1>2, <1>5, <3>1, TableAssumption DEF Ids
    <3> QED BY <1>2, <1>4, <1>5, <1>6, <2>2, <3>2 DEF Belongs
  <2> QED BY <2>1, <2>2
<1>8. S \in SUBSET Ids
  BY <1>2, <1>4
<1> HIDE DEF S
<1>9. InTree(inode') = S
  BY <1>3, <1>7, <1>8, TreeUnique
<1> QED BY <1>6, <1>9 DEF S, T

LEMMA DeleteInTree ==
  ASSUME FsInv, LinkedIn(inode), NEW id \in Active, fs_delete(id)
  PROVE  InTree(inode') = InTree(inode) \ {id}
<1> DEFINE T == InTree(inode)
           S == T \ {id}
<1>1. IsTable(inode) /\ IsTable(inode') /\ id \in Ids
  BY DeleteSpares DEF FsInv, DataInv, Active
<1>2. /\ Active' = Active \ {id}
      /\ \A j \in Ids \ {id} : inode'[j].parent_id = inode[j].parent_id
  BY DeleteLists DEF SameRest
<1>3. T \subseteq Ids /\ \A j \in Ids : j \in T <=> Belongs(inode, j, T)
  BY <1>1, TreeMembers
<1>4. /\ \A j \in Ids : inode[j].is_active <=> j \in Active
      /\ \A j \in Ids : inode'[j].is_active <=> j \in Active \ {id}
  BY <1>2 DEF Active
<1>5. \A j \in Active : inode[j].parent_id # id
  BY NothingBelow
<1> HIDE DEF T
<1>6. \A j \in Ids : j \in S <=> Belongs(inode', j, S)
  BY <1>2, <1>3, <1>4, <1>5 DEF Belongs
<1>7. S \in SUBSET Ids
  BY <1>3
<1> HIDE DEF S
<1>8. InTree(inode') = S
  BY <1>1, <1>6, <1>7, TreeUnique
<1> QED BY <1>8 DEF S, T

LEMMA WriteInTree ==
  ASSUME FsInv, NEW id \in Active, NEW data \in Contents, fs_write(id, data)
  PROVE  InTree(inode') = InTree(inode)
<1> DEFINE T == InTree(inode)
<1>1. IsTable(inode) /\ IsTable(inode')
  BY WriteKeepsData DEF FsInv, DataInv, Active
<1>2. Active' = Active /\ \A j \in Ids : inode'[j].parent_id = inode[j].parent_id
  BY WriteLists
<1>3. T \subseteq Ids /\ \A j \in Ids : j \in T <=> Belongs(inode, j, T)
  BY <1>1, TreeMembers
<1>4. \A j \in Ids : inode'[j].is_active <=> inode[j].is_active
  BY <1>2 DEF Active
<1> HIDE DEF T
<1>5. \A j \in Ids : j \in T <=> Belongs(inode', j, T)
  BY <1>2, <1>3, <1>4 DEF Belongs
<1>6. InTree(inode') = T
  BY <1>1, <1>3, <1>5, TreeUnique
<1> QED BY <1>6 DEF T

-----------------------------------------------------------------------------
(* A step on one inode changes what no other file reads back.              *)
LEMMA CreateReads ==
  ASSUME FsInv, NEW d \in Ids, NEW name, NEW type \in {INODE_FILE, INODE_DIR},
         fs_create(d, name, type), NEW id, id = next_inode_id
  PROVE  /\ Read(id)' = <<>>
         /\ \A j \in Active : Read(j)' = Read(j)
<1>1. /\ id \in Ids \ Active /\ Active \subseteq Ids /\ inode'[id].data_offset = NONE
      /\ \A j \in Ids \ {id} : inode'[j].data_offset = inode[j].data_offset
  BY CreateLists DEF SameRest, Active
<1>2. text' = text
  BY DEF fs_create
<1> QED BY <1>1, <1>2 DEF Read, ReadFrom

LEMMA DeleteReads ==
  ASSUME FsInv, NEW id \in Active, fs_delete(id)
  PROVE  \A j \in Active \ {id} : Read(j)' = Read(j)
<1>1. /\ Active \subseteq Ids
      /\ \A j \in Ids \ {id} : inode'[j].data_offset = inode[j].data_offset
  BY DeleteLists DEF SameRest, Active
<1>2. text' = [ptr \in DOMAIN text \ {inode[id].data_offset} |-> text[ptr]]
  BY DEF fs_delete, TextsBut
<1>3. ASSUME NEW j \in Active \ {id}, inode[j].data_offset # NONE
      PROVE  inode[j].data_offset # inode[id].data_offset
  BY <1>3 DEF FsInv, DataInv, FilesOwnBlocks, HasData, Active
<1> QED BY <1>1, <1>2, <1>3 DEF Read, ReadFrom

LEMMA WriteReads ==
  ASSUME FsInv, NEW id \in Active, NEW data \in Contents, fs_write(id, data)
  PROVE  /\ Read(id)' \in {data, <<>>}
         /\ \A j \in Active \ {id} : Read(j)' = Read(j)
<1> DEFINE ptr == Alloc(Freed(id), BytesFor(data)).ptr
           size == IF ptr # NONE THEN BytesFor(data) ELSE 0
           old == inode[id].data_offset
<1>1. /\ inode = [j \in Ids |-> inode[j]] /\ \A j \in Ids : IsInode(inode[j])
      /\ Active \subseteq Ids
  BY DEF FsInv, DataInv, IsTable, Active
<1>2. inode' = [inode EXCEPT ![id].data_offset = ptr, ![id].data_size = size]
  BY DEF fs_write
<1>3. text' = [p \in (DOMAIN text \ {old}) \cup (IF ptr # NONE THEN {ptr} ELSE {}) |->
                 IF p = ptr THEN data ELSE text[p]]
  BY DEF fs_write, TextsBut
<1>4. FsInv' /\ Active' = Active
  BY WriteKeeps, WriteLists DEF Active
<1> HIDE DEF ptr, size, old
<1>5. /\ inode'[id].data_offset = ptr
      /\ \A j \in Ids \ {id} : inode'[j].data_offset = inode[j].data_offset
  BY <1>1, <1>2 DEF IsInode
<1>6. Read(id)' \in {data, <<>>}
  BY <1>3, <1>5 DEF Read, ReadFrom
<1>7. ASSUME NEW j \in Active \ {id}, inode[j].data_offset # NONE
      PROVE  inode[j].data_offset # old /\ inode[j].data_offset # ptr
  <2>1. inode[j].data_offset # old
    BY <1>7 DEF FsInv, DataInv, FilesOwnBlocks, HasData, Active, old
  <2>2. j \in Active' /\ id \in Active' /\ inode'[j].data_offset # NONE
    BY <1>1, <1>4, <1>5, <1>7
  <2>3. inode'[j].data_offset # inode'[id].data_offset
    BY <1>4, <2>2 DEF FsInv, DataInv, FilesOwnBlocks, HasData, Active
  <2> QED BY <1>1, <1>5, <2>1, <2>3
<1>8. \A j \in Active \ {id} : Read(j)' = Read(j)
  BY <1>1, <1>3, <1>5, <1>7 DEF Read, ReadFrom, old
<1> QED BY <1>6, <1>8

-----------------------------------------------------------------------------
(* The nodes and entries of the tree of a table.                           *)

TreeDirs(t) == {id \in InTree(t) : t[id].type = INODE_DIR}

LEMMA NodeFields ==
  ASSUME NEW t, NEW x
  PROVE  /\ DOMAIN NodesIn(t, x) = InTree(t)
         /\ \A id \in InTree(t) :
              NodesIn(t, x)[id] = [name |-> t[id].name, kind |-> t[id].type, content |-> ReadFrom(t, x, id)]
         /\ NodesIn(t, x) = [id \in InTree(t) |-> NodesIn(t, x)[id]]
BY DEF NodesIn

LEMMA EntriesAre ==
  ASSUME NEW t, IsTable(t), LinkedIn(t)
  PROVE  EntriesIn(t) = [id \in TreeDirs(t) |-> ChildrenIn(t, id)]
<1>1. InTree(t) \subseteq ActiveIn(t)
  BY TreeMembers DEF Belongs, ActiveIn
<1>2. \A id \in TreeDirs(t) : ToSet(t[id].children) = ChildrenIn(t, id)
  BY <1>1 DEF TreeDirs, LinkedIn, Enumerates
<1>3. EntriesIn(t) = [id \in TreeDirs(t) |-> ToSet(t[id].children)]
  BY DEF EntriesIn, TreeDirs
<1> QED BY <1>2, <1>3

(* The same about RAM, now and after a step.                               *)
LEMMA TreeNow ==
  ASSUME IsTable(inode), LinkedIn(inode)
  PROVE  /\ InTree(inode) \subseteq Active /\ Active \subseteq Ids
         /\ EntriesIn(inode) = [id \in TreeDirs(inode) |-> ChildrenOf(id)]
<1>1. InTree(inode) \subseteq Active
  BY TreeMembers DEF Belongs, Active
<1>2. \A id : ChildrenOf(id) = ChildrenIn(inode, id)
  BY DEF ChildrenOf, ChildrenIn, Active, ActiveIn
<1> QED BY <1>1, <1>2, EntriesAre DEF Active

LEMMA TreeThen ==
  ASSUME IsTable(inode'), LinkedIn(inode')
  PROVE  /\ InTree(inode') \subseteq Active'
         /\ EntriesIn(inode') = [id \in TreeDirs(inode') |-> ChildrenOf(id)']
<1>1. InTree(inode') \subseteq Active'
  BY TreeMembers DEF Belongs, Active
<1>2. \A id : ChildrenOf(id)' = ChildrenIn(inode', id)
  BY DEF ChildrenOf, ChildrenIn, Active, ActiveIn
<1> QED BY <1>1, <1>2, EntriesAre

(* What is listed in the tree is in the tree.                              *)
LEMMA ChildrenInTree ==
  ASSUME FsInv, NEW d \in InTree(inode), NEW j \in ChildrenOf(d)
  PROVE  j \in InTree(inode) /\ j # ROOT
<1>1. IsTable(inode) /\ j \in Ids /\ inode[j].is_active /\ inode[j].parent_id = d
  BY DEF FsInv, DataInv, ChildrenOf, Active
<1>2. d \in Ids
  BY <1>1, TreeMembers
<1>3. j # ROOT /\ d \in 0 .. j - 1
  BY <1>1, <1>2, TableAssumption DEF FsInv, Ordered, ROOT, NONE, Ids
<1> QED BY <1>1, <1>3, TreeMembers DEF Belongs

SameTree == NodesIn(inode', text') = NodesIn(inode, text) /\ EntriesIn(inode') = EntriesIn(inode)

(* A create in the tree adds a node; one in a directory that was removed   *)
(* cannot be seen.                                                         *)
LEMMA CreateAddsNode ==
  ASSUME ShortNames, FsInv, LinkedIn(inode), NEW d \in Ids, NEW name \in Names,
         NEW type \in {INODE_FILE, INODE_DIR}, fs_create(d, name, type)
  PROVE  Tree!Next \/ SameTree
<1>0. PICK id : id = next_inode_id
  OBVIOUS
<1> DEFINE T == InTree(inode)
           U == InTree(inode')
           nodes == NodesIn(inode, text)
           new_nodes == NodesIn(inode', text')
           lists == EntriesIn(inode)
           new_lists == EntriesIn(inode')
<1>1. FsInv /\ d \in Ids \ {id} /\ inode[d].type = INODE_DIR
  BY <1>0, CreatesBelow
<1>2. /\ id \in Ids \ Active /\ Active' = Active \cup {id}
      /\ inode'[id].name = name /\ inode'[id].type = type /\ inode'[id].parent_id = d
      /\ \A j \in Ids \ {id} : inode'[j].name = inode[j].name /\ inode'[j].type = inode[j].type
  BY <1>0, <1>1, CreateLists DEF SameRest, Stored, ShortNames
<1>3. IsTable(inode) /\ IsTable(inode') /\ LinkedIn(inode')
  BY <1>0, <1>1, CreateSpares, CreateKeepsLinks DEF FsInv, DataInv
<1>4. id \notin T /\ U = T \cup (IF d \in T THEN {id} ELSE {}) /\ T \subseteq Active /\ Active \subseteq Ids
  BY <1>0, <1>3, CreateInTree, TreeNow
<1>5. Read(id)' = <<>> /\ \A j \in Active : Read(j)' = Read(j)
  BY <1>0, <1>1, CreateReads
<1>6. /\ ChildrenOf(d)' = ChildrenOf(d) \cup {id} /\ ChildrenOf(id)' = {}
      /\ \A j \in Ids \ {d, id} : ChildrenOf(j)' = ChildrenOf(j)
  BY <1>0, <1>1, CreateChildren
<1>7. /\ lists = [e \in TreeDirs(inode) |-> ChildrenOf(e)]
      /\ new_lists = [e \in TreeDirs(inode') |-> ChildrenOf(e)']
  BY <1>3, TreeNow, TreeThen
<1>8. /\ DOMAIN nodes = T /\ DOMAIN new_nodes = U
      /\ \A j \in T : nodes[j] = [name |-> inode[j].name, kind |-> inode[j].type, content |-> Read(j)]
      /\ \A j \in U : new_nodes[j] = [name |-> inode'[j].name, kind |-> inode'[j].type, content |-> Read(j)']
      /\ nodes = [j \in T |-> nodes[j]] /\ new_nodes = [j \in U |-> new_nodes[j]]
  BY NodeFields DEF Read
<1> HIDE DEF T, U, nodes, new_nodes, lists, new_lists
<1>9. ASSUME NEW j \in T PROVE j \in U /\ new_nodes[j] = nodes[j] /\ j \in Ids \ {id}
  <2>1. j \in U /\ j \in Active /\ j \in Ids \ {id}
    BY <1>4
  <2>2. inode'[j].name = inode[j].name /\ inode'[j].type = inode[j].type /\ Read(j)' = Read(j)
    BY <1>2, <1>5, <2>1
  <2> QED BY <1>8, <2>1, <2>2
<1>10. CASE d \notin T
  <2>1. U = T /\ new_nodes = nodes
    BY <1>4, <1>8, <1>9, <1>10
  <2>2. TreeDirs(inode') = TreeDirs(inode)
    BY <1>2, <1>9, <2>1 DEF TreeDirs, T, U
  <2>3. \A e \in TreeDirs(inode) : ChildrenOf(e)' = ChildrenOf(e)
    BY <1>6, <1>9, <1>10 DEF TreeDirs, T
  <2>4. new_lists = lists
    BY <1>7, <2>2, <2>3
  <2> QED BY <2>1, <2>4 DEF SameTree, nodes, new_nodes, lists, new_lists
<1>11. CASE d \in T
  <2>1. U = T \cup {id} /\ id \in DOMAIN new_nodes \ DOMAIN nodes
    BY <1>4, <1>8, <1>11
  <2>2. d \in TreeDirs(inode) /\ d \in DOMAIN lists
    BY <1>1, <1>7, <1>11 DEF TreeDirs, T
  <2>3. TreeDirs(inode') = {m \in DOMAIN new_nodes : new_nodes[m].kind = INODE_DIR}
    BY <1>8 DEF TreeDirs, U
  <2>4. ASSUME NEW m \in lists[d] PROVE nodes[m].name # new_nodes[id].name
    <3>1. m \in ChildrenOf(d) /\ d \in InTree(inode)
      BY <1>7, <1>11, <2>2 DEF T
    <3>2. m \in T /\ m # ROOT
      BY <1>1, <3>1, ChildrenInTree DEF T
    <3>3. m \in Active' /\ id \in Active' /\ d \in Active' /\ m # id
      BY <1>2, <1>4, <1>11, <3>2
    <3>4. inode'[m].parent_id = d
      <4>1. m \in ChildrenOf(d)'
        BY <1>6, <3>1
      <4> QED BY <4>1 DEF ChildrenOf
    <3>5. NamesDiffer' /\ id # ROOT
      BY <1>2, <1>3, LinksByParts DEF RootIsDir
    <3>6. inode'[m].name # inode'[id].name
      BY <1>2, <3>2, <3>3, <3>4, <3>5 DEF NamesDiffer
    <3>7. new_nodes[m] = nodes[m] /\ m \in U /\ id \in U
      BY <1>9, <2>1, <3>2
    <3>8. new_nodes[m].name = inode'[m].name /\ new_nodes[id].name = inode'[id].name
      BY <1>8, <3>7
    <3> QED BY <3>6, <3>7, <3>8
  <2>5. new_nodes[id].content = <<>> /\ new_nodes[id].kind \in {INODE_DIR, INODE_FILE}
    <3>1. new_nodes[id] = [name |-> inode'[id].name, kind |-> inode'[id].type, content |-> Read(id)']
      BY <1>8, <2>1
    <3>2. new_nodes[id].content = Read(id)' /\ new_nodes[id].kind = inode'[id].type
      BY <3>1
    <3> QED BY <1>2, <1>5, <3>2
  <2>6. new_lists = [e \in {m \in DOMAIN new_nodes : new_nodes[m].kind = INODE_DIR} |->
                       IF e = id THEN {} ELSE IF e = d THEN lists[d] \cup {id} ELSE lists[e]]
    <3>1. ASSUME NEW e \in TreeDirs(inode')
          PROVE  ChildrenOf(e)' = IF e = id THEN {} ELSE IF e = d THEN lists[d] \cup {id} ELSE lists[e]
      <4>1. e \in T \cup {id}
        BY <2>1 DEF TreeDirs, U
      <4>2. CASE e \in T
        <5>1. e \in Ids \ {id} /\ e \in TreeDirs(inode)
          BY <1>2, <1>9, <4>2 DEF TreeDirs, T
        <5>2. lists[e] = ChildrenOf(e) /\ lists[d] = ChildrenOf(d)
          BY <1>7, <2>2, <5>1
        <5> QED BY <1>6, <5>1, <5>2
      <4>3. CASE e = id
        BY <1>6, <4>3
      <4> QED BY <4>1, <4>2, <4>3
    <3> QED BY <1>7, <2>3, <3>1
  <2>7. DOMAIN new_nodes = DOMAIN nodes \cup {id} /\ \A m \in DOMAIN nodes : new_nodes[m] = nodes[m]
    BY <1>8, <1>9, <2>1
  <2> QED BY <2>1, <2>2, <2>4, <2>5, <2>6, <2>7
          DEF Tree!Next, Tree!Add, Tree!Kinds, nodes, new_nodes, lists, new_lists
<1> QED BY <1>10, <1>11

(* A delete in the tree discards a leaf.                                   *)
LEMMA DeleteDiscardsNode ==
  ASSUME FsInv, LinkedIn(inode), NEW id \in Active, fs_delete(id)
  PROVE  Tree!Next \/ SameTree
<1> DEFINE T == InTree(inode)
           U == InTree(inode')
           d == inode[id].parent_id
           nodes == NodesIn(inode, text)
           new_nodes == NodesIn(inode', text')
           lists == EntriesIn(inode)
           new_lists == EntriesIn(inode')
<1>1. /\ Active' = Active \ {id} /\ id \in Ids /\ id # ROOT
      /\ inode[id].type = INODE_DIR => inode[id].children = <<>>
      /\ \A j \in Ids \ {id} : inode'[j].name = inode[j].name /\ inode'[j].type = inode[j].type
  BY DeleteLists DEF SameRest, Active, fs_delete, MayDelete
<1>2. IsTable(inode) /\ IsTable(inode') /\ LinkedIn(inode')
  BY <1>1, DeleteSpares, DeleteKeepsLinks DEF FsInv, DataInv
<1>3. U = T \ {id} /\ T \subseteq Active /\ Active \subseteq Ids
  BY <1>2, DeleteInTree, TreeNow
<1>4. \A j \in Active \ {id} : Read(j)' = Read(j)
  BY DeleteReads
<1>5. \A j : ChildrenOf(j)' = ChildrenOf(j) \ {id}
  BY DeleteChildren
<1>6. /\ lists = [e \in TreeDirs(inode) |-> ChildrenOf(e)]
      /\ new_lists = [e \in TreeDirs(inode') |-> ChildrenOf(e)']
  BY <1>2, TreeNow, TreeThen
<1>7. /\ DOMAIN nodes = T /\ DOMAIN new_nodes = U
      /\ \A j \in T : nodes[j] = [name |-> inode[j].name, kind |-> inode[j].type, content |-> Read(j)]
      /\ \A j \in U : new_nodes[j] = [name |-> inode'[j].name, kind |-> inode'[j].type, content |-> Read(j)']
      /\ nodes = [j \in T |-> nodes[j]] /\ new_nodes = [j \in U |-> new_nodes[j]]
  BY NodeFields DEF Read
<1>8. \A e \in TreeDirs(inode) : e # d => id \notin ChildrenOf(e)
  BY DEF ChildrenOf
<1>9. TreeDirs(inode') = TreeDirs(inode) \ {id} /\ TreeDirs(inode) \subseteq T
  BY <1>1, <1>3 DEF TreeDirs, T, U
<1>10. id \in T => d \in T /\ inode[d].type = INODE_DIR /\ d # id /\ id \in ChildrenOf(d)
  <2> SUFFICES ASSUME id \in T
               PROVE  d \in T /\ inode[d].type = INODE_DIR /\ d # id /\ id \in ChildrenOf(d)
    OBVIOUS
  <2>1. Belongs(inode, id, T)
    BY <1>1, <1>2, TreeMembers DEF T
  <2>2. d \in 0 .. id - 1 /\ d \in T
    BY <1>1, <2>1 DEF Belongs
  <2>3. inode[d].type = INODE_DIR
    BY <1>1, LinksByParts DEF BelowDirs
  <2> QED BY <1>1, <2>2, <2>3, TableAssumption DEF ChildrenOf, Ids
<1>11. \A j \in Active : inode[j].parent_id # id
  BY NothingBelow
<1> HIDE DEF T, U, d, nodes, new_nodes, lists, new_lists
<1>12. ASSUME NEW j \in U PROVE j \in T /\ new_nodes[j] = nodes[j]
  <2>1. j \in T /\ j \in Active \ {id} /\ j \in Ids \ {id}
    BY <1>3
  <2>2. inode'[j].name = inode[j].name /\ inode'[j].type = inode[j].type /\ Read(j)' = Read(j)
    BY <1>1, <1>4, <2>1
  <2> QED BY <1>7, <2>1, <2>2
<1>13. CASE id \notin T
  <2>1. U = T /\ new_nodes = nodes
    BY <1>3, <1>7, <1>12, <1>13
  <2>2. TreeDirs(inode') = TreeDirs(inode)
    BY <1>9, <1>13
  <2>3. \A e \in TreeDirs(inode) : id \notin ChildrenOf(e)
    BY <1>9, <1>13, ChildrenInTree DEF T
  <2>4. new_lists = lists
    BY <1>5, <1>6, <2>2, <2>3
  <2> QED BY <2>1, <2>4 DEF SameTree, nodes, new_nodes, lists, new_lists
<1>14. CASE id \in T
  <2>1. d \in TreeDirs(inode) /\ lists[d] = ChildrenOf(d) /\ id \in lists[d] \ {ROOT}
    BY <1>1, <1>6, <1>10, <1>14 DEF TreeDirs, T
  <2>2. nodes[id].kind = INODE_DIR => lists[id] = {}
    <3>1. ChildrenOf(id) = {}
      BY <1>11 DEF ChildrenOf
    <3>2. nodes[id].kind = INODE_DIR => id \in TreeDirs(inode)
      BY <1>7, <1>14 DEF TreeDirs, T
    <3> QED BY <1>6, <3>1, <3>2
  <2>3. new_nodes = [m \in DOMAIN nodes \ {id} |-> nodes[m]]
    BY <1>3, <1>7, <1>12
  <2>4. new_lists = [e \in DOMAIN lists \ {id} |-> IF e = d THEN lists[d] \ {id} ELSE lists[e]]
    BY <1>5, <1>6, <1>8, <1>9, <2>1
  <2>5. id \in DOMAIN nodes \ DOMAIN new_nodes /\ d \in DOMAIN lists
    BY <1>3, <1>6, <1>7, <1>14, <2>1
  <2> QED BY <2>1, <2>2, <2>3, <2>4, <2>5
          DEF Tree!Next, Tree!Discard, nodes, new_nodes, lists, new_lists
<1> QED BY <1>13, <1>14

(* A write in the tree overwrites a file, with nothing when it is refused. *)
LEMMA WriteOverwritesNode ==
  ASSUME FsInv, LinkedIn(inode), NEW id \in Active, NEW data \in Contents, fs_write(id, data)
  PROVE  Tree!Next \/ SameTree
<1> DEFINE T == InTree(inode)
           nodes == NodesIn(inode, text)
           new_nodes == NodesIn(inode', text')
           lists == EntriesIn(inode)
           new_lists == EntriesIn(inode')
<1>1. /\ Active' = Active /\ id \in Ids /\ inode[id].type = INODE_FILE
      /\ \A j \in Ids : /\ inode'[j].name = inode[j].name /\ inode'[j].type = inode[j].type
                        /\ inode'[j].parent_id = inode[j].parent_id
  BY WriteLists DEF Active, fs_write
<1>2. IsTable(inode) /\ IsTable(inode') /\ LinkedIn(inode')
  BY <1>1, WriteKeepsData, WriteKeepsLinks DEF FsInv, DataInv
<1>3. InTree(inode') = T /\ T \subseteq Active /\ Active \subseteq Ids
  BY <1>2, WriteInTree, TreeNow
<1>4. Read(id)' \in {data, <<>>} /\ \A j \in Active \ {id} : Read(j)' = Read(j)
  BY WriteReads
<1>5. /\ DOMAIN nodes = T /\ DOMAIN new_nodes = T
      /\ \A j \in T : nodes[j] = [name |-> inode[j].name, kind |-> inode[j].type, content |-> Read(j)]
      /\ \A j \in T : new_nodes[j] = [name |-> inode'[j].name, kind |-> inode'[j].type, content |-> Read(j)']
      /\ nodes = [j \in T |-> nodes[j]] /\ new_nodes = [j \in T |-> new_nodes[j]]
  BY <1>3, NodeFields DEF Read
<1>6. new_lists = lists
  <2>1. \A e : ChildrenOf(e)' = ChildrenOf(e)
    BY <1>1, <1>3 DEF ChildrenOf
  <2>2. TreeDirs(inode') = TreeDirs(inode)
    BY <1>1, <1>3 DEF TreeDirs, T
  <2> QED BY <1>2, <2>1, <2>2, TreeNow, TreeThen
<1> HIDE DEF T, nodes, new_nodes, lists, new_lists
<1>7. ASSUME NEW j \in T
      PROVE  new_nodes[j] = [nodes[j] EXCEPT !.content = Read(j)'] /\ (j # id => new_nodes[j] = nodes[j])
  <2>1. j \in Ids /\ (j # id => Read(j)' = Read(j))
    BY <1>3, <1>4
  <2> QED BY <1>1, <1>5, <2>1
<1>8. CASE id \notin T
  BY <1>5, <1>6, <1>7, <1>8 DEF SameTree, nodes, new_nodes, lists, new_lists
<1>9. CASE id \in T
  <2>1. PICK content \in Contents \cup {<<>>} : Read(id)' = content
    BY <1>4
  <2>2. new_nodes = [nodes EXCEPT ![id].content = content]
    BY <1>5, <1>7, <1>9, <2>1
  <2>3. nodes[id].kind = INODE_FILE /\ id \in DOMAIN nodes
    BY <1>1, <1>5, <1>9
  <2> QED BY <1>6, <2>2, <2>3
          DEF Tree!Next, Tree!Overwrite, nodes, new_nodes, lists, new_lists
<1> QED BY <1>8, <1>9

(* A table that is linked is a tree as TreeSpec asks for.                  *)
LEMMA LinkedTree ==
  ASSUME FsInv, LinkedIn(inode)
  PROVE  Tree!IsTree
<1> DEFINE T == InTree(inode)
           nodes == NodesIn(inode, text)
           lists == EntriesIn(inode)
<1>1. RootIsDir /\ ListsAgree /\ BelowDirs /\ NamesDiffer
  BY LinksByParts
<1>2. /\ IsTable(inode) /\ T \subseteq Active /\ Active \subseteq Ids
      /\ lists = [id \in TreeDirs(inode) |-> ChildrenOf(id)]
  BY TreeNow DEF FsInv, DataInv
<1>3. \A id \in Ids : id \in T <=> Belongs(inode, id, T)
  BY <1>2, TreeMembers
<1>4. /\ DOMAIN nodes = T
      /\ \A n \in T : nodes[n].kind = inode[n].type /\ nodes[n].name = inode[n].name
  BY DEF NodesIn
<1>5. TreeDirs(inode) = {d \in T : inode[d].type = INODE_DIR}
  BY DEF TreeDirs
<1> HIDE DEF T, nodes, lists
<1>6. ROOT \in T
  BY <1>1, <1>2, <1>3 DEF RootIsDir, Active, Belongs
<1>7. \A n \in DOMAIN nodes : nodes[n].kind \in {INODE_DIR, INODE_FILE}
  BY <1>2, <1>4 DEF IsTable, IsInode
<1>8. DOMAIN lists = {d \in DOMAIN nodes : nodes[d].kind = INODE_DIR}
  BY <1>2, <1>4, <1>5
<1>9. ASSUME NEW n \in T \ {ROOT}
      PROVE  \E d \in DOMAIN lists : n \in lists[d] /\ \A e \in DOMAIN lists \ {d} : n \notin lists[e]
  <2>1. n \in Active /\ inode[n].parent_id \in T
    BY <1>2, <1>3 DEF Belongs
  <2>2. inode[n].parent_id \in TreeDirs(inode)
    BY <1>1, <1>5, <2>1 DEF BelowDirs
  <2> QED BY <1>2, <2>1, <2>2 DEF ChildrenOf
<1>10. ASSUME NEW d \in DOMAIN lists, NEW m \in T, NEW n \in T, m \in lists[d], n \in lists[d],
              nodes[m].name = nodes[n].name
       PROVE  m = n
  <2>1. /\ d \in T /\ m \in ChildrenOf(d) /\ n \in ChildrenOf(d)
        /\ inode[m].name = inode[n].name
    BY <1>2, <1>4, <1>5, <1>10
  <2>2. m # ROOT /\ n # ROOT
    BY <2>1, ChildrenInTree DEF T
  <2> QED BY <1>1, <1>2, <2>1, <2>2 DEF ChildrenOf, NamesDiffer
<1> QED BY <1>4, <1>6, <1>7, <1>8, <1>9, <1>10 DEF Tree!IsTree, Tree!Kinds, nodes, lists

-----------------------------------------------------------------------------
(* The inductive invariant of the tree.                                    *)
TreeInv == FsInv /\ LinkedIn(inode)

LEMMA TreeInvInit == FsInit => TreeInv
BY InvInit, DefaultListings, DefaultParents, LinksByParts DEF TreeInv

LEMMA TreeInvNext ==
  ASSUME ShortNames
  PROVE  TreeInv /\ [Next]_fsvars => TreeInv'
<1> SUFFICES ASSUME TreeInv, [Next]_fsvars PROVE TreeInv'
  OBVIOUS
<1>1. FsInv /\ FsInv' /\ LinkedIn(inode)
  BY InvNext DEF TreeInv
<1>2. CASE UNCHANGED fsvars
  BY <1>1, <1>2 DEF TreeInv, fsvars
<1>3. CASE Next
  <2>1. LinkedIn(inode')
    BY <1>1, <1>3, CreateKeepsLinks, DeleteKeepsLinks, WriteKeepsLinks DEF Next
  <2> QED BY <1>1, <2>1 DEF TreeInv
<1> QED BY <1>2, <1>3

(* An active inode is found in an active parent by its name.               *)
LEMMA FoundByName ==
  ASSUME FsInv, LinkedIn(inode), NEW i \in Active \ {ROOT}, inode[i].parent_id \in Active
  PROVE  FindChild(inode[i].parent_id, inode[i].name) = i
<1> DEFINE d == inode[i].parent_id
<1>0. ListsAgree /\ BelowDirs /\ NamesDiffer
  BY LinksByParts
<1>1. d \in Active /\ d \in Ids /\ i \in ToSet(inode[d].children) /\ inode[d].type = INODE_DIR
  BY <1>0 DEF BelowDirs, ListsAgree, Enumerates, ChildrenOf, Active
<1>2. \A j \in ToSet(inode[d].children) : inode[j].name = inode[i].name => j = i
  <2>1. inode[ROOT].parent_id = NONE /\ NONE \notin Ids
    BY TableAssumption DEF FsInv, Ordered, ROOT, NONE, Ids
  <2> QED BY <1>0, <1>1, <2>1 DEF ListsAgree, Enumerates, ChildrenOf, NamesDiffer
<1>3. IsTable(inode) /\ inode[i].is_active
  BY DEF FsInv, DataInv, Active
<1> HIDE DEF d
<1>4. FindChild(d, inode[i].name) = i
  BY <1>1, <1>2, <1>3, FindsTheChild
<1> QED BY <1>4 DEF d

(* So the names of the path of an inode of the tree lead to it.            *)
LEMMA PathLeadsBack ==
  ASSUME FsInv, LinkedIn(inode), NEW id \in InTree(inode)
  PROVE  Resolve(Path(id)) = id
<1>1. IsTable(inode) /\ Ordered
  BY DEF FsInv, DataInv
<1>2. InTree(inode) \in SUBSET Ids /\ InTree(inode) \subseteq Active
  BY <1>1, TreeMembers, TreeNow
<1>3. ASSUME NEW i \in InTree(inode) \ {ROOT}
      PROVE  /\ inode[i].parent_id \in InTree(inode)
             /\ FindChild(inode[i].parent_id, inode[i].name) = i
  <2>1. inode[i].parent_id \in InTree(inode)
    BY <1>1, <1>2, TreeMembers DEF Belongs
  <2> QED BY <1>2, <2>1, FoundByName
<1> QED BY <1>1, <1>2, <1>3, NamesLeadBack

(* fs_get_path and fs_find_child agree: the names that are printed for an  *)
(* inode of the tree lead from the root to that inode, after every         *)
(* history, creates under deleted directories included.                    *)
THEOREM PathsLeadBack ==
  ASSUME ShortNames
  PROVE  Spec => []PathsResolve
<1>1. TreeInv => PathsResolve
  BY PathLeadsBack DEF TreeInv, PathsResolve
<1> QED BY <1>1, TreeInvInit, TreeInvNext, PTL DEF Spec

(* When the names fit their field, the inode table, the block chain and    *)
(* the texts implement the tree that callers see: what one operation does  *)
(* to one inode shows in no other, what is created under a deleted         *)
(* directory does not show, and a name is found again.                     *)
THEOREM ImplementingTree ==
  ASSUME ShortNames
  PROVE  Spec => ImplementsTree
<1>1. FsInit => TreeInv /\ Tree!Init
  BY TreeInvInit, LinkedTree DEF TreeInv, Tree!Init
<1>2. TreeInv /\ [Next]_fsvars => TreeInv'
  BY TreeInvNext
<1>3. TreeInv /\ [Next]_fsvars => [Tree!Next]_(Tree!vars)
  <2> SUFFICES ASSUME TreeInv, [Next]_fsvars PROVE Tree!Next \/ UNCHANGED Tree!vars
    OBVIOUS
  <2>1. CASE Next
    <3>1. Tree!Next \/ SameTree
      BY <2>1, CreateAddsNode, DeleteDiscardsNode, WriteOverwritesNode DEF Next, TreeInv
    <3> QED BY <3>1 DEF SameTree, Tree!vars
  <2>2. CASE UNCHANGED fsvars
    BY <2>2 DEF fsvars, Tree!vars
  <2> QED BY <2>1, <2>2
<1> QED BY <1>1, <1>2, <1>3, PTL DEF Spec, ImplementsTree, Tree!Spec
=============================================================================
