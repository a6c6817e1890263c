----------------------------- MODULE FileSystem -----------------------------
(***************************************************************************)
(* core/fs.c: the inode table at the bottom of VIRTUAL_RAM, the block      *)
(* chain of libs/memory.c above it, and the static counter next_inode_id,  *)
(* which lives outside VIRTUAL_RAM.                                        *)
(*                                                                         *)
(* A name and a content are sequences whose elements stand for runs of     *)
(* characters.  An inode's children array is the sequence of its first     *)
(* child_count entries; its id field is the index of its slot.             *)
(***************************************************************************)
EXTENDS BlockChain, SequencesExt

CONSTANTS
  MAX_INODES, MAX_CHILDREN,
  MAX_NAME_LEN,         \* size of the name field
  Names,                \* names typed at the shell
  Contents              \* texts written to files

ASSUME TableAssumption ==
  /\ MAX_INODES \in Nat /\ MAX_INODES >= 6
  /\ MAX_CHILDREN \in Nat /\ MAX_CHILDREN >= 4
  /\ MAX_NAME_LEN \in Nat \ {0}

ASSUME TextAssumption == \A data \in Contents : Len(data) \in Nat

VARIABLES
  inode,                \* the inode table
  next_inode_id,        \* first slot create_inode has not handed out
  chain,                \* the block headers of the data region
  text                  \* text[ptr]: the string copied to the block at ptr

fsvars == <<inode, next_inode_id, chain, text>>

INODE_FILE == 0
INODE_DIR  == 1
Ids  == 0 .. MAX_INODES - 1
ROOT == 0

Garbage == <<"garbage">>   \* bytes nobody wrote as a string

-----------------------------------------------------------------------------
(* create_inode *)

(* strcpy puts the whole name at the name field; the fields after it are   *)
(* then assigned, and the first byte of the first of them, type, is the    *)
(* terminator of a file's name that fills the field, and a 1 that follows  *)
(* a directory's.                                                          *)
SOH == "SOH"
Stored(name, type) ==
  IF Len(name) < MAX_NAME_LEN THEN name
  ELSE SubSeq(name, 1, MAX_NAME_LEN) \o (IF type = INODE_DIR THEN <<SOH>> ELSE <<>>)

NewInode(name, type, parent_id) ==
  [name |-> Stored(name, type), type |-> type, parent_id |-> parent_id,
   children |-> <<>>, data_offset |-> NONE, data_size |-> 0, is_active |-> TRUE]

(* A slot of the zeroed table: an inactive file whose parent is the root   *)
(* and whose data_offset is 0, not -1.                                     *)
ZeroInode ==
  [name |-> <<>>, type |-> INODE_FILE, parent_id |-> ROOT,
   children |-> <<>>, data_offset |-> 0, data_size |-> 0, is_active |-> FALSE]

-----------------------------------------------------------------------------
(* fs_init *)

(* Name, parent and children of the six default directories. *)
DefaultTree ==
  << [name |-> <<"/">>,       parent_id |-> NONE, children |-> <<1, 2, 4, 5>>],
     [name |-> <<"bin">>,     parent_id |-> 0,    children |-> <<>>],
     [name |-> <<"home">>,    parent_id |-> 0,    children |-> <<3>>],
     [name |-> <<"chandan">>, parent_id |-> 2,    children |-> <<>>],
     [name |-> <<"tmp">>,     parent_id |-> 0,    children |-> <<>>],
     [name |-> <<"sys">>,     parent_id |-> 0,    children |-> <<>>] >>

DefaultInode(d) ==
  [name |-> d.name, type |-> INODE_DIR, parent_id |-> d.parent_id, children |-> d.children,
   data_offset |-> NONE, data_size |-> 0, is_active |-> TRUE]

FormattedTable ==
  [id \in Ids |-> IF id < Len(DefaultTree) THEN DefaultInode(DefaultTree[id + 1]) ELSE ZeroInode]

FsInit ==
  /\ inode = FormattedTable
  /\ next_inode_id = Len(DefaultTree)
  /\ chain = FreshChain
  /\ text = [ptr \in {} |-> <<>>]

-----------------------------------------------------------------------------
(* fs_find_child, fs_read, fs_list, fs_get_path: what they return *)

IsNamed(id, name) == id \in Ids /\ inode[id].is_active /\ inode[id].name = name

FindChild_MissesLast(parent_id, name) ==
  IF parent_id \in Ids /\ inode[parent_id].type = INODE_DIR
  THEN LET children == inode[parent_id].children
           at == SelectInSeq(children, LAMBDA id : IsNamed(id, name))
       IN IF at \in {0, Len(children)} THEN NONE ELSE children[at]
  ELSE NONE
FindChild(parent_id, name) ==
  IF parent_id \in Ids /\ inode[parent_id].type = INODE_DIR
  THEN LET children == inode[parent_id].children
           at == SelectInSeq(children, LAMBDA id : IsNamed(id, name))
       IN IF at = 0 THEN NONE ELSE children[at]
  ELSE NONE

(* The string fs_read copies out of an active file. *)
ReadFrom(table, data, id) ==
  LET ptr == table[id].data_offset
  IN IF ptr = NONE THEN <<>> ELSE IF ptr \in DOMAIN data THEN data[ptr] ELSE Garbage
Read(id) == ReadFrom(inode, text, id)

(* The entries fs_list shows of a directory, by their places in its list.  *)
Listed(dir_id) ==
  LET children == inode[dir_id].children
      IsShown(id) == id \in Ids /\ inode[id].is_active
  IN [k \in {i \in DOMAIN children : IsShown(children[i])} |-> children[k]]

(* The loop of fs_get_path: Up(id)[n] is where it stands after n rounds.   *)
ParentOf(id) == IF id \in Ids THEN inode[id].parent_id ELSE id

Up(id) ==
  LET at[n \in 0 .. MAX_INODES] == IF n = 0 THEN id ELSE ParentOf(at[n - 1])
  IN at

(* stack[] has MAX_INODES entries; a walk that has filled them all and is  *)
(* still at an inode writes past its end.                                  *)
PathFits(id) == Up(id)[MAX_INODES] \notin Ids

(* The names on the path from below the root down to id. *)
Path(id) ==
  LET up == Up(id)
      depth == Cardinality({n \in 0 .. MAX_INODES : up[n] \in Ids \ {ROOT}})
  IN [k \in 1 .. depth |-> inode[up[depth - k]].name]

(* The bytes fs_get_path writes: the root's slash, the names with slashes  *)
(* between them, and the terminator.                                       *)
PathBytes(id) ==
  LET names == Path(id)
      bytes[k \in 0 .. Len(names)] == IF k = 0 THEN 1 ELSE bytes[k - 1] + Len(names[k]) + 1
  IN IF names = <<>> THEN 2 ELSE bytes[Len(names)]

-----------------------------------------------------------------------------
(* fs_create, fs_delete, fs_write *)

(* The slot for a new inode: never one that was deleted. *)
FreshSlot_Recycled ==
  IF \E id \in 0 .. next_inode_id - 1 : ~inode[id].is_active
  THEN CHOOSE id \in 0 .. next_inode_id - 1 : ~inode[id].is_active
  ELSE next_inode_id
FreshSlot_LastUsed == next_inode_id - 1
FreshSlot == next_inode_id

IsFull_OffByOne(parent_id) == Len(inode[parent_id].children) > MAX_CHILDREN
IsFull(parent_id) == Len(inode[parent_id].children) >= MAX_CHILDREN

(* The children arrays of a table are only written through these two. *)
Link(table, parent_id, id) ==
  [table EXCEPT ![parent_id].children = Append(@, id)]

Unlink_Last(table, parent_id, id) ==
  IF parent_id \in Ids THEN [table EXCEPT ![parent_id].children = Front(@)] ELSE table
Unlink(table, parent_id, id) ==
  IF parent_id \in Ids THEN [table EXCEPT ![parent_id].children = RemoveFirst(@, id)] ELSE table

fs_create(parent_id, name, type) ==
  /\ inode[parent_id].type = INODE_DIR
  /\ ~IsFull(parent_id)
  /\ FindChild(parent_id, name) = NONE
  /\ next_inode_id < MAX_INODES
  /\ inode' = Link([inode EXCEPT ![FreshSlot] = NewInode(name, type, parent_id)],
                   parent_id, FreshSlot)
  /\ next_inode_id' = next_inode_id + 1
  /\ UNCHANGED <<chain, text>>

(* The chain and the texts once the block of an inode has been freed. *)
Freed_Forgotten(id) == chain
Freed(id) ==
  LET ptr == inode[id].data_offset
  IN IF ptr = NONE THEN chain ELSE Dealloc(chain, ptr)

TextsBut(id) == [ptr \in DOMAIN text \ {inode[id].data_offset} |-> text[ptr]]

MarkDeleted(table, id) ==
  [table EXCEPT ![id].is_active = FALSE, ![id].name = <<>>,
                ![id].data_offset = NONE, ![id].data_size = 0]

MayDelete_NonEmpty(id) == inode[id].is_active /\ id # ROOT
MayDelete(id) ==
  /\ inode[id].is_active
  /\ id # ROOT
  /\ ~(inode[id].type = INODE_DIR /\ inode[id].children # <<>>)

fs_delete(id) ==
  /\ MayDelete(id)
  /\ chain' = Freed(id)
  /\ text' = TextsBut(id)
  /\ inode' = MarkDeleted(Unlink(inode, inode[id].parent_id, id), id)
  /\ UNCHANGED next_inode_id

(* One byte more than the text, for its terminator. *)
BytesFor(data) == Len(data) + 1

(* The old block is freed before the new one is asked for, so a refused    *)
(* request leaves the file empty.                                          *)
fs_write(id, data) ==
  LET got == Alloc(Freed(id), BytesFor(data))
      stored == got.ptr # NONE
  IN /\ inode[id].is_active
     /\ inode[id].type = INODE_FILE
     /\ chain' = got.chain
     /\ text' = [ptr \in DOMAIN TextsBut(id) \cup (IF stored THEN {got.ptr} ELSE {}) |->
                   IF ptr = got.ptr THEN data ELSE text[ptr]]
     /\ inode' = [inode EXCEPT ![id].data_offset = got.ptr,
                               ![id].data_size = IF stored THEN BytesFor(data) ELSE 0]
     /\ UNCHANGED next_inode_id

-----------------------------------------------------------------------------
(* The file system under any caller.  fs_delete and fs_write check that    *)
(* the inode is in use; fs_create does not check it of the parent, so a    *)
(* directory that was deleted still takes entries.                         *)

Active == {id \in Ids : inode[id].is_active}

Next ==
  \/ \E parent_id \in Ids, name \in Names, type \in {INODE_FILE, INODE_DIR} :
       fs_create(parent_id, name, type)
  \/ \E id \in Active : fs_delete(id)
  \/ \E id \in Active, data \in Contents : fs_write(id, data)

Spec == FsInit /\ [][Next]_fsvars

-----------------------------------------------------------------------------
(* Every slot, the counter, the chain and the texts are in range.          *)
(* (create_inode, fs_write, fs_delete)                                     *)
TypeOK ==
  /\ DOMAIN inode = Ids
  /\ \A id \in Ids :
       /\ inode[id].type \in {INODE_FILE, INODE_DIR}
       /\ inode[id].parent_id \in Ids \cup {NONE}
       /\ Len(inode[id].children) <= MAX_CHILDREN
       /\ ToSet(inode[id].children) \subseteq Ids
       /\ inode[id].data_offset \in Nat \cup {NONE}
       /\ inode[id].data_size \in Nat
       /\ inode[id].is_active \in BOOLEAN
  /\ next_inode_id \in 0 .. MAX_INODES
  /\ IsChain(chain)
  /\ DOMAIN text \subseteq Offsets

HasData(id) == inode[id].is_active /\ inode[id].data_offset # NONE

(* The blocks tile the data region under every use that the file system    *)
(* makes of them.  (fs_write, fs_delete)                                   *)
ChainTiles == Tiles(chain)

(* Every active file with data has a block in use of its own, large enough *)
(* for what data_size says and the string in it, and directories have      *)
(* none: nothing is shared and nothing dangles.  (fs_write, fs_delete)     *)
DataBlocksExclusive ==
  /\ \A id \in Ids : HasData(id) =>
       LET o == inode[id].data_offset - BLOCK_HEADER_SIZE
       IN /\ o \in DOMAIN chain /\ ~chain[o].is_free
          /\ inode[id].type = INODE_FILE
          /\ inode[id].data_size <= chain[o].size
          /\ BytesFor(Read(id)) = inode[id].data_size
  /\ \A i, j \in Ids : HasData(i) /\ HasData(j)
                       /\ inode[i].data_offset = inode[j].data_offset => i = j

(* Every block in use is the data block of an active file, however writes  *)
(* fail and whatever is deleted: nothing leaks.  (fs_write, fs_delete)     *)
NothingLeaks ==
  \A o \in DOMAIN chain : ~chain[o].is_free =>
    \E id \in Ids : HasData(id) /\ inode[id].data_offset = o + BLOCK_HEADER_SIZE

(* Parents come before their children in the table, so the walk of         *)
(* fs_get_path always ends, within the stack it has.  (fs_get_path)        *)
ParentsComeFirst ==
  \A id \in Ids : inode[id].is_active =>
    /\ IF id = ROOT THEN inode[id].parent_id = NONE ELSE inode[id].parent_id \in 0 .. id - 1
    /\ PathFits(id)

(* Two children of a directory never have the same name: the check of      *)
(* fs_create (fs.c:152) is meant to see to it.                             *)
SiblingNamesUnique ==
  \A d \in Active : \A i, j \in DOMAIN inode[d].children :
    inode[inode[d].children[i]].name = inode[inode[d].children[j]].name => i = j

(* The tree in an inode table: what has a path of active directories.      *)
InTree(table) ==
  LET in[id \in Ids] ==
        /\ table[id].is_active
        /\ id # ROOT => table[id].parent_id \in 0 .. id - 1 /\ in[table[id].parent_id]
  IN {id \in Ids : in[id]}

(* fs_get_path and fs_find_child agree: following the names of the path    *)
(* that is printed for an inode of the tree from the root, one             *)
(* fs_find_child each, leads to it, also when there are inodes in use that *)
(* are not in the tree, under directories that were deleted.               *)
Resolve(path) ==
  LET at[k \in 0 .. Len(path)] == IF k = 0 THEN ROOT ELSE FindChild(at[k - 1], path[k])
  IN at[Len(path)]

PathsResolve == \A id \in InTree(inode) : Resolve(Path(id)) = id

(* ls shows what is there, once each: the active inodes whose parent the   *)
(* directory is, whatever was removed from the middle of its children.     *)
(* (fs_list)                                                               *)
ListingsComplete ==
  \A d \in Active : inode[d].type = INODE_DIR =>
    /\ Range(Listed(d)) = {id \in Active : inode[id].parent_id = d}
    /\ IsInjective(Listed(d))

(* Known issue 1 of the README: a slot once handed out and deleted is not  *)
(* handed out again.  (next_inode_id only increments)                      *)
DeletedStaysDeleted ==
  [][\A id \in Ids : id < next_inode_id /\ ~inode[id].is_active => ~inode'[id].is_active]_fsvars

(* The tree that a table stands for: its inodes with what they read back,  *)
(* its directories with what they list.                                    *)
NodesIn(table, data) ==
  [id \in InTree(table) |-> [name |-> table[id].name, kind |-> table[id].type,
                             content |-> ReadFrom(table, data, id)]]

EntriesIn(table) ==
  [id \in {i \in InTree(table) : table[i].type = INODE_DIR} |-> ToSet(table[id].children)]

(* The file system is the tree that callers see, files included: what is   *)
(* done to one inode shows in no other, and what is done under a deleted   *)
(* directory does not show at all.                                         *)
(* (fs_create, fs_delete, fs_write)                                        *)
Tree == INSTANCE TreeSpec WITH
  DIR <- INODE_DIR, FILE <- INODE_FILE, Nothing <- <<>>,
  node <- NodesIn(inode, text), entries <- EntriesIn(inode)
ImplementsTree == Tree!Spec
=============================================================================
