---------------------------- MODULE SessionProofs ---------------------------
(***************************************************************************)
(* What survives saves, loads and restarts, for every size of the table    *)
(* and of the data region, every set of names and texts, and any number of *)
(* runs: files own their blocks, and there is a way home.  Within one run, *)
(* loads also keep parents before children and the counter ahead of the    *)
(* table; the program implements the tree with snapshots, and its commands *)
(* agree on what they show.  An image is either whole or empty here, but   *)
(* for the way home: what a part of one restores is not sound.             *)
(***************************************************************************)
EXTENDS Session, ListingProofs

WholeImages == Transfers \cup Tears \subseteq {"nothing", "all"}

(* DataInv of a table, a chain and texts, in RAM or in the image. *)
HasDataIn(t, id) == t[id].is_active /\ t[id].data_offset # NONE

OwnsIn(t, c, x, id) ==
  LET ptr == t[id].data_offset
      o == ptr - BLOCK_HEADER_SIZE
  IN /\ o \in DOMAIN c /\ ~c[o].is_free
     /\ t[id].type = INODE_FILE
     /\ t[id].data_size <= c[o].size
     /\ ptr \in DOMAIN x /\ BytesFor(x[ptr]) = t[id].data_size

Intact(t, c, x) ==
  /\ IsTable(t)
  /\ Sound(c) /\ DOMAIN x \subseteq Offsets
  /\ \A id \in Ids : HasDataIn(t, id) => OwnsIn(t, c, x, id)
  /\ \A i, j \in Ids : HasDataIn(t, i) /\ HasDataIn(t, j)
                       /\ t[i].data_offset = t[j].data_offset => i = j

(* The invariant of any number of runs. *)
ImageInv ==
  /\ disk = NoImage \/ disk.transferred \in {"nothing", "all"}
  /\ disk.transferred = "all" => Intact(disk.inode, disk.chain, disk.text)

ShellInv ==
  /\ DataInv
  /\ current_dir \in Ids
  /\ ImageInv
  /\ phase = "off" => text = [ptr \in {} |-> <<>>]

-----------------------------------------------------------------------------
LEMMA IntactData ==
  /\ DataInv <=> next_inode_id \in 0 .. MAX_INODES /\ Intact(inode, chain, text)
  /\ DataInv' <=> (next_inode_id' \in 0 .. MAX_INODES /\ Intact(inode', chain', text'))
BY DEF DataInv, Intact, FilesOwnBlocks, Owns, OwnsIn, HasData, HasDataIn

(* A step of the shell, with the commands reduced to what they ask of the  *)
(* file system.                                                            *)
CreateStep == \E name \in Names, type \in {INODE_FILE, INODE_DIR} : fs_create(current_dir, name, type)
WriteStep  == \E id \in Ids, data \in Contents : fs_write(id, data)
DeleteStep == \E id \in Ids : fs_delete(id)
FsStep == phase = "running" /\ StayPut /\ (CreateStep \/ WriteStep \/ DeleteStep)

LEMMA ShellSteps ==
  ASSUME DataInv, current_dir \in Ids, ShellNext
  PROVE  \/ FsStep
         \/ phase = "running" /\ (cmd_cd \/ SaveOpens \/ cmd_load)
         \/ \E transferred \in Transfers : SaveWrites(transferred)
         \/ PromptOverruns \/ Ends \/ Boots
<1>1. ASSUME NEW name \in Names, Prompted, cmd_touch(name) \/ cmd_mkdir(name) PROVE FsStep
  BY <1>1 DEF cmd_touch, cmd_mkdir, FsStep, CreateStep, Prompted
<1>2. ASSUME NEW name \in Names, NEW data \in Contents, Prompted, cmd_write(name, data)
      PROVE  FsStep
  BY <1>2, FoundIsThere DEF IsNamed, cmd_write, FsStep, WriteStep, Prompted, DataInv
<1>3. ASSUME NEW name \in Names, Prompted, cmd_rm(name) PROVE FsStep
  BY <1>3, FoundIsThere DEF IsNamed, cmd_rm, FsStep, DeleteStep, Prompted, DataInv
<1> QED BY <1>1, <1>2, <1>3 DEF ShellNext, Command, Prompted

(* What the image holds after each amount that fwrite may transfer.        *)
LEMMA ImageFields ==
  /\ Image("nothing").transferred = "nothing"
  /\ Image("all") = [transferred |-> "all", inode |-> inode, chain |-> chain, text |-> text]
BY DEF Image

-----------------------------------------------------------------------------
(* Any number of runs: the invariant holds at the start and is kept.       *)
LEMMA ShellInvInit == ShellInit => ShellInv
<1> SUFFICES ASSUME ShellInit PROVE ShellInv
  OBVIOUS
<1>1. DataInv
  BY InvInit DEF ShellInit, FsInv
<1>2. current_dir \in Ids
  BY TableAssumption DEF ShellInit, HOME, Ids
<1>3. ImageInv
  BY DEF ShellInit, ImageInv, NoImage
<1> QED BY <1>1, <1>2, <1>3 DEF ShellInv, ShellInit

(* What the operations of fs.c do to the data, whichever slot they take.   *)
LEMMA FsStepKeepsData ==
  ASSUME DataInv, current_dir \in Ids, FsStep
  PROVE  DataInv'
<1>1. ASSUME NEW name \in Names, NEW type \in {INODE_FILE, INODE_DIR}, fs_create(current_dir, name, type)
      PROVE  DataInv'
  BY <1>1, CreateKeepsData
<1>2. ASSUME NEW id \in Ids, NEW data \in Contents, fs_write(id, data) PROVE DataInv'
  BY <1>2, WriteKeepsData
<1>3. ASSUME NEW id \in Ids, fs_delete(id) PROVE DataInv'
  BY <1>3, DeleteKeepsData
<1> QED BY <1>1, <1>2, <1>3 DEF FsStep, CreateStep, WriteStep, DeleteStep

(* The memory of a program that has ended: no inode is in use.             *)
LEMMA EndKeepsData ==
  ASSUME Ends
  PROVE  DataInv' /\ current_dir' \in Ids /\ text' = [ptr \in {} |-> <<>>] /\ phase' = "off"
<1>1. /\ inode' = [id \in Ids |-> ZeroInode] /\ chain' = FreshChain
      /\ text' = [ptr \in {} |-> <<>>] /\ next_inode_id' = 0 /\ current_dir' = HOME
      /\ phase' = "off"
  BY DEF Ends
<1>2. IsInode(ZeroInode) /\ ~ZeroInode.is_active
  <2>1. <<>> \in Seq(Ids) /\ Len(<<>>) <= MAX_CHILDREN /\ ROOT \in Ids
    BY TableAssumption DEF Ids, ROOT
  <2> QED BY <2>1 DEF ZeroInode, IsInode, INODE_FILE
<1>3. IsTable(inode')
  BY <1>1, <1>2 DEF IsTable
<1>4. \A id \in Ids : ~HasDataIn(inode', id)
  BY <1>1, <1>2 DEF HasDataIn
<1>5. Sound(FreshChain)
  BY FreshSound
<1>6. Intact(inode', chain', text')
  BY <1>1, <1>3, <1>4, <1>5 DEF Intact
<1>7. next_inode_id' \in 0 .. MAX_INODES /\ HOME \in Ids
  BY <1>1, TableAssumption DEF HOME, Ids
<1> QED BY <1>1, <1>6, <1>7, IntactData

(* A restart formats the table: the invariant of FileSystem holds again.   *)
LEMMA BootFormats ==
  ASSUME Boots, text = [ptr \in {} |-> <<>>]
  PROVE  FsInv'
<1>1. FsInit'
  BY DEF Boots, FsInit
<1> QED BY <1>1, InvInit, PTL

LEMMA ShellInvNext ==
  ASSUME WholeImages
  PROVE  ShellInv /\ [ShellNext]_vars => ShellInv'
<1> SUFFICES ASSUME ShellInv, [ShellNext]_vars PROVE ShellInv'
  OBVIOUS
<1> USE DEF ShellInv
<1>1. CASE FsStep
  <2>1. UNCHANGED <<current_dir, disk, phase>>
    BY <1>1 DEF FsStep, StayPut
  <2>2. phase' # "off"
    BY <1>1, <2>1 DEF FsStep
  <2> QED BY <1>1, <2>1, <2>2, FsStepKeepsData DEF ImageInv
<1>2. ASSUME UNCHANGED <<inode, next_inode_id, chain, text>> PROVE DataInv'
  BY <1>2 DEF DataInv, FilesOwnBlocks, Owns, HasData
<1>3. CASE phase = "running" /\ cmd_cd
  <2>1. current_dir' \in Ids
    <3>1. HOME \in Ids /\ ROOT \in Ids
      BY TableAssumption DEF HOME, ROOT, Ids
    <3>2. Above(current_dir) \in Ids
      BY <3>1 DEF Above, DataInv, IsTable, IsInode
    <3>3. ASSUME NEW name PROVE Destination(current_dir, name) \in Ids
      <4>1. Below(current_dir, name) \in Ids
        BY FoundIsThere DEF IsNamed, Below, DataInv
      <4> QED BY <3>1, <3>2, <4>1 DEF Destination
    <3> QED BY <1>3, <3>1, <3>3 DEF cmd_cd
  <2> QED BY <1>2, <1>3, <2>1 DEF cmd_cd, ImageInv
<1>4. CASE phase = "running" /\ SaveOpens
  <2>1. ImageInv'
    BY <1>4, ImageFields DEF SaveOpens, ImageInv
  <2> QED BY <1>2, <1>4, <2>1 DEF SaveOpens
<1>5. ASSUME NEW transferred \in Transfers, SaveWrites(transferred) PROVE ShellInv'
  <2>1. transferred \in {"nothing", "all"} /\ disk' = Image(transferred)
    BY <1>5 DEF WholeImages, SaveWrites
  <2>2. ImageInv'
    BY <2>1, ImageFields, IntactData DEF ImageInv
  <2> QED BY <1>2, <1>5, <2>2 DEF SaveWrites
<1>6. CASE phase = "running" /\ cmd_load
  <2>1. UNCHANGED <<next_inode_id, current_dir, disk, phase>> /\ disk # NoImage
    BY <1>6 DEF cmd_load
  <2>2. CASE disk.transferred = "all"
    <3>1. inode' = disk.inode /\ chain' = disk.chain /\ text' = disk.text
      BY <1>6, <2>2 DEF cmd_load
    <3>2. DataInv'
      BY <2>1, <2>2, <3>1, IntactData DEF ImageInv
    <3> QED BY <1>6, <2>1, <3>2 DEF ImageInv
  <2>3. CASE disk.transferred # "all"
    <3>1. disk.transferred = "nothing"
      BY <2>1, <2>3 DEF ImageInv
    <3>2. UNCHANGED <<inode, chain, text>>
      BY <1>6, <3>1 DEF cmd_load
    <3> QED BY <1>2, <1>6, <2>1, <3>2 DEF ImageInv
  <2> QED BY <2>2, <2>3
<1>7. CASE PromptOverruns
  BY <1>2, <1>7 DEF PromptOverruns, ImageInv
<1>8. CASE Ends
  <2>1. ImageInv'
    <3>1. CASE phase = "saving"
      <4>1. PICK torn \in Tears : disk' = Image(torn)
        BY <1>8, <3>1 DEF Ends
      <4>2. torn \in {"nothing", "all"}
        BY <4>1 DEF WholeImages
      <4> QED BY <4>1, <4>2, ImageFields, IntactData DEF ImageInv
    <3>2. CASE phase # "saving"
      BY <1>8, <3>2 DEF Ends, ImageInv
    <3> QED BY <3>1, <3>2
  <2> QED BY <1>8, <2>1, EndKeepsData
<1>9. CASE Boots
  <2>1. UNCHANGED <<text, current_dir, disk>> /\ phase = "off" /\ phase' = "running"
    BY <1>9 DEF Boots
  <2>2. DataInv'
    BY <1>9, <2>1, BootFormats DEF FsInv
  <2> QED BY <2>1, <2>2 DEF ImageInv
<1>10. CASE UNCHANGED vars
  BY <1>2, <1>10 DEF vars, ImageInv
<1> QED BY <1>1, <1>3, <1>4, <1>5, <1>6, <1>7, <1>8, <1>9, <1>10, ShellSteps

(* However often the program ends, dies, is restarted and loads an image,  *)
(* every file with data has a block of its own with its text in it, also   *)
(* where the counter hands out slots that are in use.                      *)
THEOREM ExclusiveAcrossRuns == ASSUME WholeImages PROVE ShellSpec => []DataBlocksExclusive
<1>1. ShellInv => DataBlocksExclusive
  BY DEF ShellInv, DataInv, FilesOwnBlocks, Owns, HasData, Read, ReadFrom, DataBlocksExclusive
<1> QED BY <1>1, ShellInvInit, ShellInvNext, PTL DEF ShellSpec

(* And the chain tiles the data region in every run.                       *)
THEOREM TilingAcrossRuns == ASSUME WholeImages PROVE ShellSpec => []ChainTiles
<1>1. ShellInv => ChainTiles
  BY DEF ShellInv, DataInv, ChainTiles, Sound
<1> QED BY <1>1, ShellInvInit, ShellInvNext, PTL DEF ShellSpec

(* The variables of the shell keep their types in every run.               *)
THEOREM ShellTyping == ASSUME WholeImages PROVE ShellSpec => []ShellTypeOK
<1> DEFINE Rest == /\ phase \in {"running", "saving", "overrun", "off"}
                   /\ disk.transferred \in {"no file", "nothing"} \cup Transfers \cup Tears
                   /\ boots \in 1 .. MaxBoots
<1>0. \A n \in 1 .. MaxBoots : n < MaxBoots => n + 1 \in 1 .. MaxBoots
  BY BootsAssumption
<1>1. ShellInit => Rest
  <2>1. 1 \in 1 .. MaxBoots
    BY BootsAssumption
  <2>2. NoImage.transferred = "no file"
    BY DEF NoImage
  <2> QED BY <2>1, <2>2 DEF ShellInit
<1>2. ShellInv /\ Rest /\ [ShellNext]_vars => Rest'
  <2> SUFFICES ASSUME ShellInv, Rest, [ShellNext]_vars PROVE Rest'
    OBVIOUS
  <2>1. CASE ShellNext
    <3>1. ASSUME NEW cut \in Transfers \cup Tears PROVE Image(cut).transferred = cut
      <4>1. cut = "nothing" \/ cut = "all"
        BY DEF WholeImages
      <4> QED BY <4>1 DEF Image
    <3>2. CASE FsStep \/ cmd_cd \/ cmd_load \/ PromptOverruns
      BY <3>2 DEF FsStep, StayPut, cmd_cd, cmd_load, PromptOverruns
    <3>3. CASE SaveOpens
      BY <3>3, ImageFields DEF SaveOpens
    <3>4. ASSUME NEW transferred \in Transfers, SaveWrites(transferred) PROVE Rest'
      BY <3>1, <3>4 DEF SaveWrites
    <3>5. CASE Ends
      BY <3>1, <3>5 DEF Ends
    <3>6. CASE Boots
      BY <1>0, <3>6 DEF Boots
    <3> QED BY <2>1, <3>2, <3>3, <3>4, <3>5, <3>6, ShellSteps DEF ShellInv
  <2>2. CASE UNCHANGED vars
    BY <2>2 DEF vars
  <2> QED BY <2>1, <2>2
<1>3. ShellInv /\ Rest => ShellTypeOK
  BY DataTypes DEF ShellInv, ShellTypeOK
<1> QED BY <1>1, <1>2, <1>3, ShellInvInit, ShellInvNext, PTL DEF ShellSpec

-----------------------------------------------------------------------------
(* The way home, in any number of runs and whatever part of an image was   *)
(* written.  The parents of the default directories on it are written by   *)
(* fs_init only: creates take slots above them, and a delete leaves the    *)
(* parent in the slot.                                                     *)
WayHome(t) ==
  /\ t = [id \in Ids |-> t[id]]
  /\ \A id \in Ids : "parent_id" \in DOMAIN t[id]
  /\ t[HOME].parent_id = 2 /\ t[2].parent_id = ROOT /\ t[ROOT].parent_id = NONE

WayInv ==
  /\ phase # "off" => WayHome(inode) /\ next_inode_id \in Nat /\ next_inode_id >= 6
  /\ disk = NoImage \/ disk.transferred \in {"nothing", "tables", "all"}
  /\ disk.transferred \in {"tables", "all"} => WayHome(disk.inode)

LEMMA FsKeepsWay ==
  ASSUME WayHome(inode), next_inode_id \in Nat, next_inode_id >= 6, NEW d, NEW id, NEW name, NEW data,
         NEW type, fs_create(d, name, type) \/ fs_write(id, data) \/ fs_delete(id)
  PROVE  WayHome(inode') /\ next_inode_id' \in Nat /\ next_inode_id' >= 6
<1> DEFINE Near == {HOME, 2, ROOT}
           Keeps(t, u) == /\ u = [k \in Ids |-> u[k]] /\ \A k \in Ids : "parent_id" \in DOMAIN u[k]
                          /\ \A k \in Near : u[k].parent_id = t[k].parent_id
           Has(t) == t = [k \in Ids |-> t[k]] /\ \A k \in Ids : "parent_id" \in DOMAIN t[k]
<1>1. Near \subseteq Ids /\ \A k \in Near : k < 6
  BY TableAssumption DEF Ids, HOME, ROOT
<1>2. ASSUME NEW t, Has(t), NEW p, NEW list
      PROVE  Keeps(t, [t EXCEPT ![p].children = list])
  BY <1>1, <1>2
<1>3. CASE fs_create(d, name, type)
  <2> DEFINE new == NewInode(name, type, d)
             table == [inode EXCEPT ![next_inode_id] = new]
  <2>1. "parent_id" \in DOMAIN new
    BY DEF NewInode
  <2>2. inode' = [table EXCEPT ![d].children = Append(table[d].children, next_inode_id)]
    BY <1>3 DEF fs_create, FreshSlot, Link
  <2> HIDE DEF new
  <2>3. Has(table) /\ \A k \in Near : table[k].parent_id = inode[k].parent_id
    BY <1>1, <2>1 DEF WayHome
  <2> HIDE DEF table, Has, Keeps
  <2>4. Keeps(table, inode')
    BY <1>2, <2>2, <2>3
  <2>5. Keeps(inode, inode')
    BY <2>3, <2>4 DEF Keeps
  <2>6. next_inode_id' = next_inode_id + 1
    BY <1>3 DEF fs_create
  <2> QED BY <2>5, <2>6 DEF WayHome, Keeps
<1>4. CASE fs_write(id, data)
  <2> DEFINE ptr == Alloc(Freed(id), BytesFor(data)).ptr
             size == IF ptr # NONE THEN BytesFor(data) ELSE 0
  <2>1. inode' = [inode EXCEPT ![id].data_offset = ptr, ![id].data_size = size]
    BY <1>4 DEF fs_write
  <2> HIDE DEF ptr, size
  <2>2. Keeps(inode, inode')
    BY <1>1, <2>1 DEF WayHome
  <2>3. next_inode_id' = next_inode_id
    BY <1>4 DEF fs_write
  <2> QED BY <2>2, <2>3 DEF WayHome
<1>5. CASE fs_delete(id)
  <2> DEFINE p == inode[id].parent_id
             table == Unlink(inode, p, id)
  <2>1. inode' = [table EXCEPT ![id].is_active = FALSE, ![id].name = <<>>,
                               ![id].data_offset = NONE, ![id].data_size = 0]
    BY <1>5 DEF fs_delete, MarkDeleted
  <2>2. table = inode \/ table = [inode EXCEPT ![p].children = RemoveFirst(inode[p].children, id)]
    BY DEF Unlink
  <2> HIDE DEF table
  <2>3. Has(table) /\ \A k \in Near : table[k].parent_id = inode[k].parent_id
    <3>1. Keeps(inode, inode)
      BY DEF WayHome
    <3>2. Has(inode)
      BY DEF WayHome
    <3> HIDE DEF Has, Keeps, p
    <3>3. Keeps(inode, [inode EXCEPT ![p].children = RemoveFirst(inode[p].children, id)])
      BY <1>2, <3>2
    <3> QED BY <2>2, <3>1, <3>3 DEF Has, Keeps
  <2>4. Keeps(table, inode')
    BY <1>1, <2>1, <2>3
  <2>5. next_inode_id' = next_inode_id
    BY <1>5 DEF fs_delete
  <2> QED BY <2>3, <2>4, <2>5 DEF WayHome
<1> QED BY <1>3, <1>4, <1>5

(* Home, the directory above it, the root, and out of the table.           *)
LEMMA WayEnds ==
  ASSUME WayHome(inode)
  PROVE  PathFits(HOME) /\ PathFits(ROOT)
<1>1. MAX_INODES \in Nat /\ MAX_INODES >= 6 /\ {HOME, 2, ROOT} \subseteq Ids /\ NONE \notin Ids
  BY TableAssumption DEF Ids, HOME, ROOT, NONE
<1>2. /\ ParentOf(HOME) = 2 /\ ParentOf(2) = ROOT /\ ParentOf(ROOT) = NONE
      /\ ParentOf(NONE) = NONE
  BY <1>1 DEF WayHome, ParentOf
<1>3. ASSUME NEW id, NEW at, at = Up(id), at[3] = NONE PROVE PathFits(id)
  <2> DEFINE S == {n \in Nat : n >= 3 => at[n] = NONE}
  <2>1. \A n \in 1 .. MAX_INODES : at[n] = ParentOf(at[n - 1])
    BY <1>3, UpSteps
  <2>2. 0 \in S
    OBVIOUS
  <2>3. ASSUME NEW n \in 0 .. MAX_INODES - 1, n \in S PROVE n + 1 \in S
    <3>1. n + 1 \in 1 .. MAX_INODES /\ (n + 1) - 1 = n
      BY <1>1
    <3>2. at[n + 1] = ParentOf(at[n])
      BY <2>1, <3>1
    <3> QED BY <1>2, <1>3, <2>3, <3>2
  <2> HIDE DEF S
  <2>4. MAX_INODES \in S
    BY <1>1, <2>2, <2>3, InductUpTo, MAX_INODES \in 0 .. MAX_INODES
  <2> QED BY <1>1, <1>3, <2>4 DEF PathFits, S
<1>4. \A id : /\ Up(id)[0] = id
              /\ \A n \in 1 .. MAX_INODES : Up(id)[n] = ParentOf(Up(id)[n - 1])
  BY UpSteps
<1>5. 1 \in 1 .. MAX_INODES /\ 2 \in 1 .. MAX_INODES /\ 3 \in 1 .. MAX_INODES
  BY <1>1
<1>6. \A id : /\ Up(id)[1] = ParentOf(id) /\ Up(id)[2] = ParentOf(Up(id)[1])
              /\ Up(id)[3] = ParentOf(Up(id)[2])
  BY <1>4, <1>5
<1> QED BY <1>2, <1>3, <1>6

(* Whatever is created, removed, saved, torn and loaded in any number of   *)
(* runs, and wherever the shell stands: cd leads to an inode whose path    *)
(* ends, if no longer to a directory, and cd / to the root.                *)
THEOREM HomeInReach == ShellSpec => []CanGoHome
<1>1. WayHome(FormattedTable)
  <2>1. /\ HOME \in Ids /\ 2 \in Ids /\ ROOT \in Ids
        /\ HOME < Len(DefaultTree) /\ 2 < Len(DefaultTree) /\ ROOT < Len(DefaultTree)
    BY TableAssumption DEF HOME, ROOT, Ids, DefaultTree
  <2>2. \A d : "parent_id" \in DOMAIN DefaultInode(d) /\ DefaultInode(d).parent_id = d.parent_id
    BY DEF DefaultInode
  <2>3. "parent_id" \in DOMAIN ZeroInode
    BY DEF ZeroInode
  <2>4. DefaultTree[4].parent_id = 2 /\ DefaultTree[3].parent_id = 0 /\ DefaultTree[1].parent_id = NONE
    BY DEF DefaultTree
  <2>5. \A id \in Ids : FormattedTable[id] = IF id < Len(DefaultTree)
                                            THEN DefaultInode(DefaultTree[id + 1]) ELSE ZeroInode
    BY DEF FormattedTable
  <2>6. FormattedTable = [id \in Ids |-> FormattedTable[id]]
    BY DEF FormattedTable
  <2>7. /\ FormattedTable[HOME].parent_id = 2 /\ FormattedTable[2].parent_id = ROOT
        /\ FormattedTable[ROOT].parent_id = NONE
    BY <2>1, <2>2, <2>4, <2>5, HOME + 1 = 4, 2 + 1 = 3, ROOT + 1 = 1, ROOT = 0 DEF HOME, ROOT
  <2>8. \A id \in Ids : "parent_id" \in DOMAIN FormattedTable[id]
    BY <2>2, <2>3, <2>5
  <2> QED BY <2>6, <2>7, <2>8 DEF WayHome
<1>2. Len(DefaultTree) = 6
  BY DEF DefaultTree
<1>3. ShellInit => WayInv
  <2>1. NoImage.transferred \notin {"tables", "all"}
    BY DEF NoImage
  <2> QED BY <1>1, <1>2, <2>1 DEF ShellInit, FsInit, WayInv
<1>4. \A cut \in {"nothing", "tables", "all"} :
        /\ Image(cut).transferred = cut
        /\ cut # "nothing" => Image(cut).inode = inode
  BY DEF Image
<1>5. WayInv /\ [ShellNext]_vars => WayInv'
  <2> SUFFICES ASSUME WayInv, [ShellNext]_vars PROVE WayInv'
    OBVIOUS
  <2>1. ASSUME phase = "running", StayPut, NEW id, NEW name, NEW data, NEW type,
               fs_create(current_dir, name, type) \/ fs_write(id, data) \/ fs_delete(id)
        PROVE  WayInv'
    BY <2>1, FsKeepsWay DEF WayInv, StayPut
  <2>2. ASSUME NEW name, cmd_touch(name) \/ cmd_mkdir(name) \/ cmd_rm(name), Prompted
        PROVE  WayInv'
    BY <2>1, <2>2 DEF cmd_touch, cmd_mkdir, cmd_rm, Prompted
  <2>3. ASSUME NEW name, NEW data, cmd_write(name, data), Prompted PROVE WayInv'
    BY <2>1, <2>3 DEF cmd_write, Prompted
  <2>4. CASE Prompted /\ cmd_cd
    BY <2>4 DEF Prompted, cmd_cd, WayInv
  <2>5. CASE Prompted /\ SaveOpens
    BY <1>4, <2>5 DEF Prompted, SaveOpens, WayInv
  <2>6. CASE Prompted /\ cmd_load
    BY <2>6 DEF Prompted, cmd_load, WayInv
  <2>7. ASSUME NEW transferred \in Transfers, SaveWrites(transferred) PROVE WayInv'
    <3>1. transferred \in {"nothing", "tables", "all"}
      BY CutAssumption
    <3> QED BY <1>4, <2>7, <3>1 DEF SaveWrites, WayInv
  <2>8. CASE PromptOverruns
    BY <2>8 DEF PromptOverruns, WayInv
  <2>9. CASE Ends
    <3>1. \A torn \in Tears : torn \in {"nothing", "tables", "all"}
      BY CutAssumption
    <3> QED BY <1>4, <2>9, <3>1 DEF Ends, WayInv
  <2>10. CASE Boots
    BY <1>1, <1>2, <2>10 DEF Boots, WayInv
  <2>11. CASE UNCHANGED vars
    BY <2>11 DEF vars, WayInv
  <2> QED BY <2>2, <2>3, <2>4, <2>5, <2>6, <2>7, <2>8, <2>9, <2>10, <2>11 DEF ShellNext, Command
<1>6. WayInv => CanGoHome
  BY WayEnds DEF WayInv, CanGoHome
<1> QED BY <1>3, <1>5, <1>6, PTL DEF ShellSpec

-----------------------------------------------------------------------------
(* One run.  The counter is ahead of every directory, in use or not: so it *)
(* is ahead of current_dir wherever a create succeeds.  What the image     *)
(* holds was RAM earlier in the run, and the counter has only grown since. *)

InOrder(t) ==
  \A id \in Ids : /\ IF id = ROOT THEN t[id].parent_id = NONE ELSE t[id].parent_id \in 0 .. id - 1
                  /\ t[id].is_active \/ t[id].type = INODE_DIR => id < next_inode_id

Leakless(t, c) ==
  \A o \in DOMAIN c : ~c[o].is_free =>
    \E id \in Ids : HasDataIn(t, id) /\ t[id].data_offset = o + BLOCK_HEADER_SIZE

RunInv ==
  /\ ShellInv /\ boots = 1
  /\ phase # "off" =>
       /\ InOrder(inode) /\ Leakless(inode, chain)
       /\ disk.transferred = "all" => InOrder(disk.inode) /\ Leakless(disk.inode, disk.chain)
  /\ PromptsAlways

LEMMA RunData == RunInv /\ phase # "off" => FsInv
BY DEF RunInv, ShellInv, FsInv, Ordered, SparesInactive, NothingLeaks, InOrder, Leakless,
       HasData, HasDataIn

LEMMA RunInvInit == ShellInit => RunInv
<1> SUFFICES ASSUME ShellInit PROVE RunInv
  OBVIOUS
<1>1. FsInv /\ ShellInv
  BY InvInit, ShellInvInit DEF ShellInit
<1>2. InOrder(inode)
  BY <1>1 DEF InOrder, FsInv, Ordered, SparesInactive
<1>3. Leakless(inode, chain)
  BY <1>1 DEF Leakless, FsInv, NothingLeaks, HasData, HasDataIn
<1>4. disk.transferred # "all" /\ phase = "running" /\ boots = 1
  BY DEF ShellInit, NoImage
<1> QED BY <1>1, <1>2, <1>3, <1>4 DEF RunInv, PromptsAlways

(* Each operation of fs.c keeps the order and frees what nobody has.       *)
LEMMA FsStepKeepsRun ==
  ASSUME RunInv, FsStep
  PROVE  /\ InOrder(inode)' /\ Leakless(inode, chain)'
         /\ next_inode_id' \in Nat /\ next_inode_id' >= next_inode_id
<1>1. /\ FsInv /\ InOrder(inode) /\ current_dir \in Ids
      /\ next_inode_id \in Nat
  BY RunData, TableAssumption DEF RunInv, ShellInv, FsStep, FsInv, DataInv
<1>2. FsInv' /\ (next_inode_id' = next_inode_id \/ next_inode_id' = next_inode_id + 1)
  <2>1. CASE CreateStep
    BY <1>1, <2>1, CreateKeeps DEF CreateStep, fs_create
  <2>2. CASE WriteStep
    BY <1>1, <2>2, WriteKeeps DEF WriteStep, fs_write
  <2>3. CASE DeleteStep
    BY <1>1, <2>3, DeleteKeeps DEF DeleteStep, fs_delete
  <2> QED BY <2>1, <2>2, <2>3 DEF FsStep
<1> QED BY <1>1, <1>2 DEF InOrder, Leakless, FsInv, Ordered, SparesInactive, NothingLeaks,
                          HasData, HasDataIn

(* The prompt depends on the table and on nothing else.                    *)
LEMMA SamePath ==
  ASSUME NEW id, inode' = inode
  PROVE  (PathFits(id)' <=> PathFits(id)) /\ (FitsBuffer(id)' <=> FitsBuffer(id))
<1>1. Up(id)' = Up(id)
  BY DEF Up, ParentOf
<1>2. PathFits(id)' <=> PathFits(id)
  BY <1>1 DEF PathFits
<1>3. Path(id)' = Path(id)
  BY <1>1 DEF Path
<1>4. PathBytes(id)' = PathBytes(id)
  BY <1>3 DEF PathBytes
<1> QED BY <1>2, <1>4 DEF FitsBuffer

LEMMA RunInvNext ==
  ASSUME WholeImages, MaxBoots = 1
  PROVE  RunInv /\ [ShellNext]_vars => RunInv'
<1> SUFFICES ASSUME RunInv, [ShellNext]_vars PROVE RunInv'
  OBVIOUS
<1>1. ShellInv /\ ShellInv' /\ boots = 1
  BY ShellInvNext DEF RunInv
<1>2. ASSUME UNCHANGED <<inode, next_inode_id, chain>>, phase # "off",
             \/ UNCHANGED disk
             \/ disk'.transferred # "all"
             \/ disk' = Image("all"),
             boots' = 1, PromptsAlways'
      PROVE  RunInv'
  <2>1. InOrder(inode)' /\ Leakless(inode, chain)'
    BY <1>2 DEF RunInv, InOrder, Leakless, HasDataIn
  <2>2. disk'.transferred = "all" => InOrder(disk.inode)' /\ Leakless(disk.inode, disk.chain)'
    <3>1. CASE UNCHANGED disk
      BY <1>2, <3>1 DEF RunInv, InOrder, Leakless, HasDataIn
    <3>2. CASE disk' = Image("all")
      <4>1. disk'.inode = inode /\ disk'.chain = chain
        BY <3>2, ImageFields
      <4> QED BY <1>2, <4>1 DEF RunInv, InOrder, Leakless, HasDataIn
    <3> QED BY <1>2, <3>1, <3>2
  <2> QED BY <1>1, <1>2, <2>1, <2>2 DEF RunInv
<1>3. CASE FsStep
  <2>1. /\ InOrder(inode)' /\ Leakless(inode, chain)'
        /\ next_inode_id' \in Nat /\ next_inode_id' >= next_inode_id
    BY <1>3, FsStepKeepsRun
  <2>2. UNCHANGED <<disk, phase, boots>> /\ phase = "running" /\ next_inode_id \in Nat
    BY <1>1, <1>3, TableAssumption DEF FsStep, StayPut, ShellInv, DataInv
  <2>3. disk.transferred = "all" => InOrder(disk.inode)' /\ Leakless(disk.inode, disk.chain)'
    <3> SUFFICES ASSUME disk.transferred = "all"
                 PROVE  InOrder(disk.inode)' /\ Leakless(disk.inode, disk.chain)'
      OBVIOUS
    <3>1. InOrder(disk.inode) /\ Leakless(disk.inode, disk.chain)
      BY <2>2 DEF RunInv
    <3> QED BY <2>1, <2>2, <3>1 DEF InOrder, Leakless, HasDataIn, Ids
  <2>4. PromptsAlways'
    BY <2>2 DEF PromptsAlways
  <2> QED BY <1>1, <2>1, <2>2, <2>3, <2>4 DEF RunInv
<1>4. CASE phase = "running" /\ cmd_cd
  BY <1>1, <1>2, <1>4 DEF cmd_cd, PromptsAlways
<1>5. CASE phase = "running" /\ SaveOpens
  BY <1>1, <1>2, <1>5, ImageFields DEF SaveOpens, PromptsAlways
<1>6. ASSUME NEW transferred \in Transfers, SaveWrites(transferred) PROVE RunInv'
  <2>1. transferred \in {"nothing", "all"} /\ disk' = Image(transferred)
    BY <1>6 DEF WholeImages, SaveWrites
  <2> QED BY <1>1, <1>2, <1>6, <2>1, ImageFields DEF SaveWrites, PromptsAlways
<1>7. CASE phase = "running" /\ cmd_load
  <2>1. UNCHANGED <<next_inode_id, disk, phase, boots>> /\ disk # NoImage
    BY <1>7 DEF cmd_load
  <2>2. PromptsAlways'
    BY <1>7, <2>1 DEF PromptsAlways
  <2>3. CASE disk.transferred = "all"
    <3>1. inode' = disk.inode /\ chain' = disk.chain
      BY <1>7, <2>3 DEF cmd_load
    <3> QED BY <1>1, <1>7, <2>1, <2>2, <2>3, <3>1 DEF RunInv, InOrder, Leakless, HasDataIn
  <2>4. CASE disk.transferred = "nothing"
    BY <1>1, <1>2, <1>7, <2>1, <2>2, <2>4 DEF cmd_load
  <2> QED BY <1>1, <2>1, <2>3, <2>4 DEF ShellInv, ImageInv
<1>8. CASE PromptOverruns
  <2>1. phase = "running" /\ current_dir \in Ids
    BY <1>1, <1>8 DEF PromptOverruns, ShellInv
  <2>2. PathFits(current_dir)
    BY <2>1, RunData, WalkEnds
  <2>3. PathFits(current_dir)' /\ ~FitsBuffer(current_dir)'
    <3>1. ~FitsBuffer(current_dir)
      BY <1>8, <2>2 DEF PromptOverruns, FitsPrompt
    <3>2. UNCHANGED <<inode, current_dir>>
      BY <1>8 DEF PromptOverruns
    <3> QED BY <2>2, <3>1, <3>2, SamePath
  <2> QED BY <1>1, <1>2, <1>8, <2>1, <2>3 DEF PromptOverruns, PromptsAlways
<1>9. CASE Ends
  BY <1>1, <1>9 DEF Ends, RunInv, PromptsAlways
<1>10. CASE Boots
  BY <1>1, <1>10 DEF Boots
<1>11. CASE UNCHANGED vars
  <2>1. UNCHANGED <<inode, next_inode_id, chain, current_dir, disk, phase, boots>>
    BY <1>11 DEF vars
  <2>2. PromptsAlways'
    BY <2>1, SamePath DEF RunInv, PromptsAlways
  <2> QED BY <1>1, <1>2, <2>1, <2>2 DEF RunInv
<1> QED BY <1>1, <1>3, <1>4, <1>5, <1>6, <1>7, <1>8, <1>9, <1>10, <1>11, ShellSteps DEF ShellInv

(* Within one run, whatever is saved and loaded, the walk to the root for  *)
(* the next prompt ends within its stack: only the buffer can be too       *)
(* small.                                                                  *)
THEOREM PromptsInOneRun ==
  ASSUME WholeImages, MaxBoots = 1
  PROVE  ShellSpec => []PromptsAlways
<1>1. RunInv => PromptsAlways
  BY DEF RunInv
<1> QED BY <1>1, RunInvInit, RunInvNext, PTL DEF ShellSpec

(* Within one run, a create overwrites no inode in use, also after loads   *)
(* that do not bring back the counter.                                     *)
THEOREM CreatesInOneRun ==
  ASSUME WholeImages, MaxBoots = 1
  PROVE  ShellSpec => CreatesSpareLiveInodes
<1> DEFINE Spares ==
      (phase = "running" /\ next_inode_id' > next_inode_id) =>
        \A id \in Active :
          /\ inode'[id].name = inode[id].name
          /\ inode'[id].parent_id = inode[id].parent_id
          /\ inode'[id].data_offset = inode[id].data_offset
<1>1. RunInv /\ [ShellNext]_vars => [Spares]_vars
  <2> SUFFICES ASSUME RunInv, ShellNext, phase = "running", next_inode_id' > next_inode_id,
                      NEW id \in Active
               PROVE  /\ inode'[id].name = inode[id].name
                      /\ inode'[id].parent_id = inode[id].parent_id
                      /\ inode'[id].data_offset = inode[id].data_offset
    OBVIOUS
  <2>1. FsInv /\ ShellInv /\ next_inode_id \in Nat
    BY RunData, TableAssumption DEF RunInv, FsInv, DataInv
  <2>2. \/ FsStep
        \/ next_inode_id' = next_inode_id
        \/ next_inode_id' = 0
        \/ Boots
    BY <2>1, ShellSteps DEF ShellInv, cmd_cd, SaveOpens, cmd_load, SaveWrites, PromptOverruns, Ends
  <2>3. FsStep
    BY <2>1, <2>2 DEF Boots
  <2>4. PICK name \in Names, type \in {INODE_FILE, INODE_DIR} : fs_create(current_dir, name, type)
    <3>1. \A j \in Ids, data \in Contents : fs_write(j, data) => next_inode_id' = next_inode_id
      BY DEF fs_write
    <3>2. \A j \in Ids : fs_delete(j) => next_inode_id' = next_inode_id
      BY DEF fs_delete
    <3> QED BY <2>1, <2>3, <3>1, <3>2 DEF FsStep, CreateStep, WriteStep, DeleteStep
  <2>5. id # next_inode_id /\ id \in Ids
    BY <2>1 DEF Active, FsInv, SparesInactive
  <2> QED BY <2>1, <2>4, <2>5, CreateSpares DEF ShellInv, SameRest
<1> QED BY <1>1, RunInvInit, RunInvNext, PTL DEF ShellSpec, CreatesSpareLiveInodes

-----------------------------------------------------------------------------
(* The tree of the shell and its snapshot.                                 *)

Saved == IF disk.transferred = "all"
         THEN {[node |-> NodesIn(disk.inode, disk.text), entries |-> EntriesIn(disk.inode)]}
         ELSE {}

(* A change of the tree is a change of the tree with snapshots.            *)
LEMMA ChangesOfTree == Tree!Next => Snapshots!Next
BY DEF Tree!Next, Tree!Add, Tree!Discard, Tree!Overwrite, Tree!Kinds,
       Snapshots!Next, Snapshots!Add, Snapshots!Discard, Snapshots!Overwrite, Snapshots!Kinds

(* The formatted table is a tree, and there is no snapshot.                *)
LEMMA SnapshotInit ==
  ASSUME ShellInit
  PROVE  Snapshots!IsTree /\ Saved = {} /\ LinkedIn(inode)
<1>1. FsInv /\ LinkedIn(inode)
  BY TreeInvInit DEF ShellInit, TreeInv
<1>2. Snapshots!IsTree
  BY <1>1, LinkedTree DEF Tree!IsTree, Tree!Kinds, Snapshots!IsTree, Snapshots!Kinds
<1>3. disk.transferred = "no file"
  BY DEF ShellInit, NoImage
<1> QED BY <1>1, <1>2, <1>3 DEF Saved

-----------------------------------------------------------------------------
(* One run with snapshots.  What fopen emptied stays empty until fwrite,   *)
(* and the image's table is linked as that of RAM.                         *)
SnapInv ==
  /\ RunInv
  /\ phase = "saving" => disk.transferred = "nothing"
  /\ phase # "off" =>
       /\ LinkedIn(inode)
       /\ disk.transferred = "all" => LinkedIn(disk.inode)

(* A program that dies in a save has written nothing or, as a save that    *)
(* ends before the program does, everything.                               *)
CutShort == Tears \subseteq {"nothing"}

LEMMA SnapInvInit == ShellInit => SnapInv
<1> SUFFICES ASSUME ShellInit PROVE SnapInv
  OBVIOUS
<1>1. RunInv
  BY RunInvInit
<1>2. LinkedIn(inode)
  BY SnapshotInit
<1>3. phase = "running" /\ disk.transferred = "no file"
  BY DEF ShellInit, NoImage
<1> QED BY <1>1, <1>2, <1>3 DEF SnapInv

LEMMA FsStepOnTree ==
  ASSUME ShortNames, RunInv, LinkedIn(inode), FsStep
  PROVE  LinkedIn(inode') /\ (Snapshots!Next \/ SameTree)
<1>1. FsInv /\ current_dir \in Ids
  BY RunData DEF FsStep, RunInv, ShellInv
<1>2. \A id \in Ids : fs_delete(id) => id \in Active
  BY DEF fs_delete, MayDelete, Active
<1>3. \A id \in Ids, data \in Contents : fs_write(id, data) => id \in Active
  BY DEF fs_write, Active
<1>4. LinkedIn(inode') /\ (Tree!Next \/ SameTree)
  <2>1. CASE CreateStep
    BY <1>1, <2>1, CreateKeepsLinks, CreateAddsNode DEF CreateStep
  <2>2. CASE DeleteStep
    BY <1>1, <1>2, <2>2, DeleteKeepsLinks, DeleteDiscardsNode DEF DeleteStep
  <2>3. CASE WriteStep
    BY <1>1, <1>3, <2>3, WriteKeepsLinks, WriteOverwritesNode DEF WriteStep
  <2> QED BY <2>1, <2>2, <2>3 DEF FsStep
<1> QED BY <1>4, ChangesOfTree

LEMMA SnapInvNext ==
  ASSUME WholeImages, MaxBoots = 1, ShortNames
  PROVE  SnapInv /\ [ShellNext]_vars => SnapInv'
<1> SUFFICES ASSUME SnapInv, [ShellNext]_vars PROVE SnapInv'
  OBVIOUS
<1>1. RunInv /\ RunInv' /\ ShellInv
  BY RunInvNext DEF SnapInv, RunInv
<1>2. CASE FsStep
  BY <1>1, <1>2, FsStepOnTree DEF SnapInv, FsStep, StayPut
<1>3. CASE phase = "running" /\ cmd_cd
  BY <1>1, <1>3 DEF SnapInv, cmd_cd
<1>4. CASE phase = "running" /\ SaveOpens
  BY <1>1, <1>4, ImageFields DEF SnapInv, SaveOpens
<1>5. ASSUME NEW transferred \in Transfers, SaveWrites(transferred) PROVE SnapInv'
  <2>1. transferred = "nothing" \/ transferred = "all"
    BY DEF WholeImages
  <2>2. disk'.transferred = "all" => disk'.inode = inode
    BY <1>5, <2>1, ImageFields DEF SaveWrites
  <2> QED BY <1>1, <1>5, <2>2 DEF SnapInv, SaveWrites
<1>6. CASE phase = "running" /\ cmd_load
  <2>1. disk.transferred = "nothing" \/ disk.transferred = "all"
    BY <1>1, <1>6 DEF ShellInv, ImageInv, cmd_load
  <2> QED BY <1>1, <1>6, <2>1 DEF SnapInv, cmd_load
<1>7. CASE PromptOverruns
  BY <1>1, <1>7 DEF SnapInv, PromptOverruns
<1>8. CASE Ends
  BY <1>1, <1>8 DEF SnapInv, Ends
<1>9. CASE Boots
  BY <1>1, <1>9 DEF Boots, RunInv
<1>10. CASE UNCHANGED vars
  BY <1>1, <1>10 DEF SnapInv, vars
<1> QED BY <1>1, <1>2, <1>3, <1>4, <1>5, <1>6, <1>7, <1>8, <1>9, <1>10, ShellSteps DEF ShellInv

(* Each step of the shell is a step of SnapshotSpec or changes nothing     *)
(* that it has.                                                            *)
SnapStep ==
  \/ Snapshots!Save \/ Snapshots!Lose \/ Snapshots!Load \/ Snapshots!Stop \/ Snapshots!Start
  \/ Snapshots!Change

LEMMA StepsOfSnapshots ==
  ASSUME WholeImages, CutShort, MaxBoots = 1, ShortNames, SnapInv, ShellNext
  PROVE  SnapStep \/ UNCHANGED Snapshots!snapvars
<1> DEFINE same == UNCHANGED Snapshots!snapvars
<1>0. RunInv /\ ShellInv /\ DataInv
  BY DEF SnapInv, RunInv, ShellInv
<1>1. ASSUME UNCHANGED disk PROVE Saved' = Saved
  BY <1>1 DEF Saved
<1>2. ASSUME UNCHANGED <<inode, text>> PROVE UNCHANGED Snapshots!vars /\ SameTree
  BY <1>2 DEF Snapshots!vars, SameTree
<1>3. ASSUME UNCHANGED disk, SameTree PROVE same
  BY <1>1, <1>3 DEF Snapshots!snapvars, SameTree, Saved
<1>4. ASSUME UNCHANGED <<inode, text>>, disk'.transferred = "nothing" PROVE SnapStep
  BY <1>2, <1>4 DEF SnapStep, Snapshots!Lose
<1>5. CASE FsStep
  <2>1. UNCHANGED disk /\ phase # "off"
    BY <1>5 DEF FsStep, StayPut
  <2>2. Snapshots!Next \/ SameTree
    BY <1>0, <1>5, <2>1, FsStepOnTree DEF SnapInv
  <2> QED BY <1>1, <1>3, <2>1, <2>2 DEF SnapStep, Snapshots!Change, Saved
<1>6. CASE cmd_cd \/ PromptOverruns
  BY <1>2, <1>3, <1>6 DEF cmd_cd, PromptOverruns
<1>7. CASE SaveOpens
  BY <1>4, <1>7, ImageFields DEF SaveOpens
<1>8. ASSUME NEW transferred \in Transfers, SaveWrites(transferred) PROVE SnapStep
  <2>1. transferred = "nothing" \/ transferred = "all"
    BY DEF WholeImages
  <2>2. CASE transferred = "nothing"
    BY <1>4, <1>8, <2>2, ImageFields DEF SaveWrites
  <2>3. CASE transferred = "all"
    <3>1. /\ disk'.transferred = "all" /\ disk'.inode = inode /\ disk'.text = text
          /\ UNCHANGED <<inode, text>>
      BY <1>8, <2>3, ImageFields DEF SaveWrites
    <3> QED BY <1>2, <3>1 DEF SnapStep, Snapshots!Save
  <2> QED BY <2>1, <2>2, <2>3
<1>9. CASE cmd_load
  <2>1. UNCHANGED disk /\ (disk.transferred = "nothing" \/ disk.transferred = "all")
    BY <1>0, <1>9 DEF ShellInv, ImageInv, cmd_load
  <2>2. CASE disk.transferred = "nothing"
    BY <1>2, <1>3, <1>9, <2>1, <2>2 DEF cmd_load
  <2>3. CASE disk.transferred = "all"
    <3>1. inode' = disk.inode /\ text' = disk.text
      BY <1>9, <2>3 DEF cmd_load
    <3> DEFINE snapshot == [node |-> NodesIn(disk.inode, disk.text), entries |-> EntriesIn(disk.inode)]
    <3>2. snapshot \in Saved /\ NodesIn(inode', text') = snapshot.node /\ EntriesIn(inode') = snapshot.entries
      BY <2>3, <3>1 DEF Saved
    <3> HIDE DEF snapshot
    <3> QED BY <1>1, <2>1, <3>2 DEF SnapStep, Snapshots!Load, Saved
  <2> QED BY <2>1, <2>2, <2>3
<1>10. CASE Ends
  <2>1. InTree(inode') = {}
    <3>1. IsTable(inode')
      BY <1>10, EndKeepsData DEF DataInv
    <3>2. \A id \in Ids : ~inode'[id].is_active
      BY <1>10 DEF Ends, ZeroInode
    <3> QED BY <3>1, <3>2, TreeMembers DEF Belongs
  <2>2. NodesIn(inode', text') = [n \in {} |-> n] /\ EntriesIn(inode') = [d \in {} |-> d]
    BY <2>1 DEF NodesIn, EntriesIn
  <2>3. Saved' = Saved
    <3>1. CASE phase = "saving"
      <4>1. PICK torn \in Tears : disk' = Image(torn)
        BY <1>10, <3>1 DEF Ends
      <4>2. disk'.transferred = "nothing" /\ disk.transferred = "nothing"
        BY <3>1, <4>1, ImageFields DEF CutShort, SnapInv
      <4> QED BY <4>2 DEF Saved
    <3>2. CASE phase # "saving"
      BY <1>1, <1>10, <3>2 DEF Ends
    <3> QED BY <3>1, <3>2
  <2> QED BY <2>2, <2>3 DEF SnapStep, Snapshots!Stop, Snapshots!NoTree, Saved
<1>11. CASE Boots
  BY <1>0, <1>11 DEF Boots, RunInv
<1> QED BY <1>0, <1>5, <1>6, <1>7, <1>8, <1>9, <1>10, <1>11, ShellSteps DEF ShellInv

(* Within one run the shell, its table and the image implement             *)
(* SnapshotSpec: load brings back the tree of the last save with the       *)
(* contents of its files, whatever was done in between, though it restores *)
(* neither the counter nor the directory the shell stands in.              *)
THEOREM ImplementingSnapshots ==
  ASSUME WholeImages, CutShort, MaxBoots = 1, ShortNames
  PROVE  ShellSpec => ImplementsSnapshots
<1>1. ShellInit => SnapInv /\ Snapshots!IsTree /\ Saved = {}
  BY SnapInvInit, SnapshotInit
<1>2. SnapInv /\ [ShellNext]_vars => SnapInv'
  BY SnapInvNext
<1>3. SnapInv /\ [ShellNext]_vars => [SnapStep]_(Snapshots!snapvars)
  <2>1. ASSUME UNCHANGED vars PROVE UNCHANGED Snapshots!snapvars
    BY <2>1 DEF vars, Snapshots!snapvars
  <2> QED BY <2>1, StepsOfSnapshots
<1> QED BY <1>1, <1>2, <1>3, PTL DEF ShellSpec, ImplementsSnapshots, Snapshots!SnapSpec, SnapStep, Saved

-----------------------------------------------------------------------------
(* What the commands show.  A file without a block has no bytes, and the   *)
(* text at a file's block is one that was written, in RAM and in the image.*)
TextsIn(t, x) ==
  \A id \in Ids : t[id].is_active =>
    IF t[id].data_offset = NONE THEN t[id].data_size = 0 ELSE x[t[id].data_offset] \in Contents

LEMMA CreateKeepsTexts ==
  ASSUME DataInv, TextsIn(inode, text), NEW d \in Ids, NEW name,
         NEW type \in {INODE_FILE, INODE_DIR}, fs_create(d, name, type)
  PROVE  TextsIn(inode', text')
<1>1. PICK id : id = next_inode_id
  OBVIOUS
<1>2. /\ \A j \in Ids \ {id} : SameRest(inode'[j], inode[j])
      /\ inode'[id].data_offset = NONE /\ inode'[id].data_size = 0
  BY <1>1, CreateSpares
<1>3. text' = text
  BY DEF fs_create
<1> QED BY <1>2, <1>3 DEF TextsIn, SameRest

LEMMA DeleteKeepsTexts ==
  ASSUME DataInv, TextsIn(inode, text), NEW id \in Ids, fs_delete(id)
  PROVE  TextsIn(inode', text')
<1>1. /\ \A j \in Ids \ {id} : SameRest(inode'[j], inode[j])
      /\ ~inode'[id].is_active /\ inode[id].is_active
  BY DeleteSpares DEF fs_delete, MayDelete
<1>2. text' = TextsBut(id)
  BY DEF fs_delete
<1>3. ASSUME NEW j \in Ids \ {id}, HasData(j) PROVE text'[inode[j].data_offset] = text[inode[j].data_offset]
  BY <1>1, <1>2, <1>3, OthersKeep
<1> QED BY <1>1, <1>3 DEF TextsIn, SameRest, HasData

LEMMA WriteKeepsTexts ==
  ASSUME DataInv, TextsIn(inode, text), NEW id \in Ids, NEW data \in Contents, fs_write(id, data)
  PROVE  TextsIn(inode', text')
<1> DEFINE ptr == Alloc(Freed(id), BytesFor(data)).ptr
           size == IF ptr # NONE THEN BytesFor(data) ELSE 0
<1>1. inode[id].is_active /\ inode = [j \in Ids |-> inode[j]] /\ \A j \in Ids : IsInode(inode[j])
  BY DEF fs_write, DataInv, IsTable
<1>2. inode' = [inode EXCEPT ![id].data_offset = ptr, ![id].data_size = size]
  BY DEF fs_write
<1>3. text' = [p \in DOMAIN TextsBut(id) \cup (IF ptr # NONE THEN {ptr} ELSE {}) |->
                 IF p = ptr THEN data ELSE text[p]]
  BY DEF fs_write
<1>4. ptr = NONE => size = 0
  OBVIOUS
<1> HIDE DEF ptr, size
<1>5. /\ inode'[id].data_offset = ptr /\ inode'[id].data_size = size
      /\ \A j \in Ids \ {id} : inode'[j] = inode[j]
  <2>1. /\ inode'[id] = [inode[id] EXCEPT !.data_offset = ptr, !.data_size = size]
        /\ \A j \in Ids \ {id} : inode'[j] = inode[j]
    BY <1>1, <1>2
  <2>2. IsInode(inode[id])
    BY <1>1
  <2> QED BY <2>1, <2>2 DEF IsInode
<1>6. ptr # NONE => text'[ptr] = data
  BY <1>3
<1>7. ASSUME NEW j \in Ids \ {id}, HasData(j)
      PROVE  text'[inode[j].data_offset] \in Contents
  <2>1. inode[j].data_offset \in DOMAIN TextsBut(id)
    BY <1>1, <1>7, OthersKeep
  <2>2. text[inode[j].data_offset] \in Contents
    BY <1>7 DEF TextsIn, HasData
  <2> QED BY <1>3, <2>1, <2>2
<1> DEFINE Has(t, x, j) == t[j].is_active =>
             IF t[j].data_offset = NONE THEN t[j].data_size = 0 ELSE x[t[j].data_offset] \in Contents
<1>8. Has(inode', text', id)
  BY <1>4, <1>5, <1>6
<1>9. \A j \in Ids \ {id} : Has(inode', text', j)
  BY <1>5, <1>7 DEF TextsIn, HasData
<1> QED BY <1>8, <1>9 DEF TextsIn

TextsInv ==
  phase # "off" =>
    /\ TextsIn(inode, text)
    /\ disk.transferred = "all" => TextsIn(disk.inode, disk.text)

LEMMA TextsInvNext ==
  ASSUME WholeImages, MaxBoots = 1, SnapInv, TextsInv, [ShellNext]_vars
  PROVE  TextsInv'
<1>1. ShellInv /\ DataInv /\ current_dir \in Ids /\ boots = 1
  BY DEF SnapInv, RunInv, ShellInv
<1>2. CASE FsStep
  BY <1>1, <1>2, CreateKeepsTexts, DeleteKeepsTexts, WriteKeepsTexts
     DEF FsStep, StayPut, CreateStep, DeleteStep, WriteStep, TextsInv
<1>3. CASE phase = "running" /\ cmd_cd
  BY <1>3 DEF cmd_cd, TextsInv
<1>4. CASE phase = "running" /\ SaveOpens
  BY <1>4, ImageFields DEF SaveOpens, TextsInv
<1>5. ASSUME NEW transferred \in Transfers, SaveWrites(transferred) PROVE TextsInv'
  <2>1. transferred = "nothing" \/ transferred = "all"
    BY DEF WholeImages
  <2> QED BY <1>5, <2>1, ImageFields DEF SaveWrites, TextsInv
<1>6. CASE phase = "running" /\ cmd_load
  <2>1. disk.transferred = "nothing" \/ disk.transferred = "all"
    BY <1>1, <1>6 DEF ShellInv, ImageInv, cmd_load
  <2> QED BY <1>6, <2>1 DEF cmd_load, TextsInv
<1>7. CASE PromptOverruns
  BY <1>7 DEF PromptOverruns, TextsInv
<1>8. CASE Ends
  BY <1>8 DEF Ends, TextsInv
<1>9. CASE UNCHANGED vars
  BY <1>9 DEF vars, TextsInv
<1>10. CASE Boots
  BY <1>1, <1>10 DEF Boots
<1> QED BY <1>1, <1>2, <1>3, <1>4, <1>5, <1>6, <1>7, <1>8, <1>9, <1>10, ShellSteps

(* An active file reads back a text that was written, of its size.         *)
LEMMA CatShowsText ==
  ASSUME FsInv, TextsIn(inode, text), Garbage \notin Contents, NEW i \in Active,
         inode[i].type = INODE_FILE
  PROVE  Read(i) # Garbage /\ Len(Read(i)) = Max({0, inode[i].data_size - 1})
<1> DEFINE ptr == inode[i].data_offset
           size == inode[i].data_size
<1>0. i \in Ids /\ inode[i].is_active /\ size \in Nat
  BY DEF Active, FsInv, DataInv, IsTable, IsInode
<1>1. \A n \in Nat : Max({0, n - 1}) = IF n = 0 THEN 0 ELSE n - 1
  <2> SUFFICES ASSUME NEW n \in Nat PROVE Max({0, n - 1}) = IF n = 0 THEN 0 ELSE n - 1
    OBVIOUS
  <2>1. PICK m : m = IF n = 0 THEN 0 ELSE n - 1
    OBVIOUS
  <2>2. m \in {0, n - 1} /\ (\A k \in {0, n - 1} : m >= k) /\ m \in Int
    BY <2>1
  <2>3. \A k \in {0, n - 1} : (\A y \in {0, n - 1} : k >= y) => k = m
    BY <2>2
  <2>4. Max({0, n - 1}) = m
    BY <2>2, <2>3 DEF Max
  <2> QED BY <2>1, <2>4
<1>2. CASE ptr = NONE
  <2>1. Read(i) = <<>> /\ size = 0
    BY <1>0, <1>2 DEF Read, ReadFrom, TextsIn
  <2>2. <<>> # Garbage /\ Len(<<>>) = 0
    BY DEF Garbage
  <2> QED BY <1>1, <2>1, <2>2
<1>3. CASE ptr # NONE
  <2>1. ptr \in DOMAIN text /\ BytesFor(text[ptr]) = size
    BY <1>0, <1>3 DEF FsInv, DataInv, FilesOwnBlocks, Owns, HasData
  <2>2. Read(i) = text[ptr] /\ text[ptr] \in Contents
    BY <1>0, <1>3, <2>1 DEF Read, ReadFrom, TextsIn
  <2>3. Len(text[ptr]) \in Nat /\ size = Len(text[ptr]) + 1
    BY <2>1, <2>2, TextAssumption DEF BytesFor
  <2>4. Max({0, size - 1}) = size - 1
    <3>1. size # 0
      BY <2>3
    <3> QED BY <1>0, <1>1, <3>1
  <2>5. Len(text[ptr]) = size - 1
    BY <2>3
  <2>6. text[ptr] # Garbage
    BY <2>2
  <2> QED BY <2>2, <2>4, <2>5, <2>6
<1> QED BY <1>2, <1>3

(* Within one run the commands show one directory: what ls lists is what   *)
(* cat and rm find by its name, with the text that was written; cd goes    *)
(* into the directories listed but for those named ".." or "/", which it   *)
(* takes for the parent and the root; cd .. leads back, whatever is listed *)
(* there; and the path of pwd leads fs_find_child back.                    *)
THEOREM CommandsShowOneTree ==
  ASSUME WholeImages, MaxBoots = 1, ShortNames, Garbage \notin Contents
  PROVE  ShellSpec => []CommandsAgree
<1>1. ShellInit => SnapInv /\ TextsInv
  <2> SUFFICES ASSUME ShellInit PROVE TextsInv
    BY SnapInvInit
  <2>1. \A id \in Ids : inode[id].is_active => inode[id].data_offset = NONE /\ inode[id].data_size = 0
    BY DEF ShellInit, FsInit, FormattedTable, DefaultInode, ZeroInode
  <2>2. disk.transferred # "all"
    BY DEF ShellInit, NoImage
  <2> QED BY <2>1, <2>2 DEF TextsInv, TextsIn
<1>2. SnapInv /\ TextsInv /\ [ShellNext]_vars => SnapInv' /\ TextsInv'
  BY SnapInvNext, TextsInvNext
<1>3. SnapInv /\ TextsInv => CommandsAgree
  <2> SUFFICES ASSUME SnapInv, TextsInv, phase = "running", current_dir \in InTree(inode)
               PROVE  /\ Resolve(cmd_pwd) = current_dir
                      /\ \A k \in DOMAIN cmd_ls :
                           LET shown == inode[cmd_ls[k]]
                           IN /\ FindChild(current_dir, shown.name) = cmd_ls[k]
                              /\ shown.type = INODE_FILE =>
                                   /\ cmd_cat(shown.name) # Garbage
                                   /\ Len(cmd_cat(shown.name)) = Max({0, shown.data_size - 1})
                              /\ shown.type = INODE_DIR =>
                                   /\ shown.name \notin {DOT_DOT, SLASH} =>
                                        Destination(current_dir, shown.name) = cmd_ls[k]
                                   /\ Destination(cmd_ls[k], DOT_DOT) = current_dir
    BY DEF CommandsAgree
  <2>1. FsInv /\ LinkedIn(inode) /\ TextsIn(inode, text) /\ IsTable(inode) /\ Ordered
    BY RunData DEF SnapInv, TextsInv, FsInv, DataInv
  <2>2. RootIsDir /\ ListsAgree /\ BelowDirs /\ NamesDiffer
    BY <2>1, LinksByParts
  <2>3. InTree(inode) \in SUBSET Ids /\ InTree(inode) \subseteq Active
    BY <2>1, TreeMembers, TreeNow
  <2>6. Resolve(cmd_pwd) = current_dir
    BY <2>1, PathLeadsBack DEF cmd_pwd
  <2>7. ASSUME NEW k \in DOMAIN cmd_ls
        PROVE  /\ cmd_ls[k] \in Active \ {ROOT}
               /\ inode[cmd_ls[k]].parent_id = current_dir
    <3> DEFINE children == inode[current_dir].children
    <3>1. k \in DOMAIN children /\ cmd_ls[k] = children[k]
      BY DEF cmd_ls, Listed
    <3>2. children \in Seq(Ids)
      BY <2>1, <2>3 DEF IsTable, IsInode
    <3>3. children[k] \in ChildrenOf(current_dir)
      BY <2>2, <2>3, <3>1, <3>2 DEF ListsAgree, Enumerates, ToSet
    <3> QED BY <2>1, <3>1, <3>3, ChildrenInTree DEF ChildrenOf
  <2>8. ASSUME NEW k \in DOMAIN cmd_ls
        PROVE  FindChild(current_dir, inode[cmd_ls[k]].name) = cmd_ls[k]
    BY <2>1, <2>3, <2>7, FoundByName
  <2>9. ASSUME NEW k \in DOMAIN cmd_ls, inode[cmd_ls[k]].type = INODE_FILE
        PROVE  LET shown == inode[cmd_ls[k]]
               IN /\ cmd_cat(shown.name) # Garbage
                  /\ Len(cmd_cat(shown.name)) = Max({0, shown.data_size - 1})
    <3>1. cmd_cat(inode[cmd_ls[k]].name) = Read(cmd_ls[k])
      BY <2>8 DEF cmd_cat
    <3> QED BY <2>1, <2>7, <2>9, <3>1, CatShowsText
  <2>10. ASSUME NEW k \in DOMAIN cmd_ls, inode[cmd_ls[k]].type = INODE_DIR
         PROVE  /\ inode[cmd_ls[k]].name \notin {DOT_DOT, SLASH} =>
                     Destination(current_dir, inode[cmd_ls[k]].name) = cmd_ls[k]
                /\ Destination(cmd_ls[k], DOT_DOT) = current_dir
    <3>1. cmd_ls[k] # NONE /\ inode[cmd_ls[k]].parent_id = current_dir /\ current_dir # NONE
      BY <2>3, <2>7 DEF Active, Ids, NONE
    <3>2. Below(current_dir, inode[cmd_ls[k]].name) = cmd_ls[k]
      BY <2>8, <2>10, <3>1 DEF Below
    <3>3. Above(cmd_ls[k]) = current_dir
      BY <3>1 DEF Above
    <3>4. \A dir : Destination(dir, DOT_DOT) = Above(dir)
      BY DEF Destination, DOT_DOT, SLASH
    <3>5. \A dir, name : name \notin {DOT_DOT, SLASH} => Destination(dir, name) = Below(dir, name)
      BY DEF Destination
    <3> QED BY <3>2, <3>3, <3>4, <3>5
  <2> QED BY <2>6, <2>8, <2>9, <2>10
<1> QED BY <1>1, <1>2, <1>3, PTL DEF ShellSpec

-----------------------------------------------------------------------------
(* What memstat shows.  FileBytes is a recursive function over the table.  *)
LEMMA FileBytesSteps ==
  ASSUME DataInv
  PROVE  \E bytes : /\ FileBytes = bytes[MAX_INODES] /\ bytes[0] = 0
                    /\ \A k \in 1 .. MAX_INODES : bytes[k] = bytes[k - 1] + SizeOf(k - 1)
<1> DEFINE Step(g) == [k \in 0 .. MAX_INODES |->
                         IF k = 0 THEN 0
                         ELSE g[k - 1] + (IF HasData(k - 1) THEN inode[k - 1].data_size ELSE 0)]
           Solves(g) == g = Step(g)
           w == [k \in 1 .. MAX_INODES |-> SizeOf(k - 1)]
<1>1. MAX_INODES \in Nat /\ \A k \in 1 .. MAX_INODES : k - 1 \in Ids /\ k # 0
  BY TableAssumption DEF Ids
<1>2. w \in [1 .. MAX_INODES -> Nat]
  BY <1>1 DEF DataInv, IsTable, IsInode, SizeOf
<1>3. \A k \in 1 .. MAX_INODES : w[k] = SizeOf(k - 1)
  OBVIOUS
<1> HIDE DEF w
<1>4. PICK f \in [0 .. MAX_INODES -> Nat] :
        f[0] = 0 /\ \A k \in 1 .. MAX_INODES : f[k] = f[k - 1] + w[k]
  BY <1>1, <1>2, SumsOfFirst
<1>5. Solves(f)
  <2>1. ASSUME NEW k \in 0 .. MAX_INODES PROVE f[k] = Step(f)[k]
    <3>1. CASE k = 0
      BY <1>4, <3>1
    <3>2. CASE k # 0
      <4>1. f[k] = f[k - 1] + SizeOf(k - 1)
        BY <1>1, <1>3, <1>4, <3>2
      <4> QED BY <3>2, <4>1 DEF SizeOf
    <3> QED BY <3>1, <3>2
  <2> HIDE DEF Step
  <2>2. DOMAIN Step(f) = 0 .. MAX_INODES /\ Step(f) = [k \in 0 .. MAX_INODES |-> Step(f)[k]]
    BY DEF Step
  <2> QED BY <2>1, <2>2
<1> DEFINE bytes == CHOOSE g : Solves(g)
<1>6. FileBytes = bytes[MAX_INODES]
  BY DEF FileBytes
<1>7. Solves(bytes)
  <2> HIDE DEF Solves
  <2> QED BY <1>5
<1> HIDE DEF bytes
<1>8. \A k \in 0 .. MAX_INODES :
        bytes[k] = IF k = 0 THEN 0
                   ELSE bytes[k - 1] + (IF HasData(k - 1) THEN inode[k - 1].data_size ELSE 0)
  BY <1>7
<1>9. bytes[0] = 0 /\ \A k \in 1 .. MAX_INODES : bytes[k] = bytes[k - 1] + SizeOf(k - 1)
  BY <1>1, <1>8 DEF SizeOf
<1> QED BY <1>6, <1>9

(* No block in use wastes more than a header, in RAM and in the image.     *)
SnugInv ==
  phase # "off" =>
    /\ Snug(inode, chain)
    /\ disk.transferred = "all" => Snug(disk.inode, disk.chain)

LEMMA SnugInvNext ==
  ASSUME WholeImages, MaxBoots = 1, RunInv, SnugInv, [ShellNext]_vars
  PROVE  SnugInv'
<1>1. ShellInv /\ DataInv /\ current_dir \in Ids /\ boots = 1
  BY DEF RunInv, ShellInv
<1>2. CASE FsStep
  BY <1>1, <1>2, CreateKeepsSnug, DeleteKeepsSnug, WriteKeepsSnug
     DEF FsStep, StayPut, CreateStep, DeleteStep, WriteStep, SnugInv
<1>3. CASE phase = "running" /\ cmd_cd
  BY <1>3 DEF cmd_cd, SnugInv
<1>4. CASE phase = "running" /\ SaveOpens
  BY <1>4, ImageFields DEF SaveOpens, SnugInv
<1>5. ASSUME NEW transferred \in Transfers, SaveWrites(transferred) PROVE SnugInv'
  <2>1. transferred = "nothing" \/ transferred = "all"
    BY DEF WholeImages
  <2> QED BY <1>5, <2>1, ImageFields DEF SaveWrites, SnugInv
<1>6. CASE phase = "running" /\ cmd_load
  <2>1. disk.transferred = "nothing" \/ disk.transferred = "all"
    BY <1>1, <1>6 DEF ShellInv, ImageInv, cmd_load
  <2> QED BY <1>6, <2>1 DEF cmd_load, SnugInv
<1>7. CASE PromptOverruns
  BY <1>7 DEF PromptOverruns, SnugInv
<1>8. CASE Ends
  BY <1>8 DEF Ends, SnugInv
<1>9. CASE UNCHANGED vars
  BY <1>9 DEF vars, SnugInv
<1>10. CASE Boots
  BY <1>1, <1>10 DEF Boots
<1> QED BY <1>1, <1>2, <1>3, <1>4, <1>5, <1>6, <1>7, <1>8, <1>9, <1>10, ShellSteps

(* Within one run memstat counts the files: its used bytes are those of    *)
(* their data, with at most a header to spare for each, whatever was       *)
(* created, written, deleted, saved and loaded.                            *)
THEOREM MemstatCounts ==
  ASSUME WholeImages, MaxBoots = 1
  PROVE  ShellSpec => []MemstatCountsFiles
<1>1. ShellInit => RunInv /\ SnugInv
  <2> SUFFICES ASSUME ShellInit PROVE SnugInv
    BY RunInvInit
  <2>1. \A id \in Ids : inode[id].is_active => inode[id].data_offset = NONE
    BY DEF ShellInit, FsInit, FormattedTable, DefaultInode, ZeroInode
  <2>2. disk.transferred # "all"
    BY DEF ShellInit, NoImage
  <2> QED BY <2>1, <2>2 DEF SnugInv, Snug
<1>2. RunInv /\ SnugInv /\ [ShellNext]_vars => RunInv' /\ SnugInv'
  BY RunInvNext, SnugInvNext
<1>3. RunInv /\ SnugInv => MemstatCountsFiles
  <2> SUFFICES ASSUME RunInv, SnugInv, phase = "running" PROVE MemstatCountsFiles
    BY DEF MemstatCountsFiles
  <2>1. FsInv /\ Snug(inode, chain) /\ DataInv /\ Sound(chain)
    BY RunData DEF SnugInv, FsInv, DataInv
  <2>2. memory_used(chain) \in
          FileBytes .. FileBytes + BLOCK_HEADER_SIZE * Cardinality({id \in Ids : HasData(id)})
    BY <2>1, FileBytesSteps, BytesOfFiles
  <2>3. memory_used(chain) + memory_free(chain) + BLOCK_HEADER_SIZE * Cardinality(DOMAIN chain)
          = RAM_SIZE - DATA_REGION_OFFSET
    BY <2>1, BytesOfChain DEF DATA_REGION_SIZE
  <2>4. /\ cmd_memstat.used = memory_used(chain)
        /\ cmd_memstat.total = memory_used(chain) + memory_free(chain)
    BY DEF cmd_memstat
  <2> QED BY <2>2, <2>3, <2>4 DEF MemstatCountsFiles
<1> QED BY <1>1, <1>2, <1>3, PTL DEF ShellSpec
=============================================================================
