------------------------------- MODULE Session ------------------------------
(***************************************************************************)
(* The shell of core/shell.c and the commands of core/commands.c on top of *)
(* the file system, the image mineos.img, and the end and restart of the   *)
(* program.  save and load copy VIRTUAL_RAM; next_inode_id and current_dir *)
(* are not in it, so load leaves them as they are and a restart resets     *)
(* them.  A command that is refused changes nothing but the tick count of  *)
(* the scheduler and is not a step.                                        *)
(***************************************************************************)
EXTENDS FileSystem

CONSTANTS
  PATH_SIZE,      \* size of the prompt's buffer for the path, 256 in the code
  MaxBoots,       \* how often the program is started (a bound)
  Transfers,      \* how much of the image the fwrite of a save may transfer
  Tears           \* how much of it there may be when the program dies in a save

ASSUME CutAssumption == Transfers \cup Tears \subseteq {"nothing", "tables", "all"}

ASSUME BootsAssumption == MaxBoots \in Nat \ {0}

VARIABLES
  current_dir,    \* the local variable of shell_run
  disk,           \* mineos.img
  phase,          \* "running", "saving" (fopen done, fwrite not), "overrun", "off"
  boots           \* how often the program has been started

vars == <<inode, next_inode_id, chain, text, current_dir, disk, phase, boots>>

HOME == 3

NoImage == [transferred |-> "no file"]

(* What the file holds after the first part of VIRTUAL_RAM was written. *)
Image_WithoutData(transferred) ==
  CASE transferred = "nothing" -> [transferred |-> "nothing"]
    [] transferred # "nothing" -> [transferred |-> "all", inode |-> inode,
                                   chain |-> FreshChain, text |-> [ptr \in {} |-> <<>>]]
Image(transferred) ==
  CASE transferred = "nothing" -> [transferred |-> "nothing"]
    [] transferred = "tables"  -> [transferred |-> "tables", inode |-> inode]
    [] transferred = "all"     -> [transferred |-> "all", inode |-> inode,
                                   chain |-> chain, text |-> text]

ShellInit ==
  /\ FsInit
  /\ current_dir = HOME
  /\ disk = NoImage
  /\ phase = "running"
  /\ boots = 1

-----------------------------------------------------------------------------
(* Commands.  The loop of shell_run builds the path of current_dir for the *)
(* prompt before it reads one.                                             *)

FitsBuffer(id) == PathBytes(id) <= PATH_SIZE

FitsPrompt(id) == PathFits(id) /\ FitsBuffer(id)

Prompted == phase = "running" /\ FitsPrompt(current_dir)

StayPut == UNCHANGED <<current_dir, disk, phase, boots>>

cmd_touch(name) == fs_create(current_dir, name, INODE_FILE) /\ StayPut
cmd_mkdir(name) == fs_create(current_dir, name, INODE_DIR) /\ StayPut

cmd_write(name, data) ==
  LET id == FindChild(current_dir, name)
  IN id # NONE /\ fs_write(id, data) /\ StayPut

cmd_rm(name) ==
  LET id == FindChild(current_dir, name)
  IN id # NONE /\ fs_delete(id) /\ StayPut

(* Where cd with an argument leads from a directory.  The argument is      *)
(* compared with ".." and "/" before any child is looked for; an argument  *)
(* that is refused leaves the shell where it is.                           *)
DOT_DOT == <<"..">>
SLASH   == <<"/">>

Above_Unchecked(dir) == inode[dir].parent_id
Above(dir) == IF inode[dir].parent_id = NONE THEN ROOT ELSE inode[dir].parent_id

Below(dir, name) ==
  LET id == FindChild(dir, name)
  IN IF id # NONE /\ inode[id].type = INODE_DIR THEN id ELSE dir

Destination_ChildFirst(dir, name) ==
  LET reserved == IF name = DOT_DOT THEN Above(dir) ELSE ROOT
  IN IF Below(dir, name) = dir /\ name \in {DOT_DOT, SLASH} THEN reserved ELSE Below(dir, name)
Destination(dir, name) ==
  CASE name = DOT_DOT -> Above(dir)
    [] name = SLASH -> ROOT
    [] name \notin {DOT_DOT, SLASH} -> Below(dir, name)

cmd_cd ==
  /\ \/ current_dir' = HOME
     \/ \E name \in Names \cup {DOT_DOT, SLASH} : current_dir' = Destination(current_dir, name)
  /\ UNCHANGED <<inode, next_inode_id, chain, text, disk, phase, boots>>

(* What ls, cat, pwd and memstat show; they change nothing. *)
cmd_ls == Listed(current_dir)
cmd_cat(name) == Read(FindChild(current_dir, name))
cmd_pwd == Path(current_dir)

cmd_memstat ==
  LET used == memory_used(chain)
      free_bytes == memory_free(chain)
  IN [total |-> used + free_bytes, used |-> used, free |-> free_bytes]

(* fopen "wb" empties the file before fwrite fills it. *)
SaveOpens ==
  /\ disk' = Image("nothing")
  /\ phase' = "saving"
  /\ UNCHANGED <<inode, next_inode_id, chain, text, current_dir, boots>>

(* The result of fwrite is not looked at: save reports success. *)
SaveWrites(transferred) ==
  /\ phase = "saving"
  /\ disk' = Image(transferred)
  /\ phase' = "running"
  /\ UNCHANGED <<inode, next_inode_id, chain, text, current_dir, boots>>

(* fread fills as much of VIRTUAL_RAM as the file has and leaves the rest. *)
cmd_load ==
  /\ disk # NoImage
  /\ inode' = IF disk.transferred = "nothing" THEN inode ELSE disk.inode
  /\ IF disk.transferred = "all"
     THEN chain' = disk.chain /\ text' = disk.text
     ELSE UNCHANGED <<chain, text>>
  /\ UNCHANGED <<next_inode_id, current_dir, disk, phase, boots>>

(* When it builds the prompt, fs_get_path runs past the end of its stack,  *)
(* or past the end of the buffer it is given.                              *)
PromptOverruns ==
  /\ phase = "running"
  /\ ~FitsPrompt(current_dir)
  /\ phase' = "overrun"
  /\ UNCHANGED <<inode, next_inode_id, chain, text, current_dir, disk, boots>>

(* exit, halt, or the program dies: VIRTUAL_RAM is gone, the file stays as *)
(* far as it was written.                                                  *)
Ends ==
  /\ phase # "off"
  /\ phase' = "off"
  /\ IF phase = "saving" THEN \E torn \in Tears : disk' = Image(torn) ELSE UNCHANGED disk
  /\ inode' = [id \in Ids |-> ZeroInode]
  /\ chain' = FreshChain
  /\ text' = [ptr \in {} |-> <<>>]
  /\ next_inode_id' = 0
  /\ current_dir' = HOME
  /\ UNCHANGED boots

(* main: the RAM is formatted and the shell starts at home. *)
Boots ==
  /\ phase = "off"
  /\ boots < MaxBoots
  /\ boots' = boots + 1
  /\ phase' = "running"
  /\ inode' = FormattedTable
  /\ next_inode_id' = Len(DefaultTree)
  /\ chain' = FreshChain
  /\ UNCHANGED <<text, current_dir, disk>>

(* One round of the loop, for a command that is not refused. *)
Command ==
  /\ Prompted
  /\ \/ \E name \in Names :
          \/ cmd_touch(name)
          \/ cmd_mkdir(name)
          \/ \E data \in Contents : cmd_write(name, data)
          \/ cmd_rm(name)
     \/ cmd_cd
     \/ SaveOpens
     \/ cmd_load

ShellNext ==
  \/ Command
  \/ \E transferred \in Transfers : SaveWrites(transferred)
  \/ PromptOverruns
  \/ Ends
  \/ Boots

ShellSpec == ShellInit /\ [][ShellNext]_vars

-----------------------------------------------------------------------------
(* The variables of the shell are in range, those of the file system       *)
(* included.  (shell_run)                                                  *)
ShellTypeOK ==
  /\ TypeOK
  /\ current_dir \in Ids
  /\ phase \in {"running", "saving", "overrun", "off"}
  /\ disk.transferred \in {"no file", "nothing"} \cup Transfers \cup Tears
  /\ boots \in 1 .. MaxBoots

(* The commands show one directory: a name that ls shows, typed to cat or  *)
(* rm, is the entry shown; cat shows a text that was written, of the size  *)
(* the entry has; cd goes into a directory shown, unless it is named ".."  *)
(* or "/" and so hidden from cd, and cd .. leads back out of it, whatever  *)
(* it lists; and fs_find_child follows the path that pwd shows back here.  *)
(* Loads of older images included.                                         *)
(* (cmd_ls, cmd_cat, cmd_cd, cmd_pwd)                                      *)
CommandsAgree ==
  phase = "running" /\ current_dir \in InTree(inode) =>
    /\ Resolve(cmd_pwd) = current_dir
    /\ \A k \in DOMAIN cmd_ls :
         LET shown == inode[cmd_ls[k]]
         IN /\ FindChild(current_dir, shown.name) = cmd_ls[k]
            /\ shown.type = INODE_FILE =>
                 /\ cmd_cat(shown.name) # Garbage
                 /\ Len(cmd_cat(shown.name)) = Max({0, shown.data_size - 1})
            /\ shown.type = INODE_DIR =>
                 /\ shown.name \notin {DOT_DOT, SLASH} =>
                      Destination(current_dir, shown.name) = cmd_ls[k]
                 /\ Destination(cmd_ls[k], DOT_DOT) = current_dir

(* The bytes of the files' data, added up over the table.                  *)
FileBytes ==
  LET bytes[k \in 0 .. MAX_INODES] ==
        IF k = 0 THEN 0
        ELSE bytes[k - 1] + (IF HasData(k - 1) THEN inode[k - 1].data_size ELSE 0)
  IN bytes[MAX_INODES]

(* memstat counts the files: what it shows as used is what their data      *)
(* takes, with at most a header to spare for each, and used and free       *)
(* bytes, with the headers of the chain, are the whole region.             *)
(* (cmd_memstat)                                                           *)
MemstatCountsFiles ==
  phase = "running" =>
    LET files == {id \in Ids : HasData(id)}
    IN /\ cmd_memstat.used \in FileBytes .. FileBytes + BLOCK_HEADER_SIZE * Cardinality(files)
       /\ cmd_memstat.total + BLOCK_HEADER_SIZE * Cardinality(DOMAIN chain)
            = RAM_SIZE - DATA_REGION_OFFSET

(* fs.h:22 calls an inode's number unique: creating an inode leaves every  *)
(* inode in use with its name, its parent and its data.  (create_inode)    *)
CreatesSpareLiveInodes ==
  [][(phase = "running" /\ next_inode_id' > next_inode_id) =>
       \A id \in Active :
         /\ inode'[id].name = inode[id].name
         /\ inode'[id].parent_id = inode[id].parent_id
         /\ inode'[id].data_offset = inode[id].data_offset]_vars

(* The shell always gets to its next prompt, unless the user has gone to a *)
(* directory whose path is longer than path[256]: the walk to the root     *)
(* ends.  (fs_get_path in shell_run)                                       *)
PromptsAlways == phase = "overrun" => PathFits(current_dir) /\ ~FitsBuffer(current_dir)

(* A way out is always left, even after a load of an older image into a    *)
(* newer session: cd and cd / lead to inodes whose walk to the root ends.  *)
(* That of home may be one that was removed: see StandsInDirectory.        *)
(* (cmd_cd, fs_get_path)                                                   *)
CanGoHome == phase = "running" => PathFits(HOME) /\ PathFits(ROOT)

(* commands.c:398 says cd without an argument goes to /home/chandan: the   *)
(* shell stands in a directory that exists.                                *)
StandsInDirectory ==
  phase = "running" => inode[current_dir].is_active /\ inode[current_dir].type = INODE_DIR

(* commands.c:463 says save persists all of VIRTUAL_RAM: when it reports   *)
(* success, the file holds what RAM holds.                                 *)
SavePersists ==
  [][phase = "saving" /\ phase' = "running" => disk' = Image("all")]_vars

Snapshots == INSTANCE SnapshotSpec WITH
  DIR <- INODE_DIR, FILE <- INODE_FILE, Nothing <- <<>>,
  node <- NodesIn(inode, text),
  entries <- EntriesIn(inode),
  saved <- IF disk.transferred = "all"
           THEN {[node |-> NodesIn(disk.inode, disk.text), entries |-> EntriesIn(disk.inode)]}
           ELSE {}

(* Across saves and loads of one run, the tree that ls, cd and cat show is *)
(* that of TreeSpec, and load brings back the tree of the last save with   *)
(* the contents of its files, whatever was created, written or removed in  *)
(* between and wherever the shell stands.  What is in the table and cannot *)
(* be reached from the root is not part of it: a directory can be removed  *)
(* while the shell stands in it, and files be created there.               *)
(* (cmd_save, cmd_load)                                                    *)
ImplementsSnapshots == Snapshots!SnapSpec
=============================================================================
