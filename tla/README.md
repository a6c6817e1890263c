# MINEOS in TLA+

A verification project for MINEOS, a small single-user "operating system" that
runs as one C process: a 10 MB array `VIRTUAL_RAM` holds an inode table, a
process table and a heap; a shell reads commands and calls the file system,
the allocator and the scheduler; `save` and `load` copy the array to and from
the file `mineos.img`.

The specifications say what the program does, TLC checks them on small
instances, and TLAPS proves the theorems listed below for every value of the
constants. `PROJECT.json` maps every definition to the lines it models.

## 1. The system

| component | code | state | operations |
|---|---|---|---|
| memory | `libs/memory.c` | `VIRTUAL_RAM`; block headers chained by offset in its data region | `memory_init`, `alloc`, `dealloc`, `memory_used`, `memory_free`, `memory_dump` |
| file system | `core/fs.c` | 128 inodes at the bottom of `VIRTUAL_RAM`; the static counter `next_inode_id` outside it | `fs_init`, `fs_create`, `fs_delete`, `fs_write`, `fs_read`, `fs_find_child`, `fs_get_path`, `fs_list` |
| scheduler | `core/scheduler.c` | process table in `VIRTUAL_RAM`; the static `global_ticks` outside it | `scheduler_init`, `_tick`, `_spawn`, `_kill`, `_list` |
| commands | `core/commands.c` | none of its own; `mineos.img` | one `cmd_` function per command |
| shell | `core/shell.c` | the local `current_dir` and the flag that ends the loop | `shell_run` |
| keyboard | `libs/keyboard.c` | terminal settings | `read_char`, `read_line` |
| string, math | `libs/string.c`, `libs/math.c` | none (`my_tokenize` cuts the line in place) | string and number helpers |
| screen | `libs/screen.c` | none | output |
| boot | `main.c` | none | the initialisers in order, then the shell |

How they interact: everything is a direct call in one thread. `main`
initialises memory, file system, keyboard and scheduler and enters `shell_run`, which
shows a prompt (with the path of `current_dir`), reads and tokenizes a line,
dispatches it to a command and ticks the scheduler. Commands call the file
system, and the file system is the allocator's only client. All three share
`VIRTUAL_RAM` by offsets. `save`, `load` and `halt` write or read the array as
a whole, *under* the components: they are told nothing.

What is hard, then, is not concurrency but

* **histories**: the shape of the block chain depends on the order of all
  allocations and frees before it; a directory's array on that of all creates
  and deletes;
* **state kept in two places**: `next_inode_id`, `current_dir` and
  `global_ticks` live outside the array that `save` and `load` copy, so they
  go stale when an image is loaded, above all in a later run of the program;
* **partial failure**: a write that frees the old content and is then refused
  the new block; an `fwrite` that transfers less than asked; a death between
  the `fopen` that empties the image and the `fwrite` that fills it;
* **limits**: full directories, the full table, exact fits of blocks, names as
  long as their field, lines with many tokens, numbers at the width of `int`.

What makes each component correct:

* *memory*: blocks tile the data region; a block handed out is large enough,
  overlaps no other and does not move; nothing is lost or leaked.
* *file system*: the table is a tree rooted at inode 0; each file owns its
  data block; each block in use belongs to a file; sibling names are unique;
  printed paths lead back; a file reads back what was last written to it.
* *commands and shell*: `current_dir` is a directory that exists; the prompt
  can always be built; an image is what RAM was, and loading it brings that tree
  back; creating a file touches no other; `ls`, `cat`, `cd` and `pwd` agree, and
  `cd ..` leads back out of a directory whatever is in it.
* *scheduler*: pids are the numbers of slots; a process counts the commands of
  its life; a spawn takes the slot of nobody; the tick after `halt` leaves the
  cleared table alone.
* *keyboard, string, math*: the results stay in their buffers and equal their
  plain definitions; a line is lost only when it is blank; the terminal is
  given back.

## 2. Modules

| module | models | extends |
|---|---|---|
| `BlockChain` | `libs/memory.c` as operators on a chain: `Alloc`, `Dealloc` and the steps they are made of | |
| `HeapSpec` | abstract: what an allocator promises to callers | |
| `Memory` | `alloc` and `dealloc` as actions, with the pointers callers hold; implements `HeapSpec` | `BlockChain` |
| `TreeSpec` | abstract: a tree of named directories and files with contents | |
| `FileSystem` | `core/fs.c` on the block chain; implements `TreeSpec` | `BlockChain` |
| `Session` | shell, commands, the image, end and restart of the program; one run implements `SnapshotSpec` | `FileSystem` |
| `SnapshotSpec` | abstract: that tree, and one snapshot of it | `TreeSpec` |
| `Numbers` | `libs/math.c`, `my_int_to_str` and `my_str_to_int` as operators on the `int`s up to `INT_MAX` | |
| `Scheduler` | `core/scheduler.c` in the loop of the shell, with save, load, halt, death and restart | `Numbers` |
| `Input` | the keys of a line to the words of a command (`read_line`, `my_str_trim`, `my_tokenize`, the joining in `echo` and `write`), and the mode of the terminal around it | |
| `FileSystemMC`, `SessionMC` | values of constants that a `.cfg` cannot express | |
| `OrderLemmas` | the order of the naturals: least elements, induction over a range, functions defined by recursion up or down a range | TLAPS |
| `BlockChainProofs` | lemmas and a theorem about the operators of `BlockChain` | `BlockChain`, `OrderLemmas` |
| `MemoryProofs` | theorems about `Memory` | `Memory`, `BlockChainProofs` |
| `FileSystemProofs` | theorems about `FileSystem` | `FileSystem`, `BlockChainProofs` |
| `ListingProofs` | lists against parents, names, paths, and the refinement of `TreeSpec` | `FileSystemProofs` |
| `SessionProofs` | what survives loads and restarts, what the commands show, and the refinement of `SnapshotSpec` | `Session`, `ListingProofs` |
| `SchedulerProofs` | theorems about `Scheduler`, and that numbers are read back as printed | `Scheduler`, `OrderLemmas` |
| `InputProofs` | theorems about `Input` | `Input`, `OrderLemmas` |

The shell's loop appears in three modules, each with the state its questions
are about: what commands do to the file system (`Session`), what they and the
tick after each do to the process table (`Scheduler`), and how a line becomes a
command (`Input`). The three share no state but through `save`, `load` and
`halt`, and those treat the inode table, the data region and the process table
alike: they copy or clear all of `VIRTUAL_RAM`. So each module has its own part
of the image. The exception is a load of an image that ends inside RAM, which
only `Session` has, in the run `shortwrite`.

### BlockChain and Memory

`chain` maps the offset of each block header that is reachable from
`DATA_REGION_OFFSET` to its header `[size, is_free, next_offset]`. `Alloc` and
`Dealloc` are functions of the chain, so that `FileSystem` can compose them
(`fs_write` frees and allocates in one step). They are built as the code is:
`Walk` and `FirstFit` are the search loop, `Suits` its test, `Splits` and
`RestOffset`/`RestHeader` the split, `Absorbs` and `Merged` the merge with the
*next* block (the code has no merge with the previous one). `Memory` adds
`live`, the callers' pointers with the sizes they asked for; it is a history of
the calls, not state of the code. Callers free only what they hold: that
`core/fs.c` does so is what `DataBlocksExclusive` checks in `FileSystem`.

A header that was absorbed stays in RAM as bytes nobody follows; it leaves the
domain of `chain`. Sizes are plain integers: they are at most 10 MB, far from
the width of `int`.

### FileSystem

`inode` is the table; an inode's `children` array is the sequence of its first
`child_count` entries and `data_offset` the pointer to its text. `text` maps
the pointers of files to the strings in their blocks. `fs_create`, `fs_delete`
and `fs_write` are one action each, with the checks of the code as guards and
every write it makes; a refused call changes nothing, except a refused
`fs_write`, which has freed the old content and is a step. `Read`, `FindChild`
and `Path` are `fs_read`, `fs_find_child` and `fs_get_path`.

Names and contents are short sequences whose elements stand for runs of
characters, so `MAX_NAME_LEN = 2` divides the 32 bytes of the name field in
two. `Stored` is what `strcpy` of a name that fills the field leaves after the
fields behind it are assigned: a file's type is 0 and terminates the name, a
directory's is 1 and is read as one more character (`SOH`). Names of more than
123 bytes would reach past the inode and are left out.

`Next` lets callers create in any directory and delete or write anything
active. `fs_create` does not look at `is_active` of the parent, so that goes for
directories that have been deleted, too, and the shell does get to stand in one.
What is created there stays in the table, and its text on the chain, but no path
leads to it. `TreeSpec` is the same system as its users see it: a set of
nodes with names, kinds and contents, and sets of entries. The refinement
mapping (`NodesIn`, `EntriesIn`) takes the inodes that a path of active
directories leads to (`InTree`) to nodes and reads contents
through the block chain, so it fails whenever an operation on one file shows in
another, or one below a deleted directory in the tree. `TreeSpec` lets a write
put any text of `Contents` into its one file: it says where a write shows and
that a file keeps its text until the next one, not which text was asked for.

`Listed` are the entries that `fs_list` shows, with their places in the list of
children; `PathBytes` is what `fs_get_path` writes of a path, in units of the
names' elements, and is compared with the buffer of the prompt in `Session`.

### Session

`current_dir` is the shell's local, `disk` the image file, `phase` what the
program is doing and `boots` how often it was started (bounded by `MaxBoots`).
`cmd_touch`, `cmd_mkdir`, `cmd_write`, `cmd_rm`, `cmd_cd` and `cmd_load` are
the commands that change state; `cmd_ls`, `cmd_cat`, `cmd_pwd` and
`cmd_memstat` change none and are operators, whose results `CommandsAgree` and
`MemstatCountsFiles` relate. `cd` is typed a name, as the others are:
`Destination` compares it with `..` and `/` before it looks for a child, as the
code does, so that a directory made by `mkdir ..` is listed and never entered.
`CommandsAgree` says just that: each directory listed is where `cd` leads, those
two names excepted, and from each `cd ..` leads back. `save` takes two steps, since the `fopen` that
empties the image and the `fwrite` that fills it are two calls between which
the program may die. `Command` is one round of the loop: every command waits
for `Prompted`, since the shell builds the prompt first. When `fs_get_path` does
not reach the root within the `MAX_INODES` entries of its stack, or the path
is longer than the buffer (`PATH_SIZE`, 256 in the code), `PromptOverruns` is
the only step left besides the end. The second happens with any deep enough
directory: `PromptsAlways` names it as the one way a prompt can fail.
`Ends` is exit, halt or a death, and `Boots` is `main`.

How much of an image is transferred is one of three cuts: nothing, the tables
at the bottom of RAM, everything. `Transfers` are the cuts an `fwrite` that
returns may have made, `Tears` those of one interrupted by the death of the
program.

`SnapshotSpec` is what a user of `save` and `load` relies on: the tree of
`TreeSpec`, and a snapshot of it that a save replaces (and may lose, when the
program dies in it), a load brings back and an end leaves alone. The refinement
mapping is that of `FileSystem`, of the table in RAM and of the one in the image.
The shell may stand in a directory that has been removed, and create files there;
they are in the table, and never in the tree.

### Scheduler

`process` is the process table, `global_ticks` the static counter beside it,
`mineos_img` the table in the image. `Dispatch` starts a command, one action
for each kind of command ends it with a `result`, and `scheduler_tick` follows
every command, also the last: `shell_run` ticks before it looks at the result.
`cmd_halt` leaves a table of zeros, in which no slot is empty (empty is pid -1)
and no process runs. `Dies` can happen anywhere, and in a save it leaves an
empty image. `scheduler_spawn` and `scheduler_kill` are calls made while a
command runs: they are public but no command makes them yet, and only `main`
spawns.

`born` and `formatted_in` are histories: when a process was spawned, in the
count of `global_ticks`, and in which run the table was made. A load shifts
`born` by the difference between the counter now and then, so `TicksCountLife`
says that a process counts the commands of its life, those undone by a load left
out. `OnlyOldTablesOvertake` says when `ps` may show a process with more ticks
than the system has: only after the image of an earlier run was loaded.

`scheduler_list` prints pids and ticks with `my_int_to_str`. Names shorter than
the 16 bytes of their field are stored whole by `my_strcpy`; only such names
are modelled ("uptime" is the one the code has).

### Input

`input` is the array of `shell_run` that `read_line` fills, `my_str_trim` and
`my_tokenize` then rewrite in place, and the next line overwrites without
clearing it. `PrintableKey`, `BackspaceKey`, `ControlKey` and `EnterKey` are
the branches of `read_line`, `Parse` the trimming, the skip of empty lines and
the tokenizing, `Dispatch` the command and the test for exit, `InputEnds` the
end of the input, after which `read_char` answers 0 and `read_line` ignores it
for ever. `typed` is a history of the keys that had an effect; `Edited` (key by
key with `Edit`) and `Words` say, without an array, which text stands on the screen and what its
words are. The characters read are blanks and letters only (a tab is a control
character to `read_line`), so trimming has no other white space to remove.

`terminal` is the mode of the terminal, which outlives the program;
`original_termios` and `raw_mode_active` are the statics of `keyboard.c`. `Boots`
is `main` up to the first prompt, with `keyboard_init`; exit restores the mode
and `main` restores it once more (`MainReturns`); a program that is killed
(`Dies`) restores nothing, and the next one finds the mode that it left, which
the history `before` records.

`my_tokenize` does not know how many entries `tokens` has (`MAX_TOKENS`, 16 in
the code). A line of 255 characters can have 128 words, and one of more than 16
writes behind the array (`shell.c:29`). The model ends there, in the phase
`overrun`, since what is overwritten is up to the build; what commands get is
claimed of lines that fit, and `OnlyLongLinesOverrun` that lines which do not
are the only ones that overrun, and that all of them do.

### Numbers

`my_int_to_str` and `my_str_to_int` are operators on sequences of character
codes, and the operations of `math.c` they use wrap around the `int`s up to
`INT_MAX` as the compiled code does. `BufferAssumption` says that a buffer of
`BUF_SIZE` bytes takes the digits of `INT_MAX`, a sign and the terminator, as the
16 bytes of the callers do for 2147483647. The smallest `int` is outside `AllReadBack`: `my_abs` leaves
it negative, no digit is written, and `-` is printed.

## 3. Runs

Constants are scaled down together: headers of 2 bytes, a table of 3. The six
directories of `fs_init` take slots 0 to 5, so `MAX_INODES = 8` leaves two
slots, both of which are used up (and the table runs full) in the runs that hold.

| run | result | what it asks |
|---|---|---|
| `memory` | holds | the chain tiles the region; used blocks are those held and neither too small nor too large; the search finds the lowest fit; bytes add up; held blocks stay; `HeapSpec` is implemented |
| `fragmentation` | **violated** | once everything is freed, is a request that fits the region served? |
| `filesystem` | holds | data blocks are exclusive; nothing leaks; parents come first; sibling names are unique; printed paths resolve; listings are complete; slots are not reused; `TreeSpec` is implemented |
| `longnames` | **violated** | are sibling names unique when names exceed their field? |
| `session` | holds | one run of the program with saves and loads anywhere: the commands agree, `memstat` counts the files, the prompt can be built, creates spare what is in use; `SnapshotSpec` is implemented |
| `reboots` | holds | two runs around one image, with deaths also inside a save: what remains true when the counter is stale |
| `input` | holds | commands get the words on the screen; joined arguments have single blanks; blank lines are skipped and no others; lines of too many words overrun the tokens and no others; the terminal is given back; a line that says exit ends the program |
| `scheduler` | holds | two runs with spawns, kills, saves, loads, halts and deaths: pids are slots and what `ps` shows can be killed; ticks count lives; the tick after halt is harmless; what is printed reads back |
| `homeremoved` | **violated** | is `current_dir` always a directory that exists? |
| `slotreuse` | **violated** | do creates spare what is in use, after save, restart and load? |
| `parentcycle` | **violated** | can the prompt be built, after save, restart and load? |
| `shortwrite` | **violated** | does the image hold RAM when `save` reports success? |

Why the bounds are enough.

* `memory`: a region of 18 bytes has room for six blocks. Sizes 0 (refused), 1
  to 4 and 7 give splits with and without a rest, exact fits, rests of exactly
  one header, merges of two free blocks, chains with free blocks side by side,
  and a request refused for want of a large enough block. All 10,726 states of
  chains with holders are visited.
* `filesystem`: two new inodes reach every relation between them: two files in
  one directory or two, a directory in a directory, a file in a new directory,
  a deleted one beside a live one. `MAX_CHILDREN = 5` is one more than the root
  has, so the root runs full. A text of 4 and a region of 15 bytes make the
  second write fail or fragment, depending on the order.
  A directory can be deleted and the other inode then be created in it. All
  218,016 states are visited.
* `session`: two names, one of them that of the home directory, so that the
  shell can remove the directory it starts in, or the one it stands in; the other
  is `..`, which `mkdir` accepts and `cd` takes for the parent. A region
  of nine bytes holds two short texts or one longer one, so writes fail. A path
  buffer of seven is filled by two new directories below one another, and by no
  less. All 92,770 states of one run are visited.
* `reboots`: two slots and a restart make each of two restored inodes collide
  with a new one, alone, together, or as parent and child, and lose the blocks
  they had; the region is full when three blocks are in use, so that a write
  after that is refused. The only name is that of the home directory, so that
  home itself can be removed and its name used again elsewhere. A third run of
  the program is more than TLC visits in reasonable time.
* `input`: an array of eight holds lines of up to seven characters: four words of
  one letter, one more than `tokens` has room for; three words with a blank on
  either side; a line that is full; and it keeps stale words and terminators of a
  longer line behind a shorter one. A key may be dropped at the limit any number
  of times. One letter is enough: words differ in length. It is also the
  command that exits, so that each line of that first word ends the program. The
  number of runs on the terminal is not bounded. All 626,333 states are visited.
* `scheduler`: a table of two slots runs full with one spawn, and a kill of
  either makes the first empty slot differ from the count. Five commands in each
  of two runs are enough to save, load and load again at other counts, and for
  a table saved late to overtake a run that has just begun. `AllReadBack` covers
  every int of 16 bits but the smallest, with one to five digits and both signs,
  in a buffer that the longest one fills (`BUF_SIZE = 7`).

Deadlock is checked in `memory`, and in `input`, where it cannot happen: a
program can be killed and then be started again. It is not in the others: with
everything deleted and the table full the file system has nothing left to do
(`rm` of every directory is allowed), a session is over when the program has
ended for the last time, and `scheduler` stops there or at its bound `MaxTicks`.

Only `input` has a liveness property and fairness. `ExitEnds` assumes that a
program that has been given a line goes on by itself: `WF_vars(Parse)`,
`WF_vars(Dispatch)` and `WF_vars(MainReturns)`, one thread that waits for nothing
but the keyboard. Nothing is assumed of the keyboard: no key is owed to the
program, and no enter. So what `ExitEnds` shows is that the one line is enough,
and would be wrong if trimming, the skip of blank lines or tokenizing lost the
word, joined it to a stale one behind it or cut it short. The commands
themselves are modelled as returning (their loops are bounded by the table and the
chain, which is for the other runs to show). After the end of the input no line is
entered, and the shell spins in `read_line`.

### What the violated properties show

1. `dealloc` merges a block with its successor only (`memory.c:135`). Blocks
   freed in the order of their addresses stay apart, and `alloc` answers NULL
   with an empty heap.
2. A name that fills the 32-byte field is cut by the type assigned after it
   (`fs.c:48-49`). The check for an existing name compares the typed name with
   the cut one, so the same command twice makes two entries of equal names.
3. `cd` without an argument goes to inode 3 unseen (`commands.c:409`), also
   when `/home/chandan` has been removed.
4. `next_inode_id` (`fs.c:18`) is not in the image. After save, restart and
   load it starts at 6 again and the next create takes an inode in use.
5. By the same stale counter, a create in the restored directory 6 makes 6 its
   own parent; the walk of `fs_get_path` then never ends and writes past its
   stack (`fs.c:365`). This is not the overrun of the path buffer, which
   `PromptsAlways` allows.
6. The result of `fwrite` is ignored (`commands.c:474`): a save cut short
   reports success.

What survives the fourth and fifth is also worth knowing, and is what `reboots`
checks: chains stay sound, active files own their blocks, and `cd` and `cd /`
always lead to an inode with a finite path; that of home may be one that was
removed (the third). Blocks do leak then
(`NothingLeaks` is only claimed for one run of the program).

## 4. Proofs

Nothing below depends on the bounds of the runs. `BlockChainProofs` and
`MemoryProofs` hold for every region
size, header size, table size and set of sizes allowed by `LayoutAssumption`
(naturals, a positive header, a region larger than a header) and
`SizesAssumption` (integers).

**The chain.** `Sound` is the inductive form of "tiles the region": headers of
positive size at offsets of the region, starting at its first byte; each
block's `next_offset` is its end, where the next header is, or none, where the
region ends; no header lies inside another block. `FreshSound`,
`OccupySound` and `ReleaseSound` show that formatting, the split of `alloc` and
the merge of `dealloc` keep it; each is a case split on whether there is a rest
or a free successor, with one step per conjunct of `Sound`.

**The search.** `FirstFit` is the loop of `alloc`, a recursive function along
`next_offset`. Its meaning cannot be had by induction over the chain (the
provers cannot instantiate the induction theorems), so `FirstFitIsLowest` argues
by the least counterexample: with `LeastNat` pick the largest offset where the
function and the definition of the lowest fit disagree; one unfolding of the
function leads to its successor, where they agree, and the two agree there too.

**Sums.** `memory_used` and `memory_free` are such functions too, and what they
return is a sum, for which there is no other definition to disagree with. So the
induction is made in `OrderLemmas`, once, for *sets* of numbers instead of
predicates: `InductUpTo` says that a set with 0 and with the successor of each
element below `n` has `0 .. n`, `RecursionDownwards` that an equation which leads
from each number to larger ones has a solution, and `SumsOfFirst` that the sums
of the first elements of a list exist. With them `WeighsUp` says that a loop over
the chain adds up the weights of its blocks, and `BytesOfChain` that used bytes,
free bytes and headers are the region: from any block on, the three are
together what is left of it (`From`, `OneBlockMore`).

**The allocator.** The invariant is
`Inv == TypeOK /\ ChainTiles /\ UsedBlocksAreHeld`. None of the three is
inductive alone: that a freed pointer is a block in use needs
`UsedBlocksAreHeld`, which needs offsets to be typed and blocks not to overlap.
`AllocStep` and `DeallocStep` preserve it, from `AllocOutcome` and
`DeallocOutcome`, which say what the operators return on a sound chain. From
`Inv` follow

| theorem | statement |
|---|---|
| `Typing` | `Spec => []TypeOK` |
| `Tiling` | `Spec => []ChainTiles` |
| `Holding` | `Spec => []UsedBlocksAreHeld` |
| `Searching` | `Spec => []SearchFindsLowestFit` |
| `AddingUp` | `Spec => []BytesAddUp` |
| `Staying` | `Spec => HeldBlocksStay` |
| `Implementing` | `Spec => ImplementsHeap` |

**The file system.** `FileSystemProofs` has no bound on names, texts (their
lengths are naturals, `TextAssumption`), children or inodes but those of
`TableAssumption`: six slots and four children, which `fs_init` fills. Its
invariant is `FsInv == DataInv /\ Ordered /\ SparesInactive /\ NothingLeaks`:

* `DataInv` is what every operation keeps on *any* table, whatever slot the
  counter names and whatever the parents are, and is what survives a restart:
  every slot is a record with all its fields in range (`IsTable`; the checked
  `TypeOK` does not say that, and `EXCEPT` on a field needs it), the chain is
  `Sound`, and each file with data owns a block in use and its pointer is in
  `text` (`FilesOwnBlocks`). The last gives the argument of `dealloc` its meaning:
  `FreedBlocks` and `OthersKeep` say that freeing the block of one file leaves
  those of the others.
* `Ordered`: `parent_id` is smaller than the slot, *for deleted slots too*.
  Stated of active inodes only it would not be inductive for the walk, which
  would then have to know that ancestors are not deleted first.
* `SparesInactive`: what the counter has not reached is neither in use nor a
  directory, so a create overwrites nothing, and is in a slot above its parent
  also when that was deleted (`CreatesBelow`).
* `NothingLeaks`, which is inductive with the rest.

`CreateKeeps`, `DeleteKeeps` and `WriteKeeps` are one lemma per operation, each
with one step per part; `WriteKeeps` splits on whether the request for the new
block is refused. `UpSteps` shows that the recursive `Up` satisfies its equation
(by the least length for which no function does) and `WalkEnds` that round `n`
of the walk is at most at `id - n`, again by the least counterexample.

| theorem | statement |
|---|---|
| `FsTyping` | `Spec => []TypeOK` |
| `Exclusive` | `Spec => []DataBlocksExclusive` |
| `LeakFree` | `Spec => []NothingLeaks` |
| `PathsEnd` | `Spec => []ParentsComeFirst` |
| `NoReuse` | `Spec => DeletedStaysDeleted` |

**Lists, names, the tree.** `ListingProofs` adds to `FsInv` that the table is
linked (`LinkedIn`): the root is an active directory, each active inode's list
enumerates, without repetition, the active inodes whose parent it is
(`ListsAgree`), every other active inode is below a directory (`BelowDirs`), and
active inodes with one active parent have different names (`NamesDiffer`). It
does not say that parents are active, which fails below directories that were
deleted while the shell stood in them. `EnumeratesMore` and `EnumeratesLess` are
the two ways a list changes; the second rests on `RemoveFirstShifts`, what removing
an entry leaves. `NamesDiffer` needs `FindsWhatIsThere`, that `fs_find_child`
overlooks nothing, and the assumption `ShortNames`, that names fit their field:
`longnames` shows why.

The tree is what a path of active directories leads to. `TreeMembers` and
`TreeUnique` say that the recursive `InTree` is the one set that has the root, and
any other active inode just if it has its parent; so `CreateInTree`, `DeleteInTree` and
`WriteInTree` can say what an operation does to it: a create in the tree adds
the new inode, a create outside of it nothing, a delete takes out the inode and,
since nothing active is below it, no other. The refinement maps
a create in the tree to `Add` (`CreateAddsNode`), a delete there to `Discard`
(`DeleteDiscardsNode`) and a write, refused or not, to `Overwrite`
(`WriteOverwritesNode`), and all three outside of it to a stutter; `CreateReads`,
`DeleteReads` and `WriteReads` say that all other files read back what they did,
which is where exclusive blocks are needed before and after the step.

That paths lead back relates two loops that run in opposite directions: the walk
of `fs_get_path` collects names from the inode to the root, `Resolve` follows them
down with `fs_find_child`. `NamesLeadBack` says that after `k` names `Resolve`
stands where the walk was `k` rounds before its end, by `InductUpTo`; one
step of it is `FindsTheChild`, that the first child with a child's name is that
child, which is `NamesDiffer` and `ListsAgree` together.

| theorem | statement |
|---|---|
| `Listing` | `Spec => []ListingsComplete` |
| `SiblingsDiffer` | with `ShortNames`: `Spec => []SiblingNamesUnique` |
| `PathsLeadBack` | with `ShortNames`: `Spec => []PathsResolve` |
| `ImplementingTree` | with `ShortNames`: `Spec => ImplementsTree` |

**Saves, loads and restarts.** `SessionProofs` has four hypotheses beyond the
assumptions on constants, each on the theorems that need it:

* `WholeImages`: an image is whole or empty. `shortwrite` shows that the code lets
  a cut image pass; what loading one makes of RAM is not modelled.
* `MaxBoots = 1`: one run of the program. `slotreuse` and `parentcycle` show what
  a second run loses.
* `ShortNames`, as above.
* `CutShort`: a program that dies in a save has written nothing or, as one that
  dies right after it, everything.

`ShellInv` says `DataInv` of RAM and, in the form `Intact`, of the image; it holds
for any number of runs, although the counter is stale after a load, since no
part of `DataInv` speaks of the counter or of parents. `RunInv` adds, for one run,
that table and image keep parents before children and stay behind the counter
(`InOrder`) and leak nothing (`Leakless`).

The way home (`WayInv`) needs no hypothesis at all, not even whole images. It is
about three slots only: their parents are written by `fs_init`, a create takes
slots from 6 on whatever was loaded, a delete leaves the parent where it is, and
each cut of an image has all of the table or none of it.

| theorem | statement |
|---|---|
| `ExclusiveAcrossRuns` | with `WholeImages`: `ShellSpec => []DataBlocksExclusive` |
| `TilingAcrossRuns` | with `WholeImages`: `ShellSpec => []ChainTiles` |
| `ShellTyping` | with `WholeImages`: `ShellSpec => []ShellTypeOK` |
| `HomeInReach` | `ShellSpec => []CanGoHome` |
| `PromptsInOneRun` | with `WholeImages` and `MaxBoots = 1`: `ShellSpec => []PromptsAlways` |
| `CreatesInOneRun` | with `WholeImages` and `MaxBoots = 1`: `ShellSpec => CreatesSpareLiveInodes` |

**Snapshots.** `SnapInv` adds to `RunInv` that table and image are linked
(`LinkedIn`). A command is then a step of the tree or a stutter, as in
`ImplementingTree` (`FsStepOnTree`, `ChangesOfTree`); a save takes the tree as the
snapshot and a load the snapshot as the tree, since both map the same table, chain
and texts by the same operators.

**What commands show.** `CommandsAgree` follows from `SnapInv`, the lemmas that
a name finds its inode (`FoundByName`) and a path leads back (`PathLeadsBack`),
and `TextsInv`: a file without a block has no
bytes and the text in a block is one that was written, in RAM and in the image.
It needs that `Garbage`, which stands for a block never written, is no text.

`MemstatCountsFiles` counts the same bytes twice: by the loop over the blocks in
use and by the table. `SnugInv` bounds the waste of one block, in RAM and in the
image: the split of `alloc` leaves no more than a header. By `NothingLeaks` and
`FilesOwnBlocks` the files and the blocks in use are the same in number, and
`BytesOfFiles` compares the two sums file by file (`OneFileMore`): each file of the
table adds its size to the one and the size of its block to the other.

| theorem | statement |
|---|---|
| `ImplementingSnapshots` | with `WholeImages`, `CutShort`, `ShortNames` and `MaxBoots = 1`: `ShellSpec => ImplementsSnapshots` |
| `CommandsShowOneTree` | with `WholeImages`, `ShortNames`, `MaxBoots = 1` and `Garbage \notin Contents`: `ShellSpec => []CommandsAgree` |
| `MemstatCounts` | with `WholeImages` and `MaxBoots = 1`: `ShellSpec => []MemstatCountsFiles` |

**The scheduler.** `SchedInv` says of each phase what the table is: in order (a
pid is its slot's number and its process runs) at the prompt and during a
command; before the tick in order or, with the result that ends the loop,
wiped. It says of table *and* image that each process that runs is as old as
`born` has it, and of an image of this run that it is no newer than the counter,
without which a load could give a process a negative birth. All theorems hold
for every size of the table and any number of commands and runs; only
`KillingListed` needs that an `int` can count the slots (`ProcessAssumption`).

| theorem | statement |
|---|---|
| `SchedTyping` | `Spec => []SchedTypeOK` |
| `PidsInOrder` | `Spec => []PidsAreSlots` |
| `Ageing` | `Spec => []TicksCountLife` |
| `Overtaking` | `Spec => []OnlyOldTablesOvertake` |
| `HaltClears` | `Spec => HaltedStaysWiped` |
| `Sparing` | `Spec => SpawnsSpareProcesses` |

**Numbers.** That `my_str_to_int` reads back what `my_int_to_str` prints is about
two loops in opposite directions, one that divides and one that multiplies, and it
is proved for every `INT_MAX` and every `int` but the smallest. The loop
for the digits runs down from `m` to `my_div(m, 10)`: that its equation has a
solution is `RecursionDownwards`, and `DigitsComeOut`, by `InductUpTo` over the
numbers below `m`, says that what it leaves, reversed, is a decimal of `m`
(`IsDecimal`: some values of its beginnings, each ten times the one before plus a
digit, end in `m`) with no more digits than `Tens` allows. `LoopReads` says that
the reading loop has just those values; none is larger than `m`, so nothing wraps
on the way (`FitsUnwrapped`), which is the step a test of small numbers would
not show. `ReadsDecimal` adds the sign.

| theorem | statement |
|---|---|
| `ReadingBack` | `Spec => []PrintedReadsBack` |
| `KillingListed` | `Spec => []ListedPidsKill` |

**Lines and the terminal.** `InputProofs` holds for every size of the two arrays and
any number of keys, lines that overrun the tokens included: what it says of commands
is about the lines that do not; the letters must differ from the names of the other keys
(`LettersAssumption`). `InputInv` is `InputTypeOK`, that the histories and tokens
are sequences, and that the array holds a terminator when enter has been
pressed: without it `my_strlen` would run past the end. `StrlenStops`,
`TrimStartStops` and `TrimEndStops` show that each search stops inside the
array, `TrimStays` that trimming leaves a string there, `TokensStay`, over the
rounds of `my_tokenize`, that tokens begin inside it. `ModesInv` relates the
terminal to the statics in every phase; that the second restore in `main` is
harmless needs `~raw_mode_active` after exit.

That commands get the words on the screen needs `LineInv`, which says phase by
phase what the array holds of `Edited(typed)`, whatever stands behind it from
the lines before: while keys are read it begins with that text, and `pos` is its
length (`OneMoreKey` is one key of it); after enter a terminator follows (`Holds`);
once tokenized, the tokens point at its words. The step between the last two is
a chain of lemmas: `TrimmingTrims` (what is left is the text without blanks at
either end, `HoldsPart`), `RoundsFind` (the rounds of `my_tokenize` collect, in
order, exactly the places where words begin) and `TokensAreWords` (the string
from such a place to the next terminator is the word). That the tokens fit just if the words do (`OverrunsAreLong`)
follows from the same chain, as there are as many of the ones as of the others. `Words` is
defined by counting; `WordsAreListed` replaces the counting by any ascending list
of the places where words begin and end (`WordList`), and the bijection between
the list and its places is `CountedInOrder`. `JoiningSpells` then follows the loop
of `echo` and `write` word by word: what has been joined lists the words so far,
has single blanks, and ends in one unless it is complete (`OneMoreWord`).

| theorem | statement |
|---|---|
| `InputTyping` | `Spec => []InputTypeOK` |
| `WordsReachCommands` | `Spec => []CommandGetsWords` |
| `BlankLinesSkipped` | `Spec => SkipsExactlyBlankLines` |
| `OverrunsAreLong` | `Spec => []OnlyLongLinesOverrun` |
| `ArgumentsSpaced` | `Spec => []ArgumentsAreSpaced` |
| `GivingBack` | `Spec => TerminalGivenBack` |

Inductive invariants were first put to TLC on the instances of the runs, with
their quantifiers bounded where the proof needs none (`LineInv`, for instance, on
the states of `input`).

Only model-checked is liveness: `ExitEnds`, which is out of the prover's reach.
Every other property of a run that holds is a theorem, under the hypotheses given
with it. `reboots` has two runs of the program and the theorems about any
number of them have no such bound; what is claimed of one run only is so because
`slotreuse` and `parentcycle` refute it for two.

## 5. Plan

In this order, the most important behaviour first:

1. **done** `BlockChain`, `HeapSpec`, `Memory` and their proofs: everything else
   stands on the allocator.
2. **done** `TreeSpec`, `FileSystem`; **done** `Session` with images and reboots.
3. **done** `FileSystemProofs`: the invariant above; `ListingProofs`: lists and
   parents agree, sibling names, the refinement of `TreeSpec`.
4. **done** `Input`, `Numbers`; `InputProofs`: the array, the words of a line and
   the terminal.
5. **done** `Scheduler` and `SchedulerProofs`: the process table in RAM against
   the static tick counter, through ticks, save, load and halt; numbers printed
   and read back.
6. **done** `SnapshotSpec`, which one run of the program implements;
   `SessionProofs` for what survives reboots, for what commands show and for
   that refinement.
7. **Left**: an image that ends inside RAM. It would need the stale headers of
   the data region as bytes of RAM, not as a chain.

## 6. Not modelled, and why

* `screen.c`, `memory_dump`, the banner, `clear`, `help` and the usage messages
  print and keep no state. What `ls`, `cat`, `pwd`, `memstat` and `ps` show is
  modelled, its layout is not.
* `my_pow`, `my_max`, `my_min`, `my_strchr` and `key_pressed` have no caller.
* `keyboard_init` also sets how `read` waits (`VMIN`, `VTIME`); the model reads
  keys one at a time.
* What an overrun of `tokens` or of the path buffer overwrites: the models end
  there.
* Names of more than 123 characters, which run into the next inode, process
  names that fill their field, and a load of an
  image that ends inside RAM and is then used: the hazards in `PROJECT.json` say
  why.
