----------------------------- MODULE Scheduler ------------------------------
(***************************************************************************)
(* core/scheduler.c: the process table in VIRTUAL_RAM and the static       *)
(* counter global_ticks outside it, with the commands that touch either    *)
(* and the loop of shell_run that ticks after every command.  save and     *)
(* load copy the table and not the counter; halt clears RAM, and the tick  *)
(* that follows it finds a table of zeros, where no slot is empty.         *)
(*                                                                         *)
(* main spawns "uptime".  scheduler_spawn and scheduler_kill are public    *)
(* but no command calls them: they stand here as calls made while a        *)
(* command runs.  Names shorter than the name field of 16 bytes are kept   *)
(* whole by my_strcpy, and only such names are modelled.                   *)
(***************************************************************************)
EXTENDS Numbers

CONSTANTS
  MAX_PROCESSES,
  Tasks,          \* names of tasks beside "uptime"
  MaxTicks,       \* commands in one run of the program (a bound)
  MaxBoots        \* how often the program is started (a bound)

ASSUME ProcessAssumption == MAX_PROCESSES \in 1 .. INT_MAX

VARIABLES
  process,        \* the process table
  global_ticks,   \* the static counter
  mineos_img,     \* what the image file holds of the table
  result,         \* what the command returned to shell_run
  phase,          \* "prompt", "command", "tick" or "over"
  boots,          \* how often the program has been started
  born,           \* when each process was spawned, by global_ticks (history)
  formatted_in    \* the run of the program whose main made the table (history)

vars == <<process, global_ticks, mineos_img, result, phase, boots, born, formatted_in>>
history == <<born, formatted_in>>

Slots == 0 .. MAX_PROCESSES - 1
EMPTY == -1
PROC_SLEEPING == 0
PROC_RUNNING == 1

EmptyProcess == [pid |-> EMPTY, name |-> "", status |-> PROC_SLEEPING, ticks |-> 0]

(* What memory_init makes of a slot. *)
ZeroProcess == [pid |-> 0, name |-> "", status |-> PROC_SLEEPING, ticks |-> 0]
Wiped == [s \in Slots |-> ZeroProcess]

NoImage == [at |-> -1]

-----------------------------------------------------------------------------
(* scheduler_spawn, scheduler_init, scheduler_kill *)

Present(table) == {s \in Slots : table[s].pid # EMPTY}

(* Spawning searches by pid, so a table of zeros is full. *)
FirstEmpty_Count(table) == Cardinality(Present(table))
FirstEmpty(table) ==
  CHOOSE s \in Slots : table[s].pid = EMPTY /\ \A r \in 0 .. s - 1 : table[r].pid # EMPTY

NewProcess_FromOne(s, name) == [pid |-> s + 1, name |-> name, status |-> PROC_RUNNING, ticks |-> 0]
NewProcess(s, name) == [pid |-> s, name |-> name, status |-> PROC_RUNNING, ticks |-> 0]

Spawned(table, name) ==
  [table EXCEPT ![FirstEmpty(table)] = NewProcess(FirstEmpty(table), name)]

BootTable == Spawned([s \in Slots |-> EmptyProcess], "uptime")

scheduler_spawn(name) ==
  /\ phase = "command"
  /\ Present(process) # Slots
  /\ process' = Spawned(process, name)
  /\ born' = [born EXCEPT ![FirstEmpty(process)] = global_ticks]
  /\ UNCHANGED <<global_ticks, mineos_img, result, phase, boots, formatted_in>>

scheduler_kill(pid) ==
  /\ phase = "command"
  /\ pid \in Slots /\ process[pid].pid # EMPTY
  /\ process' = [process EXCEPT ![pid] = EmptyProcess]
  /\ UNCHANGED <<global_ticks, mineos_img, result, phase, boots, history>>

-----------------------------------------------------------------------------
(* The loop of shell_run: a line is read, a command runs, the tick.        *)

Init ==
  /\ process = BootTable
  /\ global_ticks = 0
  /\ mineos_img = NoImage
  /\ result = 0
  /\ phase = "prompt"
  /\ boots = 1
  /\ born = [s \in Slots |-> 0]
  /\ formatted_in = 1

Dispatch ==
  /\ phase = "prompt"
  /\ global_ticks < MaxTicks
  /\ phase' = "command"
  /\ UNCHANGED <<process, global_ticks, mineos_img, result, boots, history>>

Returns(code) ==
  /\ phase = "command"
  /\ result' = code
  /\ phase' = "tick"
  /\ UNCHANGED <<global_ticks, boots>>

(* Every command that leaves the table alone, also save and load when      *)
(* fopen fails.                                                            *)
OtherCommand == Returns(0) /\ UNCHANGED <<process, mineos_img, history>>

cmd_save ==
  /\ Returns(0)
  /\ mineos_img' = [process |-> process, at |-> global_ticks,
                    born |-> born, formatted_in |-> formatted_in]
  /\ UNCHANGED <<process, history>>

(* A process of the image is as old as when it was saved. *)
cmd_load ==
  /\ Returns(0)
  /\ mineos_img # NoImage
  /\ process' = mineos_img.process
  /\ born' = [s \in Slots |-> mineos_img.born[s] + (global_ticks - mineos_img.at)]
  /\ formatted_in' = mineos_img.formatted_in
  /\ UNCHANGED mineos_img

cmd_exit == Returns(-1) /\ UNCHANGED <<process, mineos_img, history>>

ExitSignal_Forgotten == 0
ExitSignal == -1

cmd_halt ==
  /\ Returns(ExitSignal)
  /\ process' = Wiped
  /\ UNCHANGED <<mineos_img, history>>

Counted_SinceUptime(ticks) == my_mod(ticks + 1, 5)
Counted(ticks) == ticks + 1

(* Only the processes that run age: not the zeros of a cleared table. *)
Ages_AlsoSleeping(p) == p.pid # EMPTY
Ages(p) == p.pid # EMPTY /\ p.status = PROC_RUNNING

Older_NotTheLast(table) ==
  [s \in Slots |-> IF Ages(table[s]) /\ s < MAX_PROCESSES - 1
                   THEN [table[s] EXCEPT !.ticks = @ + 1] ELSE table[s]]
Older(table) ==
  [s \in Slots |-> IF Ages(table[s]) THEN [table[s] EXCEPT !.ticks = @ + 1] ELSE table[s]]

(* The tick comes before the look at the result, so also after the last    *)
(* command.                                                                *)
scheduler_tick ==
  /\ phase = "tick"
  /\ global_ticks' = Counted(global_ticks)
  /\ process' = Older(process)
  /\ phase' = IF result = -1 THEN "over" ELSE "prompt"
  /\ UNCHANGED <<mineos_img, result, boots, history>>

(* The process is killed; in a save, between fopen and fwrite, it leaves   *)
(* an empty file, which load reads nothing from.                           *)
Dies ==
  /\ phase # "over"
  /\ phase' = "over"
  /\ \/ UNCHANGED mineos_img
     \/ phase = "command" /\ mineos_img' = NoImage
  /\ UNCHANGED <<process, global_ticks, result, boots, history>>

(* main: memory_init and scheduler_init. *)
Boots ==
  /\ phase = "over"
  /\ boots < MaxBoots
  /\ boots' = boots + 1
  /\ process' = BootTable
  /\ global_ticks' = 0
  /\ result' = 0
  /\ phase' = "prompt"
  /\ born' = [s \in Slots |-> 0]
  /\ formatted_in' = boots + 1
  /\ UNCHANGED mineos_img

Next ==
  \/ \E name \in Tasks : scheduler_spawn(name)
  \/ \E pid \in Slots : scheduler_kill(pid)
  \/ Dispatch
  \/ OtherCommand
  \/ cmd_save
  \/ cmd_load
  \/ cmd_exit
  \/ cmd_halt
  \/ scheduler_tick
  \/ Dies
  \/ Boots

Spec == Init /\ [][Next]_vars

-----------------------------------------------------------------------------
(* scheduler_list: a row for each process that is there. *)

Row(p) == [pid |-> my_int_to_str(p.pid), name |-> p.name, status |-> p.status,
           ticks |-> my_int_to_str(p.ticks)]

scheduler_list == {Row(process[s]) : s \in Present(process)}

-----------------------------------------------------------------------------
(* The table, the image and the counters are in range.  (scheduler.c)      *)
Processes == [pid : Slots \cup {EMPTY}, name : Tasks \cup {"uptime", ""},
              status : {PROC_SLEEPING, PROC_RUNNING}, ticks : Nat]

SchedTypeOK ==
  /\ process \in [Slots -> Processes]
  /\ global_ticks \in Nat
  /\ \/ mineos_img = NoImage
     \/ mineos_img \in [process : [Slots -> Processes], at : Nat,
                        born : [Slots -> Int], formatted_in : 1 .. boots]
  /\ result \in {0, -1}
  /\ phase \in {"prompt", "command", "tick", "over"}
  /\ boots \in Nat \ {0}
  /\ born \in [Slots -> Int]
  /\ formatted_in \in 1 .. boots

(* At the prompt a pid is the number of its slot and belongs to a process  *)
(* that runs: no sequence of spawns, kills, loads and halts brings the     *)
(* shell back with the table of zeros, where nothing could be spawned any  *)
(* more.  (scheduler_spawn, scheduler_kill, cmd_load, cmd_halt)            *)
PidsAreSlots ==
  phase = "prompt" => \A s \in Present(process) :
    process[s].pid = s /\ process[s].status = PROC_RUNNING

(* scheduler.h:20: a process counts how many times it has been ticked.     *)
(* These are the commands since it was spawned, without those that a load  *)
(* undid and with those of an earlier run when its image was loaded.       *)
(* (scheduler_tick, scheduler_spawn, cmd_load)                             *)
TicksCountLife ==
  \A s \in Slots :
    process[s].status = PROC_RUNNING => process[s].ticks = global_ticks - born[s]

(* No process is older than the system, as ps shows them side by side,     *)
(* until the table of an earlier run is loaded, whose global_ticks is      *)
(* lost.  (global_ticks, cmd_load, scheduler_tick)                         *)
OnlyOldTablesOvertake ==
  formatted_in = boots => \A s \in Slots : process[s].ticks <= global_ticks

(* commands.c:515 reports the RAM cleared: nothing that still runs after   *)
(* halt, the tick above all, writes to the cleared table again.            *)
(* (cmd_halt, scheduler_tick)                                              *)
HaltedStaysWiped == [][process = Wiped /\ phase # "over" => process' = Wiped]_vars

(* The pid that ps shows in a row is the one scheduler_kill takes for the  *)
(* process of that row.  (scheduler_list, scheduler_kill, my_int_to_str)   *)
ListedPidsKill ==
  phase = "prompt" => \A row \in scheduler_list :
    LET pid == my_str_to_int(row.pid)
    IN pid \in Slots /\ Row(process[pid]) = row

(* string.h:21 and 22: while the program runs, any number it may come to    *)
(* print fits the buffer of 16 bytes and is read back as itself.           *)
(* (my_int_to_str, my_str_to_int)                                          *)
PrintedReadsBack == phase # "over" => AllReadBack

(* While a command runs, a process that is there is either killed or left  *)
(* as it is: a spawn after any kills takes the slot of none.               *)
(* (scheduler_spawn, scheduler_kill)                                       *)
SpawnsSpareProcesses ==
  [][phase' = "command" => \A s \in Present(process) :
       process'[s] = process[s] \/ s \notin Present(process')]_vars
=============================================================================
