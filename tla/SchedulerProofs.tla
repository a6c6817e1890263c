-------------------------- MODULE SchedulerProofs ---------------------------
(***************************************************************************)
(* The process table and the tick counter through any number of commands,  *)
(* saves, loads, halts and restarts, for every size of the table; and what *)
(* ps prints of them is read back, for every width of int.                 *)
(***************************************************************************)
EXTENDS Scheduler, OrderLemmas, SequenceTheorems

(* A table as the commands find it: what is there runs under the number of *)
(* its slot, the rest is empty.  The table that halt leaves is not.        *)
InOrder(t) ==
  \A s \in Slots :
    \/ t[s].pid = EMPTY /\ t[s].status = PROC_SLEEPING
    \/ t[s].pid = s /\ t[s].status = PROC_RUNNING

(* The ticks of a table's processes at a value of global_ticks. *)
Aged(t, now, b) ==
  \A s \in Slots : t[s].ticks = IF t[s].status = PROC_RUNNING THEN now - b[s] ELSE 0

(* An image is a table that commands can find; halt's only meets the tick. *)
SchedInv ==
  /\ SchedTypeOK
  /\ phase \in {"prompt", "command"} => InOrder(process) /\ result = 0
  /\ phase = "tick" => InOrder(process) \/ (process = Wiped /\ result = -1)
  /\ Aged(process, global_ticks, born)
  /\ formatted_in = boots => \A s \in Slots : born[s] >= 0
  /\ mineos_img # NoImage =>
       /\ InOrder(mineos_img.process)
       /\ Aged(mineos_img.process, mineos_img.at, mineos_img.born)
       /\ mineos_img.formatted_in = boots =>
            mineos_img.at <= global_ticks /\ \A s \in Slots : mineos_img.born[s] >= 0

USE DEF EMPTY, PROC_SLEEPING, PROC_RUNNING

(* The table has slots, and their numbers are not negative. *)
LEMMA SomeSlot == 0 \in Slots /\ Slots \subseteq Nat
BY ProcessAssumption DEF Slots

(* The slots that init and kill leave, and those that halt leaves. *)
LEMMA BlankProcesses ==
  /\ EmptyProcess \in Processes /\ ZeroProcess \in Processes
  /\ EmptyProcess.pid = EMPTY /\ EmptyProcess.status = PROC_SLEEPING /\ EmptyProcess.ticks = 0
  /\ ZeroProcess.pid = 0 /\ ZeroProcess.status = PROC_SLEEPING /\ ZeroProcess.ticks = 0
  /\ Wiped \in [Slots -> Processes] /\ \A s \in Slots : Wiped[s] = ZeroProcess
BY SomeSlot DEF EmptyProcess, ZeroProcess, Processes, Wiped

(* A process after a tick that it has been counted in. *)
LEMMA OlderProcess ==
  ASSUME NEW p \in Processes
  PROVE  LET q == [p EXCEPT !.ticks = @ + 1]
         IN /\ q \in Processes /\ q.pid = p.pid /\ q.status = p.status
            /\ q.ticks = p.ticks + 1
<1> DEFINE q == [p EXCEPT !.ticks = @ + 1]
<1>1. p = [pid |-> p.pid, name |-> p.name, status |-> p.status, ticks |-> p.ticks]
  BY DEF Processes
<1>2. q = [pid |-> p.pid, name |-> p.name, status |-> p.status, ticks |-> p.ticks + 1]
  BY <1>1
<1>3. /\ p.pid \in Slots \cup {EMPTY} /\ p.name \in Tasks \cup {"uptime", ""}
      /\ p.status \in {PROC_SLEEPING, PROC_RUNNING} /\ p.ticks \in Nat
  BY DEF Processes
<1> HIDE DEF q
<1>4. q \in Processes
  <2>1. ASSUME NEW n \in Nat PROVE n + 1 \in Nat
    OBVIOUS
  <2>2. p.ticks + 1 \in Nat
    BY <1>3, <2>1, Zenon
  <2> QED BY <1>2, <1>3, <2>2 DEF Processes
<1> QED BY <1>2, <1>4 DEF q

(* The loop of scheduler_spawn finds an empty slot when there is one.      *)
LEMMA FirstEmptyIsEmpty ==
  ASSUME NEW t, Present(t) # Slots
  PROVE  FirstEmpty(t) \in Slots /\ t[FirstEmpty(t)].pid = EMPTY
<1> DEFINE E == {s \in Slots : t[s].pid = EMPTY}
<1>1. E \in SUBSET Nat /\ E # {}
  BY SomeSlot DEF Present
<1>2. PICK s \in E : \A r \in E : s <= r
  BY <1>1, LeastNat
<1>3. s \in Slots /\ t[s].pid = EMPTY /\ \A r \in 0 .. s - 1 : t[r].pid # EMPTY
  BY <1>2, ProcessAssumption DEF Slots
<1> QED BY <1>3 DEF FirstEmpty

(* Spawning puts a process of no age into an empty slot. *)
LEMMA SpawnedTable ==
  ASSUME NEW t \in [Slots -> Processes], NEW name \in Tasks \cup {"uptime"},
         Present(t) # Slots
  PROVE  /\ Spawned(t, name) \in [Slots -> Processes]
         /\ InOrder(t) => InOrder(Spawned(t, name))
         /\ FirstEmpty(t) \in Slots
         /\ Spawned(t, name)[FirstEmpty(t)].status = PROC_RUNNING
         /\ Spawned(t, name)[FirstEmpty(t)].ticks = 0
         /\ \A s \in Slots \ {FirstEmpty(t)} : Spawned(t, name)[s] = t[s]
<1>1. FirstEmpty(t) \in Slots
  BY FirstEmptyIsEmpty
<1>2. NewProcess(FirstEmpty(t), name) \in Processes
  BY <1>1 DEF NewProcess, Processes
<1>3. Spawned(t, name) = [t EXCEPT ![FirstEmpty(t)] = NewProcess(FirstEmpty(t), name)]
  BY DEF Spawned
<1>4. /\ Spawned(t, name) \in [Slots -> Processes]
      /\ Spawned(t, name)[FirstEmpty(t)] = NewProcess(FirstEmpty(t), name)
      /\ \A s \in Slots \ {FirstEmpty(t)} : Spawned(t, name)[s] = t[s]
  BY <1>1, <1>2, <1>3
<1> QED BY <1>1, <1>4 DEF NewProcess, InOrder

(* The table of a fresh start. *)
LEMMA BootTableInOrder ==
  /\ BootTable \in [Slots -> Processes]
  /\ InOrder(BootTable)
  /\ Aged(BootTable, 0, [s \in Slots |-> 0])
<1> DEFINE empty == [s \in Slots |-> EmptyProcess]
<1>1. empty \in [Slots -> Processes] /\ InOrder(empty) /\ \A s \in Slots : empty[s].ticks = 0
  BY DEF EmptyProcess, Processes, InOrder
<1>2. Present(empty) # Slots
  BY SomeSlot DEF Present, EmptyProcess
<1>3. BootTable = Spawned(empty, "uptime")
  BY DEF BootTable
<1> HIDE DEF empty
<1>4. /\ BootTable \in [Slots -> Processes] /\ InOrder(BootTable)
      /\ \A s \in Slots : BootTable[s].ticks = 0
  BY <1>1, <1>2, <1>3, SpawnedTable
<1> QED BY <1>4 DEF Aged

(* A tick keeps the order of the table and adds one to every age. *)
LEMMA OlderTable ==
  ASSUME NEW t \in [Slots -> Processes], NEW now \in Nat, NEW b \in [Slots -> Int],
         Aged(t, now, b), InOrder(t) \/ t = Wiped
  PROVE  /\ Older(t) \in [Slots -> Processes]
         /\ InOrder(t) => InOrder(Older(t))
         /\ Aged(Older(t), now + 1, b)
         /\ t = Wiped => Older(t) = Wiped
<1>1. ASSUME NEW s \in Slots
      PROVE  /\ Older(t)[s] \in Processes
             /\ Older(t)[s].pid = t[s].pid /\ Older(t)[s].status = t[s].status
             /\ Older(t)[s].ticks = IF Ages(t[s]) THEN t[s].ticks + 1 ELSE t[s].ticks
  <2>1. t[s] \in Processes
    OBVIOUS
  <2>2. Older(t)[s] = IF Ages(t[s]) THEN [t[s] EXCEPT !.ticks = @ + 1] ELSE t[s]
    BY DEF Older
  <2> QED BY <2>1, <2>2, OlderProcess
<1>2. Older(t) \in [Slots -> Processes]
  BY <1>1 DEF Older
<1>3. InOrder(t) => InOrder(Older(t))
  BY <1>1 DEF InOrder
<1>4. Aged(Older(t), now + 1, b)
  <2> SUFFICES ASSUME NEW s \in Slots
               PROVE  Older(t)[s].ticks =
                        IF Older(t)[s].status = PROC_RUNNING THEN (now + 1) - b[s] ELSE 0
    BY DEF Aged
  <2>1. /\ t[s] \in Processes /\ b[s] \in Int
        /\ t[s].ticks = IF t[s].status = PROC_RUNNING THEN now - b[s] ELSE 0
    BY DEF Aged
  <2>2. Ages(t[s]) <=> t[s].status = PROC_RUNNING
    BY SomeSlot, BlankProcesses DEF Ages, InOrder
  <2> QED BY <1>1, <2>1, <2>2
<1>5. t = Wiped => Older(t) = Wiped
  BY BlankProcesses DEF Older, Wiped, Ages
<1> QED BY <1>2, <1>3, <1>4, <1>5

-----------------------------------------------------------------------------
(* A fresh start satisfies the invariant.                                  *)
LEMMA SchedInvInit == Init => SchedInv
<1> SUFFICES ASSUME Init PROVE SchedInv
  OBVIOUS
<1>1. /\ process = BootTable /\ global_ticks = 0 /\ mineos_img = NoImage /\ result = 0
      /\ phase = "prompt" /\ boots = 1 /\ born = [s \in Slots |-> 0] /\ formatted_in = 1
  BY DEF Init
<1>2. SchedTypeOK
  BY <1>1, BootTableInOrder DEF SchedTypeOK
<1> QED BY <1>1, <1>2, BootTableInOrder DEF SchedInv

(* Every command, tick, death and restart keeps it.                        *)
LEMMA SchedInvNext == SchedInv /\ [Next]_vars => SchedInv'
<1> SUFFICES ASSUME SchedInv, [Next]_vars PROVE SchedInv'
  OBVIOUS
<1> USE DEF SchedInv
<1>0. /\ process \in [Slots -> Processes] /\ global_ticks \in Nat /\ born \in [Slots -> Int]
      /\ boots \in Nat \ {0} /\ formatted_in \in 1 .. boots
      /\ mineos_img # NoImage =>
           mineos_img \in [process : [Slots -> Processes], at : Nat,
                           born : [Slots -> Int], formatted_in : 1 .. boots]
  BY DEF SchedTypeOK
<1>1. ASSUME NEW name \in Tasks, scheduler_spawn(name) PROVE SchedInv'
  <2>1. /\ phase = "command" /\ Present(process) # Slots
        /\ process' = Spawned(process, name)
        /\ born' = [born EXCEPT ![FirstEmpty(process)] = global_ticks]
        /\ UNCHANGED <<global_ticks, mineos_img, result, phase, boots, formatted_in>>
    BY <1>1 DEF scheduler_spawn
  <2>2. /\ FirstEmpty(process) \in Slots
        /\ process' \in [Slots -> Processes] /\ InOrder(process')
        /\ process'[FirstEmpty(process)].status = PROC_RUNNING
        /\ process'[FirstEmpty(process)].ticks = 0
        /\ \A s \in Slots \ {FirstEmpty(process)} : process'[s] = process[s]
    BY <1>0, <2>1, SpawnedTable
  <2>3. /\ born' \in [Slots -> Int] /\ born'[FirstEmpty(process)] = global_ticks
        /\ \A s \in Slots \ {FirstEmpty(process)} : born'[s] = born[s]
    BY <1>0, <2>1, <2>2
  <2>4. SchedTypeOK'
    BY <1>0, <2>1, <2>2, <2>3 DEF SchedTypeOK
  <2>5. Aged(process, global_ticks, born)'
    BY <1>0, <2>1, <2>2, <2>3 DEF Aged
  <2> QED BY <1>0, <2>1, <2>2, <2>3, <2>4, <2>5
<1>2. ASSUME NEW pid \in Slots, scheduler_kill(pid) PROVE SchedInv'
  <2>1. /\ phase = "command"
        /\ process' = [process EXCEPT ![pid] = EmptyProcess]
        /\ UNCHANGED <<global_ticks, mineos_img, result, phase, boots, born, formatted_in>>
    BY <1>2 DEF scheduler_kill, history
  <2>2. /\ process' \in [Slots -> Processes] /\ process'[pid] = EmptyProcess
        /\ \A s \in Slots \ {pid} : process'[s] = process[s]
    BY <1>0, <2>1, BlankProcesses
  <2>3. InOrder(process')
    BY <2>1, <2>2, BlankProcesses DEF InOrder
  <2>4. Aged(process, global_ticks, born)'
    BY <2>1, <2>2, BlankProcesses DEF Aged
  <2>5. SchedTypeOK'
    BY <1>0, <2>1, <2>2 DEF SchedTypeOK
  <2> QED BY <1>0, <2>1, <2>3, <2>4, <2>5
<1>3. ASSUME Dispatch PROVE SchedInv'
  BY <1>3 DEF Dispatch, SchedTypeOK, history
<1>4. ASSUME OtherCommand \/ cmd_exit PROVE SchedInv'
  <2>1. /\ phase = "command" /\ phase' = "tick" /\ result' \in {0, -1}
        /\ UNCHANGED <<process, global_ticks, mineos_img, boots, born, formatted_in>>
    BY <1>4 DEF OtherCommand, cmd_exit, Returns, history
  <2>2. SchedTypeOK'
    BY <1>0, <2>1 DEF SchedTypeOK
  <2> QED BY <2>1, <2>2
<1>5. ASSUME cmd_save PROVE SchedInv'
  <2>1. /\ phase = "command" /\ phase' = "tick" /\ result' = 0
        /\ mineos_img' = [process |-> process, at |-> global_ticks,
                          born |-> born, formatted_in |-> formatted_in]
        /\ UNCHANGED <<process, global_ticks, boots, born, formatted_in>>
    BY <1>5 DEF cmd_save, Returns, history
  <2>2. SchedTypeOK'
    BY <1>0, <2>1 DEF SchedTypeOK
  <2>3. /\ mineos_img'.process = process /\ mineos_img'.at = global_ticks
        /\ mineos_img'.born = born /\ mineos_img'.formatted_in = formatted_in
    BY <2>1
  <2> QED BY <1>0, <2>1, <2>2, <2>3
<1>6. ASSUME cmd_load PROVE SchedInv'
  <2>1. /\ phase = "command" /\ phase' = "tick" /\ result' = 0
        /\ mineos_img # NoImage /\ process' = mineos_img.process
        /\ born' = [s \in Slots |-> mineos_img.born[s] + (global_ticks - mineos_img.at)]
        /\ formatted_in' = mineos_img.formatted_in
        /\ UNCHANGED <<global_ticks, boots, mineos_img>>
    BY <1>6 DEF cmd_load, Returns
  <2>2. /\ mineos_img.process \in [Slots -> Processes] /\ mineos_img.at \in Nat
        /\ mineos_img.born \in [Slots -> Int] /\ mineos_img.formatted_in \in 1 .. boots
    BY <1>0, <2>1
  <2>3. born' \in [Slots -> Int]
    BY <1>0, <2>1, <2>2
  <2>4. SchedTypeOK'
    BY <1>0, <2>1, <2>2, <2>3 DEF SchedTypeOK
  <2>5. Aged(process, global_ticks, born)'
    BY <1>0, <2>1, <2>2 DEF Aged
  <2>6. (formatted_in = boots => \A s \in Slots : born[s] >= 0)'
    BY <1>0, <2>1, <2>2
  <2> QED BY <2>1, <2>4, <2>5, <2>6
<1>7. ASSUME cmd_halt PROVE SchedInv'
  <2>1. /\ phase = "command" /\ phase' = "tick" /\ result' = -1 /\ process' = Wiped
        /\ UNCHANGED <<global_ticks, boots, mineos_img, born, formatted_in>>
    BY <1>7 DEF cmd_halt, Returns, ExitSignal, history
  <2>3. Aged(process, global_ticks, born)'
    BY <2>1, BlankProcesses DEF Aged
  <2>4. SchedTypeOK'
    BY <1>0, <2>1, BlankProcesses DEF SchedTypeOK
  <2> QED BY <2>1, <2>3, <2>4
<1>8. ASSUME scheduler_tick PROVE SchedInv'
  <2>1. /\ phase = "tick" /\ global_ticks' = global_ticks + 1 /\ process' = Older(process)
        /\ phase' = IF result = -1 THEN "over" ELSE "prompt"
        /\ UNCHANGED <<boots, mineos_img, born, formatted_in, result>>
    BY <1>8 DEF scheduler_tick, Counted, history
  <2>2. /\ process' \in [Slots -> Processes] /\ Aged(process', global_ticks', born')
        /\ InOrder(process) => InOrder(process')
    BY <1>0, <2>1, OlderTable
  <2>3. SchedTypeOK'
    BY <1>0, <2>1, <2>2 DEF SchedTypeOK
  <2>4. result \in {0, -1}
    BY DEF SchedTypeOK
  <2> QED BY <1>0, <2>1, <2>2, <2>3, <2>4
<1>9. ASSUME Dies PROVE SchedInv'
  BY <1>9 DEF Dies, SchedTypeOK, history
<1>10. ASSUME Boots PROVE SchedInv'
  <2>1. /\ boots' = boots + 1 /\ process' = BootTable /\ global_ticks' = 0 /\ result' = 0
        /\ phase' = "prompt" /\ born' = [s \in Slots |-> 0] /\ formatted_in' = boots + 1
        /\ UNCHANGED mineos_img
    BY <1>10 DEF Boots
  <2>2. mineos_img # NoImage =>
          mineos_img \in [process : [Slots -> Processes], at : Nat,
                          born : [Slots -> Int], formatted_in : 1 .. boots + 1]
    BY <1>0
  <2>3. mineos_img # NoImage => mineos_img.formatted_in # boots + 1
    BY <1>0
  <2>4. SchedTypeOK'
    BY <1>0, <2>1, <2>2, BootTableInOrder DEF SchedTypeOK
  <2> QED BY <1>0, <2>1, <2>3, <2>4, BootTableInOrder
<1>11. CASE UNCHANGED vars
  BY <1>11 DEF vars, SchedTypeOK
<1> QED
  BY <1>1, <1>2, <1>3, <1>4, <1>5, <1>6, <1>7, <1>8, <1>9, <1>10, <1>11 DEF Next

(* The invariant holds in every reachable state. *)
THEOREM SchedInvariant == Spec => []SchedInv
BY SchedInvInit, SchedInvNext, PTL DEF Spec

-----------------------------------------------------------------------------
(* Table, image and counters keep their types.  (scheduler.c)              *)
THEOREM SchedTyping == Spec => []SchedTypeOK
BY SchedInvariant, PTL DEF SchedInv

(* The shell never prompts with the table that halt leaves, and every pid  *)
(* is the number of its slot.  (cmd_halt, cmd_load, scheduler_spawn)       *)
THEOREM PidsInOrder == Spec => []PidsAreSlots
<1>1. SchedInv => PidsAreSlots
  BY DEF SchedInv, PidsAreSlots, InOrder, Present
<1> QED BY <1>1, SchedInvariant, PTL

(* Ticks are the commands a process has seen, through loads and restarts.  *)
(* (scheduler_tick, cmd_load)                                              *)
THEOREM Ageing == Spec => []TicksCountLife
<1>1. SchedInv => TicksCountLife
  BY DEF SchedInv, TicksCountLife, Aged
<1> QED BY <1>1, SchedInvariant, PTL

(* Only a table of an earlier run is older than the system.                *)
(* (global_ticks, cmd_load)                                                *)
THEOREM Overtaking == Spec => []OnlyOldTablesOvertake
<1>1. ASSUME SchedInv PROVE OnlyOldTablesOvertake
  <2>1. global_ticks \in Nat /\ born \in [Slots -> Int]
    BY <1>1 DEF SchedInv, SchedTypeOK
  <2> QED BY <1>1, <2>1 DEF SchedInv, OnlyOldTablesOvertake, Aged
<1> QED BY <1>1, SchedInvariant, PTL

(* The tick after halt leaves the cleared table clear.                     *)
(* (cmd_halt, scheduler_tick)                                              *)
THEOREM HaltClears == Spec => HaltedStaysWiped
<1>1. ASSUME SchedInv, [Next]_vars, process = Wiped, phase # "over" PROVE process' = Wiped
  <2>1. ~InOrder(Wiped)
    BY SomeSlot, BlankProcesses DEF InOrder
  <2>2. phase = "tick" /\ result = -1
    BY <1>1, <2>1 DEF SchedInv, SchedTypeOK
  <2>3. scheduler_tick \/ Dies \/ UNCHANGED vars
    BY <1>1, <2>2 DEF Next, scheduler_spawn, scheduler_kill, Dispatch, OtherCommand, cmd_save,
       cmd_load, cmd_exit, cmd_halt, Returns, Boots
  <2>4. CASE scheduler_tick
    <3>1. Older(Wiped) = Wiped
      BY <1>1, OlderTable DEF SchedInv, SchedTypeOK
    <3> QED BY <1>1, <2>4, <3>1 DEF scheduler_tick
  <2> QED BY <1>1, <2>3, <2>4 DEF Dies, vars
<1> QED BY <1>1, SchedInvariant, PTL DEF Spec, HaltedStaysWiped

(* A spawn takes the slot of no process.  (scheduler_spawn)                *)
THEOREM Sparing == Spec => SpawnsSpareProcesses
<1> DEFINE Spared == \A s \in Present(process) :
                       process'[s] = process[s] \/ s \notin Present(process')
<1>1. ASSUME SchedInv, [Next]_vars, phase' = "command", NEW s \in Present(process)
      PROVE  process'[s] = process[s] \/ s \notin Present(process')
  <2>1. process \in [Slots -> Processes] /\ s \in Slots /\ process[s].pid # EMPTY
    BY <1>1 DEF SchedInv, SchedTypeOK, Present
  <2>2. CASE \E name \in Tasks : scheduler_spawn(name)
    BY <2>1, <2>2, SpawnedTable, FirstEmptyIsEmpty DEF scheduler_spawn
  <2>3. CASE \E pid \in Slots : scheduler_kill(pid)
    BY <2>1, <2>3, BlankProcesses DEF scheduler_kill, Present
  <2>4. CASE Dispatch \/ UNCHANGED vars
    BY <2>4 DEF Dispatch, vars
  <2> QED
    BY <1>1, <2>2, <2>3, <2>4 DEF Next, OtherCommand, cmd_save, cmd_load, cmd_exit, cmd_halt,
       Returns, scheduler_tick, Dies, Boots
<1>2. SchedInv /\ [Next]_vars => [phase' = "command" => Spared]_vars
  BY <1>1
<1> QED BY <1>2, SchedInvariant, PTL DEF Spec, SpawnsSpareProcesses

-----------------------------------------------------------------------------
(* What ps prints.  The powers of ten are what they are called.            *)
LEMMA TensArePowers ==
  /\ Tens \in [0 .. BUF_SIZE -> Nat] /\ Tens[0] = 1
  /\ \A k \in 1 .. BUF_SIZE : Tens[k] = 10 * Tens[k - 1]
<1> DEFINE D == 0 .. BUF_SIZE
           B == {0}
           rank == [n \in D |-> n]
           next == [n \in D \ B |-> n - 1]
           base == [n \in D |-> 1]
           G == [n \in D \ B |-> [v \in Nat |-> 10 * v]]
           Solves(f) == f = [k \in D |-> IF k = 0 THEN 1 ELSE 10 * f[k - 1]]
<1>0. BUF_SIZE \in Nat
  BY WidthAssumption
<1>1. \A n \in D \ B : n \in 1 .. BUF_SIZE /\ n - 1 \in D /\ n - 1 < n
  BY <1>0
<1>2. LeadsDown(next, D, B, rank, BUF_SIZE)
  <2>1. next \in [D \ B -> D] /\ rank \in [D -> 0 .. BUF_SIZE]
    BY <1>0, <1>1
  <2>2. \A n \in D \ B : rank[next[n]] < rank[n]
    BY <1>0, <1>1
  <2> HIDE DEF next, rank, D, B
  <2> QED BY <1>0, <2>1, <2>2 DEF LeadsDown
<1>3. base \in [D -> Nat] /\ G \in [D \ B -> [Nat -> Nat]]
  BY <1>0, <1>1
<1>4. \A n \in D : n \in B <=> n = 0
  OBVIOUS
<1>5. \A n \in D : base[n] = 1
  OBVIOUS
<1>6. \A n \in D \ B : next[n] = n - 1 /\ n - 1 \in D /\ \A v \in Nat : G[n][v] = 10 * v
  BY <1>1
<1> HIDE DEF next, rank, base, G, B, D
<1>7. PICK f \in [D -> Nat] : Recurs(f, next, D, B, base, G)
  BY <1>0, <1>2, <1>3, RecursionDownwards
<1>8. \A k \in D : f[k] = IF k = 0 THEN 1 ELSE 10 * f[k - 1]
  BY <1>4, <1>5, <1>6, <1>7 DEF Recurs
<1>9. Solves(f)
  BY <1>7, <1>8
<1>10. Tens = CHOOSE g : Solves(g)
  BY DEF Tens, D
<1>11. Solves(Tens)
  BY <1>9, <1>10
<1>12. \A k \in D : Tens[k] = IF k = 0 THEN 1 ELSE 10 * Tens[k - 1]
  BY <1>11
<1>13. 0 \in D /\ \A k \in 1 .. BUF_SIZE : k \in D /\ k - 1 \in D
  BY <1>0 DEF D
<1>14. DOMAIN Tens = D
  BY <1>11
<1> DEFINE Good == {k \in D : Tens[k] \in Nat}
<1>15. 0 \in Good /\ \A k \in 0 .. BUF_SIZE - 1 : k \in Good => k + 1 \in Good
  <2>1. 0 \in Good
    BY <1>12, <1>13
  <2>2. ASSUME NEW k \in 0 .. BUF_SIZE - 1, k \in Good PROVE k + 1 \in Good
    <3>1. k + 1 \in D /\ k + 1 # 0 /\ (k + 1) - 1 = k
      BY <1>0 DEF D
    <3>2. Tens[k + 1] = 10 * Tens[k]
      BY <1>12, <3>1
    <3> QED BY <2>2, <3>1, <3>2
  <2> QED BY <2>1, <2>2
<1> HIDE DEF Good, Solves
<1>16. \A k \in 0 .. BUF_SIZE : k \in Good
  BY <1>0, <1>15, InductUpTo
<1>17. Tens = [k \in D |-> Tens[k]]
  BY <1>11 DEF Solves
<1>18. Tens \in [D -> Nat]
  BY <1>16, <1>17 DEF Good, D
<1> QED BY <1>12, <1>13, <1>18 DEF D

(* Nothing that fits is wrapped.                                           *)
LEMMA FitsUnwrapped == \A x \in INT_MIN .. INT_MAX : Wrap(x) = x
<1> SUFFICES ASSUME NEW x \in INT_MIN .. INT_MAX PROVE Wrap(x) = x
  OBVIOUS
<1>1. INT_MAX \in Nat /\ INT_MIN = -INT_MAX - 1 /\ INT_MIN \in Int /\ x \in Int
  BY WidthAssumption DEF INT_MIN
<1>2. x - INT_MIN \in Nat /\ x - INT_MIN < 2 * (INT_MAX + 1) /\ 2 * (INT_MAX + 1) \in Nat
  BY <1>1
<1>3. \A a, b \in Nat : a < b => a % b = a
  OBVIOUS
<1>4. (x - INT_MIN) % (2 * (INT_MAX + 1)) = x - INT_MIN
  BY <1>2, <1>3
<1> QED BY <1>1, <1>4 DEF Wrap

(* A number is its last digit after the tenth of it.                       *)
LEMMA LastDigit ==
  ASSUME NEW m \in Nat \ {0}
  PROVE  /\ my_div(m, 10) \in 0 .. m - 1 /\ Digit(m) \in Digits
         /\ m = my_div(m, 10) * 10 + (Digit(m) - ZERO)
<1>1. my_div(m, 10) = m \div 10
  BY DEF my_div, Magnitude
<1>2. m \div 10 \in 0 .. m - 1 /\ m - (m \div 10) * 10 \in 0 .. 9
  OBVIOUS
<1>3. Digit(m) = (m - (m \div 10) * 10) + ZERO
  BY <1>1 DEF Digit, my_mod
<1> QED BY <1>1, <1>2, <1>3 DEF Digits, ZERO

(* The loop for the digits, lowest first.                                  *)
LowestFirst == CHOOSE g : g = [m \in INT_MIN .. INT_MAX |->
                 IF MoreDigits(m) THEN <<Digit(m)>> \o g[my_div(m, 10)] ELSE <<>>]

LEMMA LoopForDigits ==
  /\ LowestFirst[0] = <<>>
  /\ \A m \in 1 .. INT_MAX : LowestFirst[m] = <<Digit(m)>> \o LowestFirst[my_div(m, 10)]
<1> DEFINE D == INT_MIN .. INT_MAX
           B == {m \in D : ~MoreDigits(m)}
           V == Seq(Digits)
           rank == [m \in D |-> IF m > 0 THEN m ELSE 0]
           next == [m \in D \ B |-> my_div(m, 10)]
           base == [m \in D |-> <<>>]
           G == [m \in D \ B |-> [v \in V |-> <<Digit(m)>> \o v]]
           Solves(g) == g = [m \in D |->
                          IF MoreDigits(m) THEN <<Digit(m)>> \o g[my_div(m, 10)] ELSE <<>>]
<1>0. INT_MAX \in Nat /\ INT_MIN \in Int /\ INT_MIN < 0
  BY WidthAssumption DEF INT_MIN
<1>1. \A m \in D \ B : m \in 1 .. INT_MAX /\ m \in Nat \ {0}
  BY <1>0 DEF MoreDigits
<1>2. \A m \in D \ B : my_div(m, 10) \in 0 .. m - 1 /\ Digit(m) \in Digits
  BY <1>1, LastDigit
<1>3. \A m \in D \ B : my_div(m, 10) \in D
  BY <1>0, <1>1, <1>2
<1>4. LeadsDown(next, D, B, rank, INT_MAX)
  <2>1. rank \in [D -> 0 .. INT_MAX]
    BY <1>0
  <2>2. next \in [D \ B -> D]
    BY <1>3
  <2>3. \A m \in D \ B : rank[next[m]] < rank[m]
    <3> SUFFICES ASSUME NEW m \in D \ B PROVE rank[next[m]] < rank[m]
      OBVIOUS
    <3>1. next[m] = my_div(m, 10) /\ rank[m] = m
      BY <1>1
    <3>2. rank[my_div(m, 10)] < m
      BY <1>0, <1>1, <1>2, <1>3
    <3> QED BY <3>1, <3>2
  <2> HIDE DEF next, rank, D, B
  <2> QED BY <1>0, <2>1, <2>2, <2>3 DEF LeadsDown
<1>5. base \in [D -> V]
  OBVIOUS
<1>6. G \in [D \ B -> [V -> V]]
  <2>1. \A m \in D \ B : \A v \in V : <<Digit(m)>> \o v \in V
    BY <1>2, ConcatProperties
  <2> HIDE DEF V, D, B
  <2> QED BY <2>1
<1>7. \A m \in D : base[m] = <<>> /\ (m \in B <=> ~MoreDigits(m))
  OBVIOUS
<1>8. \A m \in D \ B : next[m] = my_div(m, 10) /\ \A v \in V : G[m][v] = <<Digit(m)>> \o v
  OBVIOUS
<1> HIDE DEF next, rank, base, G, B, D, V
<1>9. PICK f \in [D -> V] : Recurs(f, next, D, B, base, G)
  BY <1>0, <1>4, <1>5, <1>6, RecursionDownwards
<1>10. \A m \in D : f[m] = IF MoreDigits(m) THEN <<Digit(m)>> \o f[my_div(m, 10)] ELSE <<>>
  <2> SUFFICES ASSUME NEW m \in D
               PROVE  f[m] = IF MoreDigits(m) THEN <<Digit(m)>> \o f[my_div(m, 10)] ELSE <<>>
    OBVIOUS
  <2>1. CASE m \in B
    BY <1>7, <1>9, <2>1 DEF Recurs
  <2>2. CASE m \notin B
    <3>1. f[my_div(m, 10)] \in V
      BY <1>3, <1>9, <2>2
    <3>2. f[m] = G[m][f[my_div(m, 10)]]
      BY <1>8, <1>9, <2>2 DEF Recurs
    <3> QED BY <1>7, <1>8, <2>2, <3>1, <3>2
  <2> QED BY <2>1, <2>2
<1>11. Solves(f)
  BY <1>9, <1>10
<1>12. LowestFirst = CHOOSE g : Solves(g)
  BY DEF LowestFirst, D
<1>13. Solves(LowestFirst)
  BY <1>11, <1>12
<1>14. \A m \in D : LowestFirst[m] =
                    IF MoreDigits(m) THEN <<Digit(m)>> \o LowestFirst[my_div(m, 10)] ELSE <<>>
  BY <1>13
<1>15. 0 \in D /\ ~MoreDigits(0) /\ \A m \in 1 .. INT_MAX : m \in D /\ MoreDigits(m)
  BY <1>0 DEF D, MoreDigits
<1> QED BY <1>14, <1>15

(* Reversed, the first character comes last, and the last first.           *)
LEMMA ReversedEnds ==
  ASSUME NEW S, NEW t \in Seq(S), NEW c \in S
  PROVE  /\ Reverse(t) \in Seq(S) /\ Len(Reverse(t)) = Len(t)
         /\ Reverse(<<c>> \o t) = Append(Reverse(t), c)
         /\ Reverse(t \o <<c>>) = <<c>> \o Reverse(t)
<1> DEFINE n == Len(t)
           rev == Reverse(t)
           first == <<c>> \o t
           last == t \o <<c>>
<1>1. n \in Nat /\ \A i \in 1 .. n : t[i] \in S
  OBVIOUS
<1>2. rev \in Seq(S) /\ Len(rev) = n /\ \A i \in 1 .. n : rev[i] = t[n - i + 1]
  BY <1>1 DEF Reverse
<1>3. <<c>> \in Seq(S) /\ Len(<<c>>) = 1 /\ <<c>>[1] = c
  OBVIOUS
<1>4. /\ first \in Seq(S) /\ Len(first) = n + 1
      /\ first[1] = c /\ \A i \in 1 .. n : first[i + 1] = t[i]
  <2>1. /\ first \in Seq(S) /\ Len(first) = 1 + n
        /\ \A i \in 1 .. 1 + n : first[i] = IF i <= 1 THEN <<c>>[i] ELSE t[i - 1]
    BY <1>3, ConcatProperties
  <2> HIDE DEF first
  <2>2. \A i \in 1 .. n : i + 1 \in 1 .. 1 + n /\ ~(i + 1 <= 1) /\ (i + 1) - 1 = i
    BY <1>1
  <2>3. 1 \in 1 .. 1 + n
    BY <1>1
  <2> QED BY <1>1, <1>3, <2>1, <2>2, <2>3
<1>5. last \in Seq(S) /\ Len(last) = n + 1 /\ last[n + 1] = c /\ \A i \in 1 .. n : last[i] = t[i]
  <2>1. /\ last \in Seq(S) /\ Len(last) = n + 1
        /\ \A i \in 1 .. n + 1 : last[i] = IF i <= n THEN t[i] ELSE <<c>>[i - n]
    BY <1>3, ConcatProperties
  <2> HIDE DEF last
  <2>2. n + 1 \in 1 .. n + 1 /\ ~(n + 1 <= n) /\ (n + 1) - n = 1
    BY <1>1
  <2> QED BY <1>1, <1>3, <2>1, <2>2
<1> HIDE DEF first, last, rev, n
<1>6. /\ Reverse(first) = [i \in 1 .. n + 1 |-> first[(n + 1) - i + 1]]
      /\ Reverse(last) = [i \in 1 .. n + 1 |-> last[(n + 1) - i + 1]]
  BY <1>4, <1>5 DEF Reverse
<1>7. /\ Reverse(first) \in Seq(S) /\ Len(Reverse(first)) = n + 1
      /\ Reverse(last) \in Seq(S) /\ Len(Reverse(last)) = n + 1
  <2>1. \A i \in 1 .. n + 1 : (n + 1) - i + 1 \in 1 .. n + 1
    BY <1>1
  <2>2. \A i \in 1 .. n + 1 : first[i] \in S /\ last[i] \in S
    BY <1>4, <1>5
  <2>3. \A i \in 1 .. n + 1 : first[(n + 1) - i + 1] \in S /\ last[(n + 1) - i + 1] \in S
    BY <2>1, <2>2
  <2>4. \A u : u \in [1 .. n + 1 -> S] => u \in Seq(S) /\ Len(u) = n + 1
    BY <1>1
  <2> QED BY <1>6, <2>3, <2>4
<1>8. /\ Append(rev, c) \in Seq(S) /\ Len(Append(rev, c)) = n + 1
      /\ Append(rev, c)[n + 1] = c /\ \A i \in 1 .. n : Append(rev, c)[i] = rev[i]
  BY <1>1, <1>2
<1>9. /\ <<c>> \o rev \in Seq(S) /\ Len(<<c>> \o rev) = n + 1
      /\ \A i \in 1 .. n + 1 : (<<c>> \o rev)[i] = IF i <= 1 THEN c ELSE rev[i - 1]
  <2>1. /\ <<c>> \o rev \in Seq(S) /\ Len(<<c>> \o rev) = 1 + n
        /\ \A i \in 1 .. 1 + n : (<<c>> \o rev)[i] = IF i <= 1 THEN <<c>>[i] ELSE rev[i - 1]
    BY <1>2, <1>3, ConcatProperties
  <2>2. \A i \in 1 .. n + 1 : i <= 1 => i = 1
    BY <1>1
  <2> QED BY <1>1, <1>3, <2>1, <2>2
<1>10. Reverse(first) = Append(rev, c)
  <2>1. ASSUME NEW i \in 1 .. n + 1 PROVE Reverse(first)[i] = Append(rev, c)[i]
    <3>1. CASE i = n + 1
      <4>1. (n + 1) - i + 1 = 1
        BY <1>1, <3>1
      <4>2. Reverse(first)[i] = first[(n + 1) - i + 1]
        BY <1>6
      <4> QED BY <1>4, <1>8, <3>1, <4>1, <4>2
    <3>2. CASE i # n + 1
      <4>1. i \in 1 .. n /\ n - i + 1 \in 1 .. n /\ (n + 1) - i + 1 = (n - i + 1) + 1
        BY <1>1, <3>2
      <4>2. Reverse(first)[i] = t[n - i + 1]
        BY <1>4, <1>6, <4>1
      <4> QED BY <1>2, <1>8, <4>1, <4>2
    <3> QED BY <3>1, <3>2
  <2> QED BY <1>7, <1>8, <2>1, SeqEqual
<1>11. Reverse(last) = <<c>> \o rev
  <2>1. ASSUME NEW i \in 1 .. n + 1 PROVE Reverse(last)[i] = (<<c>> \o rev)[i]
    <3>1. CASE i = 1
      <4>1. (n + 1) - i + 1 = n + 1 /\ i <= 1
        BY <1>1, <3>1
      <4> QED BY <1>5, <1>6, <1>9, <4>1
    <3>2. CASE i # 1
      <4>1. /\ ~(i <= 1) /\ (n + 1) - i + 1 \in 1 .. n /\ i - 1 \in 1 .. n
            /\ n - (i - 1) + 1 = (n + 1) - i + 1
        BY <1>1, <3>2
      <4>2. Reverse(last)[i] = t[(n + 1) - i + 1]
        BY <1>5, <1>6, <4>1
      <4>3. (<<c>> \o rev)[i] = rev[i - 1] /\ rev[i - 1] = t[n - (i - 1) + 1]
        BY <1>2, <1>9, <4>1
      <4> QED BY <4>1, <4>2, <4>3
    <3> QED BY <3>1, <3>2
  <2> QED BY <1>7, <1>9, <2>1, SeqEqual
<1> QED BY <1>2, <1>10, <1>11 DEF first, last, rev, n

(* The numbers that reading a string of digits comes through, up to v.     *)
ReadsAs(s, f, v) ==
  /\ f \in [0 .. Len(s) -> 0 .. v] /\ f[0] = 0 /\ f[Len(s)] = v
  /\ \A j \in 1 .. Len(s) : f[j] = f[j - 1] * 10 + (s[j] - ZERO)

IsDecimal(s, v) == s \in Seq(Digits) /\ \E f : ReadsAs(s, f, v)

(* One more digit. *)
LEMMA DigitMore ==
  ASSUME NEW m \in Nat \ {0}, NEW s, IsDecimal(s, my_div(m, 10))
  PROVE  IsDecimal(Append(s, Digit(m)), m)
<1> DEFINE n == Len(s)
           q == my_div(m, 10)
           d == Digit(m)
           longer == Append(s, d)
<1>1. PICK f : ReadsAs(s, f, q)
  BY DEF IsDecimal
<1>2. q \in 0 .. m - 1 /\ d \in Digits /\ m = q * 10 + (d - ZERO)
  BY LastDigit
<1>3. s \in Seq(Digits) /\ n \in Nat
  BY DEF IsDecimal
<1>4. /\ longer \in Seq(Digits) /\ Len(longer) = n + 1
      /\ longer[n + 1] = d /\ \A j \in 1 .. n : longer[j] = s[j]
  BY <1>2, <1>3
<1> HIDE DEF longer, n, q, d
<1> DEFINE g == [j \in 0 .. n + 1 |-> IF j <= n THEN f[j] ELSE m]
<1>5. f \in [0 .. n -> 0 .. q] /\ f[0] = 0 /\ f[n] = q
      /\ \A j \in 1 .. n : f[j] = f[j - 1] * 10 + (s[j] - ZERO)
  BY <1>1 DEF ReadsAs, n
<1>6. g \in [0 .. n + 1 -> 0 .. m]
  <2>1. \A j \in 0 .. n + 1 : j <= n => f[j] \in 0 .. m
    BY <1>2, <1>3, <1>5
  <2> QED BY <2>1
<1>7. g[0] = 0 /\ g[n + 1] = m /\ \A j \in 0 .. n : g[j] = f[j]
  BY <1>3, <1>5
<1>8. ASSUME NEW j \in 1 .. n + 1 PROVE g[j] = g[j - 1] * 10 + (longer[j] - ZERO)
  <2>1. CASE j = n + 1
    <3>1. j - 1 = n /\ n \in 0 .. n
      BY <1>3, <2>1
    <3> QED BY <1>2, <1>4, <1>5, <1>7, <2>1, <3>1
  <2>2. CASE j # n + 1
    <3>1. j \in 1 .. n /\ j \in 0 .. n /\ j - 1 \in 0 .. n
      BY <1>3, <2>2
    <3> QED BY <1>4, <1>5, <1>7, <3>1
  <2> QED BY <2>1, <2>2
<1> HIDE DEF g
<1>9. ReadsAs(longer, g, m)
  BY <1>4, <1>6, <1>7, <1>8 DEF ReadsAs
<1> QED BY <1>4, <1>9 DEF IsDecimal, longer, d

(* What the loop for the digits leaves, reversed: m in decimal, and no     *)
(* longer than it must be.                                                 *)
DigitsInOrder(m) ==
  /\ LowestFirst[m] \in Seq(Digits)
  /\ IsDecimal(Reverse(LowestFirst[m]), m)
  /\ m # 0 => LowestFirst[m] # <<>>
  /\ \A k \in 0 .. BUF_SIZE : m < Tens[k] => Len(LowestFirst[m]) <= k

LEMMA DigitsComeOut == \A m \in 0 .. INT_MAX : DigitsInOrder(m)
<1> DEFINE S == {k \in Nat : \A m \in 0 .. k : DigitsInOrder(m)}
<1>0. INT_MAX \in Nat /\ BUF_SIZE \in Nat
  BY WidthAssumption
<1>1. DigitsInOrder(0)
  <2>1. LowestFirst[0] = <<>>
    BY LoopForDigits
  <2>2. Reverse(<<>>) = <<>> /\ <<>> \in Seq(Digits) /\ Len(<<>>) = 0
    BY DEF Reverse
  <2>3. ReadsAs(<<>>, [j \in {0} |-> 0], 0)
    BY <2>2 DEF ReadsAs
  <2>4. IsDecimal(<<>>, 0)
    BY <2>2, <2>3 DEF IsDecimal
  <2> QED BY <2>1, <2>2, <2>4 DEF DigitsInOrder
<1>2. ASSUME NEW m \in 1 .. INT_MAX, DigitsInOrder(my_div(m, 10)) PROVE DigitsInOrder(m)
  <2> DEFINE q == my_div(m, 10)
             d == Digit(m)
             low == LowestFirst[q]
  <2>1. m \in Nat \ {0} /\ q \in 0 .. m - 1 /\ d \in Digits /\ m = q * 10 + (d - ZERO)
    BY <1>0, LastDigit
  <2>2. LowestFirst[m] = <<d>> \o low
    BY LoopForDigits
  <2>3. /\ low \in Seq(Digits) /\ IsDecimal(Reverse(low), q)
        /\ \A k \in 0 .. BUF_SIZE : q < Tens[k] => Len(low) <= k
    BY <1>2 DEF DigitsInOrder
  <2>4. IsDecimal(Append(Reverse(low), d), m)
    BY <2>1, <2>3, DigitMore
  <2> HIDE DEF low, d
  <2>5. /\ <<d>> \o low \in Seq(Digits) /\ Len(<<d>> \o low) = Len(low) + 1
        /\ Len(low) \in Nat /\ Reverse(<<d>> \o low) = Append(Reverse(low), d)
    <3>1. <<d>> \in Seq(Digits) /\ Len(<<d>>) = 1
      BY <2>1
    <3>2. <<d>> \o low \in Seq(Digits) /\ Len(<<d>> \o low) = Len(<<d>>) + Len(low)
      BY <2>3, <3>1, ConcatProperties
    <3>3. Len(low) \in Nat
      BY <2>3
    <3> QED BY <2>1, <2>3, <3>1, <3>2, <3>3, ReversedEnds
  <2> HIDE DEF q
  <2>6. ASSUME NEW k \in 0 .. BUF_SIZE, m < Tens[k] PROVE Len(low) + 1 <= k
    <3>1. Tens[0] = 1 /\ \A i \in 1 .. BUF_SIZE : Tens[i] = 10 * Tens[i - 1] /\ Tens[i - 1] \in Nat
      BY <1>0, TensArePowers
    <3>2. k # 0
      BY <2>1, <2>6, <3>1
    <3>3. k \in 1 .. BUF_SIZE /\ k - 1 \in 0 .. BUF_SIZE
      BY <1>0, <3>2
    <3>4. Tens[k] = 10 * Tens[k - 1] /\ Tens[k - 1] \in Nat
      BY <3>1, <3>3
    <3>5. d - ZERO \in 0 .. 9 /\ q \in Nat
      BY <2>1 DEF Digits, ZERO
    <3>6. q < Tens[k - 1]
      BY <2>1, <2>6, <3>4, <3>5
    <3>7. Len(low) <= k - 1
      BY <2>3, <3>3, <3>6
    <3> QED BY <1>0, <2>5, <3>7
  <2>7. <<d>> \o low # <<>>
    BY <2>5
  <2> QED BY <2>2, <2>4, <2>5, <2>6, <2>7 DEF DigitsInOrder
<1>3. 0 \in S
  BY <1>1
<1>4. ASSUME NEW k \in 0 .. INT_MAX - 1, k \in S PROVE k + 1 \in S
  <2>1. k + 1 \in 1 .. INT_MAX /\ k \in Nat
    BY <1>0
  <2>2. my_div(k + 1, 10) \in 0 .. k
    BY <2>1, LastDigit, (k + 1) - 1 = k
  <2>3. DigitsInOrder(k + 1)
    BY <1>2, <1>4, <2>1, <2>2
  <2>4. \A m \in 0 .. k + 1 : m \in 0 .. k \/ m = k + 1
    BY <2>1
  <2> QED BY <1>4, <2>1, <2>3, <2>4
<1> HIDE DEF S
<1>5. \A k \in 0 .. INT_MAX : k \in S
  BY <1>0, <1>3, <1>4, InductUpTo
<1> QED BY <1>0, <1>5 DEF S

(* The places where the loops over characters stop.                        *)
LEMMA StopsPast ==
  ASSUME NEW s, NEW from, NEW cs, NEW k \in from .. Len(s) + 1, from \in Nat, Len(s) \in Nat,
         k <= Len(s) => s[k] \notin cs, \A i \in from .. k - 1 : s[i] \in cs
  PROVE  Past(s, from, cs) = k
<1> DEFINE Stops(j) == (j <= Len(s) => s[j] \notin cs) /\ \A i \in from .. j - 1 : s[i] \in cs
           p == CHOOSE j \in from .. Len(s) + 1 : Stops(j)
<1>1. p \in from .. Len(s) + 1 /\ Stops(p)
  <2>1. k \in from .. Len(s) + 1 /\ Stops(k)
    OBVIOUS
  <2> HIDE DEF Stops
  <2> QED BY <2>1
<1>2. Past(s, from, cs) = p
  BY DEF Past
<1> HIDE DEF p
<1>3. ~(p < k)
  <2> SUFFICES ASSUME p < k PROVE FALSE
    OBVIOUS
  <2>1. p \in from .. k - 1 /\ p <= Len(s)
    BY <1>1
  <2> QED BY <1>1, <2>1
<1>4. ~(k < p)
  <2> SUFFICES ASSUME k < p PROVE FALSE
    OBVIOUS
  <2>1. k \in from .. p - 1 /\ k <= Len(s)
    BY <1>1
  <2> QED BY <1>1, <2>1
<1> QED BY <1>1, <1>2, <1>3, <1>4

(* The loop of my_str_to_int over the characters from first up to end.     *)
SoFar(s, first, end) == CHOOSE so_far : so_far = [k \in first .. end |->
                          IF k = first THEN 0 ELSE Accumulated(so_far[k - 1], s[k - 1])]

LEMMA ReadingSteps ==
  ASSUME NEW s
  PROVE  LET sign == Past(s, 1, Blanks)
             first == IF HasAt(s, sign, MINUS) \/ HasAt(s, sign, PLUS) THEN sign + 1 ELSE sign
             end == Past(s, first, Digits)
         IN my_str_to_int(s) = IF HasAt(s, sign, MINUS) THEN Wrap(-SoFar(s, first, end)[end])
                                                        ELSE SoFar(s, first, end)[end]
BY DEF my_str_to_int, SoFar

(* On the digits of v it comes to v. *)
LEMMA LoopReads ==
  ASSUME NEW s, NEW first \in Nat, NEW r, NEW v \in 0 .. INT_MAX, IsDecimal(r, v),
         Len(s) = first - 1 + Len(r), \A j \in 1 .. Len(r) : s[first - 1 + j] = r[j],
         NEW end, end = Len(s) + 1
  PROVE  SoFar(s, first, end)[end] = v
<1> DEFINE n == Len(r)
           K == first .. end
           Solves(g) == g = [k \in K |-> IF k = first THEN 0 ELSE Accumulated(g[k - 1], s[k - 1])]
           so_far == CHOOSE g : Solves(g)
<1>1. PICK f : ReadsAs(r, f, v)
  BY DEF IsDecimal
<1>2. r \in Seq(Digits) /\ n \in Nat /\ end = first + n /\ INT_MAX \in Nat
  BY WidthAssumption DEF IsDecimal
<1>3. f \in [0 .. n -> 0 .. v] /\ f[0] = 0 /\ f[n] = v
      /\ \A j \in 1 .. n : f[j] = f[j - 1] * 10 + (r[j] - ZERO)
  BY <1>1 DEF ReadsAs
<1> HIDE DEF n
<1>4. ASSUME NEW j \in 1 .. n PROVE Accumulated(f[j - 1], s[first - 1 + j]) = f[j]
  <2>1. s[first - 1 + j] = r[j]
    BY DEF n
  <2>2. f[j] \in INT_MIN .. INT_MAX
    BY <1>2, <1>3 DEF INT_MIN
  <2>3. Wrap(f[j]) = f[j]
    BY <2>2, FitsUnwrapped
  <2> QED BY <1>3, <2>1, <2>3 DEF Accumulated
<1> DEFINE h == [k \in K |-> f[k - first]]
<1>5. ASSUME NEW k \in K PROVE h[k] = IF k = first THEN 0 ELSE Accumulated(h[k - 1], s[k - 1])
  <2>1. CASE k = first
    <3>1. k - first = 0
      BY <2>1
    <3> QED BY <1>3, <2>1, <3>1
  <2>2. CASE k # first
    <3>1. k - 1 \in K /\ k - first \in 1 .. n /\ first - 1 + (k - first) = k - 1
          /\ (k - 1) - first = (k - first) - 1
      BY <1>2, <2>2
    <3>2. h[k] = f[k - first] /\ h[k - 1] = f[(k - first) - 1]
      BY <3>1
    <3>3. Accumulated(f[(k - first) - 1], s[k - 1]) = f[k - first]
      BY <1>4, <3>1
    <3> QED BY <2>2, <3>2, <3>3
  <2> QED BY <2>1, <2>2
<1>6. Solves(h)
  <2>1. h = [k \in K |-> h[k]]
    OBVIOUS
  <2> HIDE DEF h, K
  <2> QED BY <1>5, <2>1
<1>7. Solves(so_far)
  BY <1>6
<1> HIDE DEF so_far
<1>8. \A k \in K : so_far[k] = IF k = first THEN 0 ELSE Accumulated(so_far[k - 1], s[k - 1])
  BY <1>7
<1> DEFINE Right == {j \in 0 .. n : so_far[first + j] = f[j]}
<1>9. 0 \in Right
  <2>1. first + 0 = first /\ first \in K
    BY <1>2
  <2> QED BY <1>2, <1>3, <1>8, <2>1
<1>10. ASSUME NEW j \in 0 .. n - 1, j \in Right PROVE j + 1 \in Right
  <2>1. /\ first + (j + 1) \in K /\ first + (j + 1) # first /\ (first + (j + 1)) - 1 = first + j
        /\ j + 1 \in 1 .. n /\ j + 1 \in 0 .. n /\ first - 1 + (j + 1) = first + j
        /\ (j + 1) - 1 = j
    BY <1>2
  <2>2. so_far[first + (j + 1)] = Accumulated(f[j], s[first + j])
    BY <1>8, <1>10, <2>1
  <2>3. Accumulated(f[j], s[first + j]) = f[j + 1]
    BY <1>4, <2>1
  <2> QED BY <2>1, <2>2, <2>3
<1> HIDE DEF Right
<1>11. \A j \in 0 .. n : j \in Right
  BY <1>2, <1>9, <1>10, InductUpTo
<1>12. so_far[end] = v
  <2>1. n \in 0 .. n
    BY <1>2
  <2> QED BY <1>2, <1>3, <1>11, <2>1 DEF Right
<1> QED BY <1>12 DEF so_far, K, SoFar

(* A string of digits, with a sign in front or without, is read as the     *)
(* number that it shows.                                                   *)
LEMMA ReadsDecimal ==
  ASSUME NEW v \in 0 .. INT_MAX, NEW r, IsDecimal(r, v), r # <<>>
  PROVE  my_str_to_int(r) = v /\ my_str_to_int(<<MINUS>> \o r) = -v
<1> DEFINE n == Len(r)
           signed == <<MINUS>> \o r
<1>1. r \in Seq(Digits) /\ n \in Nat \ {0} /\ \A j \in 1 .. n : r[j] \in Digits
  BY DEF IsDecimal
<1>2. \A c \in Digits : c \notin Blanks /\ c # MINUS /\ c # PLUS
  BY DEF Digits, Blanks, MINUS, PLUS, ZERO
<1>3. MINUS \notin Blanks /\ MINUS \in Nat
  BY DEF MINUS, Blanks
<1>4. /\ Len(signed) = n + 1 /\ signed[1] = MINUS
      /\ \A j \in 1 .. n : signed[1 + j] = r[j]
  <2>1. <<MINUS>> \in Seq(Nat) /\ Len(<<MINUS>>) = 1 /\ <<MINUS>>[1] = MINUS /\ r \in Seq(Nat)
    BY <1>1, <1>3 DEF Digits, ZERO
  <2>2. /\ Len(signed) = 1 + n
        /\ \A i \in 1 .. 1 + n : signed[i] = IF i <= 1 THEN <<MINUS>>[i] ELSE r[i - 1]
    BY <2>1, ConcatProperties
  <2> HIDE DEF signed
  <2>3. /\ 1 \in 1 .. 1 + n
        /\ \A j \in 1 .. n : 1 + j \in 1 .. 1 + n /\ ~(1 + j <= 1) /\ (1 + j) - 1 = j
    BY <1>1
  <2> QED BY <1>1, <2>1, <2>2, <2>3
<1> HIDE DEF signed, n
<1>5. my_str_to_int(r) = v
  <2>1. Past(r, 1, Blanks) = 1
    BY <1>1, <1>2, StopsPast DEF n
  <2>2. ~HasAt(r, 1, MINUS) /\ ~HasAt(r, 1, PLUS)
    BY <1>1, <1>2 DEF HasAt, n
  <2>3. Past(r, 1, Digits) = Len(r) + 1
    <3>1. Len(r) + 1 \in 1 .. Len(r) + 1 /\ Len(r) \in Nat /\ 1 \in Nat
          /\ ~(Len(r) + 1 <= Len(r)) /\ (Len(r) + 1) - 1 = n
      BY <1>1 DEF n
    <3> QED BY <1>1, <3>1, StopsPast
  <2>4. SoFar(r, 1, Len(r) + 1)[Len(r) + 1] = v
    <3>1. Len(r) = 1 - 1 + Len(r) /\ \A j \in 1 .. Len(r) : r[1 - 1 + j] = r[j]
      BY <1>1 DEF n
    <3> QED BY <3>1, LoopReads
  <2> QED BY <2>1, <2>2, <2>3, <2>4, ReadingSteps
<1>6. my_str_to_int(signed) = -v
  <2>1. Past(signed, 1, Blanks) = 1
    BY <1>1, <1>3, <1>4, StopsPast
  <2>2. HasAt(signed, 1, MINUS)
    BY <1>1, <1>4 DEF HasAt
  <2>3. Past(signed, 2, Digits) = Len(signed) + 1
    <3>1. \A i \in 2 .. n + 1 : i - 1 \in 1 .. n /\ 1 + (i - 1) = i
      BY <1>1
    <3>2. \A i \in 2 .. n + 1 : signed[i] \in Digits
      BY <1>1, <1>4, <3>1
    <3>3. Len(signed) + 1 \in 2 .. Len(signed) + 1 /\ Len(signed) \in Nat
          /\ ~(Len(signed) + 1 <= Len(signed)) /\ (Len(signed) + 1) - 1 = n + 1
      BY <1>1, <1>4
    <3> QED BY <3>2, <3>3, StopsPast
  <2>4. SoFar(signed, 2, Len(signed) + 1)[Len(signed) + 1] = v
    <3>1. Len(signed) = 2 - 1 + Len(r) /\ \A j \in 1 .. Len(r) : signed[2 - 1 + j] = r[j]
      BY <1>1, <1>4 DEF n
    <3> QED BY <3>1, LoopReads
  <2>5. 1 + 1 = 2
    OBVIOUS
  <2>6. my_str_to_int(signed) = Wrap(-v)
    BY <2>1, <2>2, <2>3, <2>4, <2>5, ReadingSteps
  <2>7. -v \in INT_MIN .. INT_MAX
    BY WidthAssumption DEF INT_MIN
  <2> QED BY <2>6, <2>7, FitsUnwrapped
<1> QED BY <1>5, <1>6 DEF signed

(* Any int but the smallest fits the buffers as a string and is read back. *)
LEMMA AllAreReadBack == AllReadBack
<1> SUFFICES ASSUME NEW n \in INT_MIN + 1 .. INT_MAX PROVE ReadsBack(n)
  BY DEF AllReadBack
<1>0. INT_MAX \in Nat /\ BUF_SIZE \in Nat /\ BUF_SIZE >= 2 /\ INT_MIN = -INT_MAX - 1 /\ n \in Int
  BY WidthAssumption DEF INT_MIN
<1>1. CASE n = 0
  <2>1. my_int_to_str(n) = <<ZERO>> /\ Len(<<ZERO>>) = 1 /\ <<ZERO>>[1] = ZERO
        /\ <<ZERO>> \in Seq(Digits) /\ <<ZERO>> # <<>>
    BY <1>1 DEF my_int_to_str, Digits, ZERO
  <2>2. ReadsAs(<<ZERO>>, [j \in 0 .. 1 |-> 0], 0)
    <3> DEFINE f == [j \in 0 .. 1 |-> 0]
    <3>1. f \in [0 .. 1 -> 0 .. 0] /\ f[0] = 0 /\ f[1] = 0
      OBVIOUS
    <3>2. \A j \in 1 .. 1 : j = 1 /\ j - 1 = 0
      OBVIOUS
    <3>3. 0 = 0 * 10 + (ZERO - ZERO)
      BY DEF ZERO
    <3> HIDE DEF f
    <3>4. ReadsAs(<<ZERO>>, f, 0)
      BY <2>1, <3>1, <3>2, <3>3 DEF ReadsAs
    <3> QED BY <3>4 DEF f
  <2>3. IsDecimal(<<ZERO>>, 0)
    BY <2>1, <2>2 DEF IsDecimal
  <2>4. 0 \in 0 .. INT_MAX
    BY <1>0
  <2>5. my_str_to_int(<<ZERO>>) = 0
    BY <2>1, <2>3, <2>4, ReadsDecimal
  <2> QED BY <1>0, <1>1, <2>1, <2>5 DEF ReadsBack
<1>2. ASSUME n # 0, NEW v, v = my_abs(n) PROVE ReadsBack(n)
  <2> DEFINE low == LowestFirst[v]
             r == Reverse(low)
             s == my_int_to_str(n)
  <2>1. v \in 1 .. INT_MAX /\ (n > 0 => v = n) /\ (n < 0 => v = -n)
    <3>1. n < 0 => -n \in INT_MIN .. INT_MAX
      BY <1>0
    <3> QED BY <1>0, <1>2, <3>1, FitsUnwrapped DEF my_abs
  <2>2. DigitsInOrder(v)
    <3>1. v \in 0 .. INT_MAX
      BY <2>1
    <3> QED BY <3>1, DigitsComeOut
  <2>3. low \in Seq(Digits) /\ low # <<>> /\ IsDecimal(r, v)
    BY <2>1, <2>2 DEF DigitsInOrder
  <2>4. Len(low) <= BUF_SIZE - 2
    <3>1. BUF_SIZE - 2 \in 0 .. BUF_SIZE
      BY <1>0
    <3>2. Tens[BUF_SIZE - 2] \in Nat
      BY <3>1, TensArePowers
    <3>3. v < Tens[BUF_SIZE - 2]
      BY <1>0, <2>1, <3>2, BufferAssumption
    <3> QED BY <2>2, <3>1, <3>3 DEF DigitsInOrder
  <2>5. s = IF n < 0 THEN Reverse(low \o <<MINUS>>) ELSE Reverse(low \o <<>>)
    <3>1. s = Reverse(LowestFirst[my_abs(n)] \o (IF n < 0 THEN <<MINUS>> ELSE <<>>))
      BY <1>2 DEF my_int_to_str, LowestFirst
    <3> HIDE DEF s
    <3> QED BY <1>2, <3>1
  <2> HIDE DEF low, s
  <2>6. r # <<>> /\ Len(r) = Len(low) /\ Len(low) \in Nat
    <3>1. Len(low) \in Nat \ {0}
      BY <2>3
    <3>2. ZERO \in Digits
      BY DEF Digits, ZERO
    <3>3. r \in Seq(Digits) /\ Len(r) = Len(low)
      BY <2>3, <3>2, ReversedEnds
    <3> QED BY <3>1, <3>3
  <2>7. CASE n > 0
    <3>1. s = r
      <4>1. low \o <<>> = low
        BY <2>3, ConcatEmptySeq
      <4> QED BY <1>0, <2>5, <2>7, <4>1
    <3> HIDE DEF r
    <3>2. v \in 0 .. INT_MAX
      BY <2>1
    <3>3. my_str_to_int(s) = v
      BY <2>3, <2>6, <3>1, <3>2, ReadsDecimal
    <3> QED BY <1>0, <2>1, <2>4, <2>6, <2>7, <3>1, <3>3 DEF ReadsBack, s
  <2>8. CASE n < 0
    <3>1. low \in Seq(Nat) /\ MINUS \in Nat
      BY <2>3 DEF Digits, ZERO, MINUS
    <3>2. s = <<MINUS>> \o r
      BY <2>5, <2>8, <3>1, ReversedEnds
    <3>3. r \in Seq(Nat)
      BY <3>1, ReversedEnds
    <3> HIDE DEF r
    <3>4. Len(s) = 1 + Len(r)
      BY <3>1, <3>2, <3>3
    <3>5. v \in 0 .. INT_MAX
      BY <2>1
    <3>6. my_str_to_int(s) = -v
      BY <2>3, <2>6, <3>2, <3>5, ReadsDecimal
    <3> QED BY <1>0, <2>1, <2>4, <2>6, <2>8, <3>4, <3>6 DEF ReadsBack, s
  <2> QED BY <1>0, <1>2, <2>7, <2>8
<1> QED BY <1>1, <1>2

(* Whatever number the program may print fits the buffer and is read back. *)
(* (my_int_to_str, my_str_to_int)                                          *)
THEOREM ReadingBack == Spec => []PrintedReadsBack
<1>1. PrintedReadsBack
  BY AllAreReadBack DEF PrintedReadsBack
<1> QED BY <1>1, PTL

(* A pid read off a row of ps kills the process of that row.               *)
(* (scheduler_list, scheduler_kill)                                        *)
THEOREM KillingListed == Spec => []ListedPidsKill
<1>1. ASSUME SchedInv PROVE ListedPidsKill
  <2> SUFFICES ASSUME phase = "prompt", NEW s \in Present(process)
               PROVE  my_str_to_int(my_int_to_str(process[s].pid)) = s
    BY DEF ListedPidsKill, scheduler_list, Row, Present
  <2>1. process[s].pid = s /\ s \in Slots
    BY <1>1 DEF SchedInv, InOrder, Present
  <2>2. s \in INT_MIN + 1 .. INT_MAX
    BY <2>1, WidthAssumption, ProcessAssumption DEF INT_MIN, Slots
  <2>3. my_str_to_int(my_int_to_str(s)) = s
    BY <2>2, AllAreReadBack DEF AllReadBack, ReadsBack
  <2> QED BY <2>1, <2>3
<1> QED BY <1>1, SchedInvariant, PTL
=============================================================================
