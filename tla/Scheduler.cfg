\* Two runs of the program of up to five commands each, a table of two, and
\* ints of 16 bits.
CONSTANTS
  INT_MAX = 32767
  BUF_SIZE = 7
  MAX_PROCESSES = 2
  Tasks = {"task"}
  MaxTicks = 5
  MaxBoots = 2
SPECIFICATION Spec
INVARIANTS SchedTypeOK PidsAreSlots TicksCountLife OnlyOldTablesOvertake ListedPidsKill PrintedReadsBack
PROPERTIES HaltedStaysWiped SpawnsSpareProcesses
CHECK_DEADLOCK FALSE
