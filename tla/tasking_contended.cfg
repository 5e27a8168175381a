CONSTANTS
  MaxTask = 4
  Boot = 3
  Sems = {heap}
  Heap = heap
  NullSem = null
  Calls <- ContendedCalls
  Naps = {1}
  MaxTick = 0
  MaxDrift = 0
SPECIFICATION Spec
INVARIANTS SchedulerFindsTask FreedNeverRuns
