CONSTANTS
  MaxTask = 4
  Boot = 4
  Sems = {heap}
  Heap = heap
  NullSem = null
  Calls <- SemCalls
  Naps = {0, 1}
  MaxTick = 0
  MaxDrift = 0
SPECIFICATION Spec
INVARIANTS SemaphoreExclusion
