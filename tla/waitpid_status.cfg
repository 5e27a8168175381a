CONSTANTS
  MaxTask = 3
  Boot = 3
  Sems = {heap}
  Heap = heap
  NullSem = null
  Calls <- WaitCalls
  Naps = {0, 1}
  MaxTick = 0
  MaxDrift = 0
SPECIFICATION Spec
INVARIANTS ExitStatusDelivered
