CONSTANTS
  MaxTask = 3
  Boot = 3
  Sems = {heap}
  Heap = heap
  NullSem = null
  Calls <- LiveCalls
  Naps = {0, 1}
  MaxTick = 2
  MaxDrift = 0
SPECIFICATION FairSpec
PROPERTIES ReadyRuns SleeperWakes DyingFreed
