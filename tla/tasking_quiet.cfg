CONSTANTS
  MaxTask = 5
  Boot = 3
  Sems = {heap}
  Heap = heap
  NullSem = null
  Calls <- QuietCalls
  Naps = {0, 1}
  MaxTick = 1
  MaxDrift = 0
SPECIFICATION Spec
INVARIANTS TypeOK SchedulerFindsTask FreedNeverRuns UsleepNotEarly UniquePids NoLostTask
