CONSTANTS
  Origins = {o1, o2, o3}
  NoOrigin = NoOrigin
  MaxActive = 2
  MaxStarts = 1
  Window = 2
  Cooldown = 5
  Deadline = 3
  MaxQueue = 2
  MaxTracked = 2
  Lags = {0, 1}
  MaxJobs = 3
  MaxTime = 5
  MaxFaults = 1
SPECIFICATION FairSpec
CHECK_DEADLOCK FALSE
INVARIANTS SchedulerConsistent RatesHold
PROPERTIES EveryJobSettles
