CONSTANTS
  o1 = o1  o2 = o2  a1 = a1  k1 = k1  n1 = n1  n2 = n2
  None = None
  Ops = {o1, o2}
  Adapters = {a1}
  Requests <- Mixed
  Config <- OneConfig
  Leftovers <- LeftConfigs
  Losses = {{"epoch"}, {"epoch", "until", "state"}}
  Offsets = {1}
  StepsBack = {1}
  MaxAge = 1
  MaxLifetime = 1
  Skew = 1
  MaxSafeInteger = 99
  Ticks = 2
  Millis = 1
  Timeout = 2
  MaxTime = 13
  MaxFaults = 1
SPECIFICATION Spec
SYMMETRY ClientSymmetry
CHECK_DEADLOCK FALSE
INVARIANTS RecordsSound
PROPERTIES AdmitsOnce KeptThroughWindow NoNeedlessQuarantine
