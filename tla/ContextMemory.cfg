SPECIFICATION Spec
CONSTANTS
  o1 = o1  o2 = o2  o3 = o3  k1 = k1  k2 = k2  n1 = n1  n2 = n2
  NoNonce = NoNonce  Never = Never
  Ops = {o1, o2}
  Requests <- MemoryRequests
  Identities <- UsedIdentities
  Keys <- UsedKeys
  MaxPerKey = 1  Capacity = 2
  MaxAge = 2  MaxLifetime = 2  Skew = 1  MaxSafeInteger = 9
  MaxDrift = 1  TicksPerSecond = 1
  Declaration = "process-clock"
  ClearMayFail = TRUE  StoreMayFail = FALSE  MaxEpoch = 2
  InitialClock <- StartClock
  ClockFaults = {"wall-step", "mono-step"}  WallSteps <- StepsForward
  MaxTicks = 3  MaxFaults = 1  MaxResets = 2
SYMMETRY OpSymmetry
CHECK_DEADLOCK FALSE
INVARIANTS ContextConsistent StoreSound ReplayProtected
PROPERTIES VerifiedInOwnEpoch EpochsOpenClean RetainedUntilDeadline
