SPECIFICATION FairSpec
CONSTANTS
  o1 = o1  o2 = o2  o3 = o3  k1 = k1  k2 = k2  n1 = n1  n2 = n2
  NoNonce = NoNonce  Never = Never
  Ops = {o1, o2}
  Requests <- ExternalRequests
  Identities <- UsedIdentities
  Keys <- UsedKeys
  MaxPerKey = 1  Capacity = 1
  MaxAge = 2  MaxLifetime = 2  Skew = 1  MaxSafeInteger = 9
  MaxDrift = 1  TicksPerSecond = 1
  Declaration = "independent"
  ClearMayFail = FALSE  StoreMayFail = TRUE  MaxEpoch = 2
  InitialClock <- StartClock
  ClockFaults = {"wall-step", "outage"}  WallSteps <- StepsBack
  MaxTicks = 1  MaxFaults = 1  MaxResets = 2
CHECK_DEADLOCK FALSE
PROPERTIES ImplementsAdmission EveryCallEnds
