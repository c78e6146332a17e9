CONSTANTS
  p1 = p1
  p2 = p2
  o1 = o1
  o2 = o2
  v1 = v1
  v2 = v2
  k1 = k1
  None = None
  Origins = {o1}
  Allowed = {o1}
  Keys = {k1}
  Profiles = {p1}
  Invocations = {v1}
  Candidates <- TwoProfiles
  Responses <- AllResponses
  NegativePeriod = 2
  MaxEntries = 2
  MaxBytes = 2
  MaxNegative = 2
  Deadline = 2
  MaxPending = 2
  MaxTime = 2
  MaxFaults = 1
  MaxCalls = 1
SPECIFICATION Spec
CHECK_DEADLOCK FALSE
INVARIANTS OneEventPerRefresh
