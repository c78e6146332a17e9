CONSTANTS
  p1 = p1
  p2 = p2
  o1 = o1
  o2 = o2
  v1 = v1
  v2 = v2
  k1 = k1
  None = None
  Origins = {o1, o2}
  Allowed = {o1, o2}
  Keys = {k1}
  Profiles = {p1}
  Invocations = {v1}
  Candidates <- TwoOrigins
  Responses <- SizedResponses
  NegativePeriod = 2
  MaxEntries = 2
  MaxBytes = 2
  MaxNegative = 1
  Deadline = 2
  MaxPending = 2
  MaxTime = 2
  MaxFaults = 0
  MaxCalls = 2
SPECIFICATION Spec
CHECK_DEADLOCK FALSE
INVARIANTS DiscoveryConsistent
PROPERTIES BackoffHolds
