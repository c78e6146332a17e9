CONSTANTS
  c1 = c1  c2 = c2  k1 = k1   n1 = n1  n2 = n2
  None = None
  Calls = {c1, c2}
  Keys = {k1}
  Requests <- MCRequests
  Modes = {"exactly-one", "multiple"}
  Forgets = TRUE
  MaxAge = 2
  MaxLifetime = 2
  Skew = 1
  MaxSafeInteger = 9
  MaxTime = 3
  MaxFaults = 1
SPECIFICATION Spec
SYMMETRY CallSymmetry
CHECK_DEADLOCK FALSE
INVARIANTS CallsConsistent NeverStuck
PROPERTIES NonceCoversGroup
