SPECIFICATION FairSpec
CONSTANTS
  c1 = c1  c2 = c2  r1 = r1
  Never = Never  None = None  Elsewhere = Elsewhere
  Requests = {r1}  Callers = {c1, c2}
  Instances <- MCInstances
  Sizes = {0, 1, 2, 3, 4}  MaxDepth = 3  MaxTime = 3
CHECK_DEADLOCK FALSE
INVARIANTS OneDecision PolicyDecides ContextReadable OneTarget
PROPERTIES EveryCallerAnswered
