CONSTANTS
  Callers = {c1, c2}
  MaxCalls = 2
  Refusable = {}
  StrayIds = {}
SPECIFICATION Spec
INVARIANTS
  ActiveRequestsWait
CHECK_DEADLOCK FALSE
