CONSTANTS
  Closer = closer
  Callers = {closer, user}
  Handles = {h1}
  MaxCalls = 2
  Refusable = {}
  StrayIds = {}
SPECIFICATION CloseFairSpec
PROPERTIES
  CloseReturns
CHECK_DEADLOCK FALSE
