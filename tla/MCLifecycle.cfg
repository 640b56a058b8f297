CONSTANTS
  Closer = closer
  Callers = {closer, user}
  Handles = {h1, h2}
  MaxCalls = 3
  Refusable = {1, 2, 3}
  StrayIds = {}
SPECIFICATION CloseSpec
INVARIANTS
  CloseInv
  HeldOnlyIfReleaseFailed
PROPERTIES
  ClosedSendsNothing
CHECK_DEADLOCK FALSE
