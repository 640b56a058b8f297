CONSTANTS
  Closer = closer
  Callers = {closer, user}
  Handles = {h1}
  MaxCalls = 2
  Refusable = {1}
  StrayIds = {}
SPECIFICATION CloseFairSpec
PROPERTIES
  CallsReturnUnlessOrphaned
  ShutdownDrains
  CloseReturnsUnlessStuck
  ListenerEnds
CHECK_DEADLOCK FALSE
