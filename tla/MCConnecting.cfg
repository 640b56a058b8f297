CONSTANTS
  Asked = {"Delete"}
  MaxCalls = 4
  MaxSystem = 1
SPECIFICATION FairSpec
INVARIANTS
  Inv
  SuccessIsReal
  CutTypesMeetNoSymbol
PROPERTIES
  ConnectReturns
  ListenerEndsUnlessDeaf
CHECK_DEADLOCK FALSE
