CONSTANTS
  Users = {u1, u2}
  Names = {MAIN_I, nothing}
  Uploaded = {MAIN_I}
  Dedicated = {}
  MaxHandles = 2
  MaxSubs = 2
  MaxFrames = 1
SYMMETRY UserSymmetry
SPECIFICATION Spec
INVARIANTS
  Inv
  SymbolLockExclusive
  OneHandlePerSymbol
  SubscriptionsAccountedFor
  OffersHaveSubscriber
CHECK_DEADLOCK FALSE
