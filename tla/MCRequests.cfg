CONSTANTS
  Callers = {c1, c2}
  MaxCalls = 3
  Refusable = {1, 2, 3}
  StrayIds = {7}
SYMMETRY CallerSymmetry
SPECIFICATION Spec
INVARIANTS
  LockExclusive
  DistinctIds
  OrphansAreAbandoned
  Inv
PROPERTIES
  KeepsPromises
  OrphanBlocksNewCalls
CHECK_DEADLOCK FALSE
