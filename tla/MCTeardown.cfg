CONSTANTS
  Users = {u1}
  Handles = {h1, h2}
  NoHandle = NoHandle
SPECIFICATION FairSpec
INVARIANTS
  Inv
  RecordsAgree
  NothingForgotten
PROPERTIES
  CloseEnds
CHECK_DEADLOCK FALSE
