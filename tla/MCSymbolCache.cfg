CONSTANTS
  Struct = struct
  Leaves = {a}
  Subscribed = {struct}
  Values = {1, 2}
  NoValue = NoValue
  Idle = Idle
  Interval = 2
  Timeout = 1
  MaxTime = 6
  MaxNotes = 2
SPECIFICATION Spec
INVARIANTS
  Inv
  ReadsAreFresh
  UpdatesArrive
CHECK_DEADLOCK FALSE
