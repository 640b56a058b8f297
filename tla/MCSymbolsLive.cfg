CONSTANTS
  Users = {u1, u2}
  Names = {MAIN_I}
  Uploaded = {MAIN_I}
  Dedicated = {u1}
  MaxHandles = 1
  MaxSubs = 1
  MaxFrames = 1
SPECIFICATION FairSpec
PROPERTIES
  CallsReturn
  FramesAreHandled
  ShutdownFreesCalls
CHECK_DEADLOCK FALSE
