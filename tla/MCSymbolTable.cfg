CONSTANTS
  Names <- MCNames
  DataTypes <- MCDataTypes
  Uploads <- MCUploads
  Word = 16
SPECIFICATION Spec
INVARIANTS
  NamesResolve
  ChildrenShareOut
  MissingOnlyIfTaken
CHECK_DEADLOCK FALSE
