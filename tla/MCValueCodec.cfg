CONSTANTS
  Base = 4
  MaxLength = 3
SPECIFICATION Spec
INVARIANTS
  Inv
  NumbersReadBack
  StringsReadBack
  OnlyValuesOfTheType
