CONSTANTS
  Numbers = {0, 9, 10, 1000, 99999}
  Adders = {160, 1114111}
  Environments <- MCEnvironments
SPECIFICATION Spec
INVARIANTS
  ReadsAsMeant
  StaysInside
  FlagsAsStarted
CHECK_DEADLOCK FALSE
