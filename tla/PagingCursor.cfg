SPECIFICATION Spec
CONSTANTS
  None = None
  Ids = {1, 2}
  Times = {1}
  Limits = {1}
  Backend = "sqlite"
INVARIANTS
  NoneTwice
CHECK_DEADLOCK FALSE
