SPECIFICATION Spec
CONSTANTS
  Known <- MCKnown
  Unknown <- MCUnknown
  Numbers = {0, 7}
INVARIANTS FailsOnUnreadable OwnValue
CHECK_DEADLOCK FALSE
