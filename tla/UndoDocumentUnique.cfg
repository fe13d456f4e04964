SPECIFICATION Spec
CONSTANTS
  Files = {a, b}
  Object = obj
  MaxIds = 3
  MaxCommands = 3
SYMMETRY FileSymmetry
INVARIANT UniqueIds
CHECK_DEADLOCK FALSE
