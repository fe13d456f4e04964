SPECIFICATION Spec
CONSTANTS
  Files = {a, b}
  Object = obj
  MaxIds = 4
  MaxCommands = 3
SYMMETRY FileSymmetry
CONSTRAINT NoFault
INVARIANTS TypeOK SelectionLive CurrentListed HistoryMatches OneMeshPerId MovedMeshesLive EntriesKept
CHECK_DEADLOCK FALSE
