SPECIFICATION Spec
CONSTANTS
  MaxLayers = 3
  BatchSize = 1
  DoorPolls = 2
INVARIANT CancelIsTheUsers
CHECK_DEADLOCK FALSE
