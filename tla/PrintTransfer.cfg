SPECIFICATION FairSpec
CONSTANTS
  MaxLayers = 5
  BatchSize = 2
  DoorPolls = 2
INVARIANTS TypeOK InOrder CompleteIsAll ClosedAtEnd
PROPERTIES NeverPastStop LoopAdvances ImplementsTransfer AlwaysReturns
CHECK_DEADLOCK FALSE
