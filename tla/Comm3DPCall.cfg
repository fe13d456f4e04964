SPECIFICATION FairSpec
CONSTANTS
  Commands <- MCCommands
  MaxCalls = 3
  AnswerLen = 2
  RecvLen = 4
INVARIANTS TypeOK OwnAnswer PrintersVerdict NothingInFlight NeverBothWait
PROPERTIES ImplementsService CallAdvances EveryCallReturns
CHECK_DEADLOCK FALSE
