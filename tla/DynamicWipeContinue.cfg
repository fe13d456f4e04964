SPECIFICATION Spec
CONSTANTS
  FirstLayers = {3}
  MaxRounds = 10
  Intervals = {4, 6}
  Normal = 4
INVARIANT PlanReplaysTable
CHECK_DEADLOCK FALSE
