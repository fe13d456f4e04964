SPECIFICATION Spec
CONSTANTS
  FirstLayers = {0, 1, 2}
  MaxRounds = 10
  Intervals = {4, 6}
  Normal = 4
INVARIANTS TypeOK PlanReplaysTable CountIsWipes
PROPERTY AnnouncedAhead
CHECK_DEADLOCK FALSE
