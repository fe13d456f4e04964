SPECIFICATION FairSpec
CONSTANTS
  MaxPrints = 2
  MaxPolls = 2
  Late <- MCLate
INVARIANTS TypeOK OwnSettings OneAtATime OwnJob JobIsFollowed
PROPERTIES WaitAdvances WaitEnds
CHECK_DEADLOCK FALSE
