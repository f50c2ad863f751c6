CONSTANTS
  LeaseTTL = 15
  Interval = 5
  OpTimeout = 2
  Answer = 0
  MaxLag = 0
  MaxFaults = 4
SPECIFICATION FairSpec
INVARIANTS SurvivesOneMiss
PROPERTIES RivalLeaseKept LeaseHeals LeaseEnds
CHECK_DEADLOCK FALSE
