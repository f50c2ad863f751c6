CONSTANTS
  PingInterval = 3
  PongTimeout = 9
  WriteWait = 2
  MaxWrite = 1
  MaxLag = 1
  RTT = 1
  MaxHandle = 2
SPECIFICATION FairSpec
INVARIANTS ResponsiveStaysOpen DeadIsNoticed
PROPERTIES PumpsEnd
CHECK_DEADLOCK FALSE
