CONSTANTS
  PingInterval = 3
  PongTimeout = 2
  WriteWait = 2
  MaxWrite = 1
  MaxLag = 1
  RTT = 1
  MaxHandle = 1
SPECIFICATION Spec
INVARIANTS ResponsiveStaysOpen
CHECK_DEADLOCK FALSE
