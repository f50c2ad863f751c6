CONSTANTS
  None = None
  Conn = {a, b}
  Resuming = {b}
  CmdCap = 6
  SendCap = 1
  MaxSeq = 1
  MaxCalls = 1
  Concurrent = FALSE
  TimesOut = {"action", "snapshot", "disconnect"}
SPECIFICATION FairSpec
INVARIANTS CaughtUp PresentIsReachable
PROPERTIES RoomGoesOn ClosedIsDisconnected
CHECK_DEADLOCK FALSE
