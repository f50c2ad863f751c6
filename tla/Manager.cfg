CONSTANTS
  Room = {r1}
  None = None
  Seats = 2
  InitMayFail = TRUE
  WaitingTTL = 1
  FinishedLinger = 1
  MaxSweep = 2
  MaxCmds = 2
  MaxServerSeq = 1
SPECIFICATION FairSpec
PROPERTIES SweepIsDue KeepsPromise RoomsCollected CallersGoOn
CHECK_DEADLOCK FALSE
