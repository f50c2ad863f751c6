CONSTANTS
  None = None
  Player = {p1, p2}
  Caller = {c1, c2}
  MinPlayers = 2
  MaxPlayers = 2
  CmdCap = 1
  Grace = 1
  ClientSeqs = {1}
  InitMayFail = FALSE
  AbandonResults = {"over"}
  EarlyDisconnect = FALSE
  MaxCalls = 5
  MaxServerSeq = 1
SPECIFICATION FairSpec
PROPERTIES CallsReturn AbsenceResolved
