CONSTANTS
  None = None
  Player = {p1, p2}
  Caller = {c1, c2}
  MinPlayers = 2
  MaxPlayers = 2
  CmdCap = 2
  Grace = 1
  ClientSeqs = {1, 2}
  InitMayFail = TRUE
  AbandonResults = {"over", "error"}
  EarlyDisconnect = TRUE
  MaxCalls = 6
  MaxServerSeq = 1
SPECIFICATION Spec
SYMMETRY Symmetry
INVARIANTS SeatsConsistent AnsweredOnce StreamDescribesRoom FinishedMeansGameOver
PROPERTIES ForfeitOnlyAfterGrace NoActionAppliedTwice KeepsPromise
