CONSTANTS
  None = None
  SkipsUnmarked = TRUE
  ArmDelay = 2
SPECIFICATION FairSpec
INVARIANTS ResultMatchesBoard  GoAfterDelay GoIsFair
PROPERTIES KeepsContract GoFires
CHECK_DEADLOCK FALSE
