CONSTANTS
  None = None
  a = a
  b = b
  c1 = c1
  c2 = c2
  c3 = c3
  c4 = c4
  n1 = n1
  n2 = n2
  Player = {a, b}
  Conn = {c1, c2, c3, c4}
  Owner <- OwnerOfPair
  Node = {n1, n2}
  At <- AtTwo
  MaxRooms = 2
  Overlap = {}
  CloseMidway = {}
  Repeat = {}
  CreateFails = {}
  StoreFails = {a, b}
  Expires = TRUE
  Crashes = {n1}
  Checked = {a, b}
SPECIFICATION FairSpec
 
PROPERTIES WaitingPairIsSeated
CHECK_DEADLOCK FALSE
