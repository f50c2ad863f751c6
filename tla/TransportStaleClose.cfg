CONSTANTS
  None = None
  a = a
  b = b
  c1 = c1
  c2 = c2
  c3 = c3
  c4 = c4
  n1 = n1
  n2 = n2
  Player = {a, b}
  Conn = {c1, c2, c3}
  Owner <- OwnerOfTwo
  Node = {n1}
  At <- AtHome
  MaxRooms = 2
  Overlap = {a}
  CloseMidway = {}
  Repeat = {}
  CreateFails = {}
  StoreFails = {}
  Expires = FALSE
  Crashes = {}
  Checked = {a}
SPECIFICATION Spec
INVARIANTS LivePlayerIsConnected
CHECK_DEADLOCK FALSE
