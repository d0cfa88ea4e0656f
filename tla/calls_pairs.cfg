SPECIFICATION Spec
CONSTANTS
  A = A  B = B  C = C  D = D
  a1 = a1  a2 = a2  b1 = b1  c1 = c1  d1 = d1
  None = None
  Conns = {a1, b1, c1, d1}
  Uids = {A, B, C, D}
  RoomIds = {}
  UidOf <- OneEach
  Callees <- Buddy
  Joins <- NoRooms
  GreetSuspends = TRUE
  MaxMsgs = 1
  MaxRestarts = 1
INVARIANTS Bidirectional LivePartner
PROPERTIES CleanRestart CallEndsForBoth
CHECK_DEADLOCK FALSE
