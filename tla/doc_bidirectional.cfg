SPECIFICATION Spec
CONSTANTS
  A = A  B = B  C = C  D = D
  a1 = a1  a2 = a2  b1 = b1  c1 = c1  d1 = d1
  None = None
  Conns = {a1, b1, c1}
  Uids = {A, B, C}
  RoomIds = {}
  UidOf <- OneEach
  Callees <- OtherUid
  Joins <- NoRooms
  GreetSuspends = FALSE
  MaxMsgs = 1
  MaxRestarts = 0
INVARIANTS Bidirectional
CHECK_DEADLOCK FALSE
