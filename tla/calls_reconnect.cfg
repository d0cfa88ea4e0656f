SPECIFICATION Spec
CONSTANTS
  A = A  B = B  C = C  D = D
  a1 = a1  a2 = a2  b1 = b1  c1 = c1  d1 = d1
  None = None
  Conns = {a1, a2, b1}
  Uids = {A, B}
  RoomIds = {}
  UidOf <- TwiceA
  Callees <- AllCalls
  Joins <- NoRooms
  GreetSuspends = FALSE
  MaxMsgs = 2
  MaxRestarts = 1
INVARIANTS NoGhost
PROPERTIES RegistrySpec
CHECK_DEADLOCK FALSE
