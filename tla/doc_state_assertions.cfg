SPECIFICATION Spec
CONSTANTS
  Clients = {c1, c2, c3}
  None = None
  Gatherers = {}
  MaxIce = 0
  Unstable = {}
  MaxDrops = 0
INVARIANT AssertionsHold
CHECK_DEADLOCK FALSE
