SPECIFICATION FairSpec
CONSTANTS
  Conns = {k1, k2}
  Playing = TRUE
  MaxIce = 1
  MaxPages = 3
  None = None
INVARIANTS TypeOK EntryAlive ConnectionAlive CleanExit
PROPERTIES EntryFreed Offered LeaseSpec
CHECK_DEADLOCK FALSE
