SPECIFICATION FairSpec
CONSTANTS
  Clients = {c1, c2, c3}
  None = None
  Gatherers = {c1}
  MaxIce = 1
  Unstable = {c1}
  MaxDrops = 1
INVARIANTS TypeOK SenderListed OneCaller CandidateFindsBin NobodyWaits
PROPERTIES MembersConnect HandshakeSpec
CHECK_DEADLOCK FALSE
