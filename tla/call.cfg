SPECIFICATION FairSpec
CONSTANTS
  MaxIce = 2
  MaxDrops = 1
INVARIANTS TypeOK StateExpected IceAfterSdp NobodyWaits
PROPERTIES SessionConnects NoHalfCall HandshakeSpec
CHECK_DEADLOCK FALSE
