SPECIFICATION FairSpec
CONSTANTS
  MaxCalls = 2
  Java = Java
  None = None
INVARIANTS TypeOK LoopReachable EndedIsEnded JoinEnds WakeUpComes
PROPERTIES EndReturns CallReturns
CHECK_DEADLOCK FALSE
