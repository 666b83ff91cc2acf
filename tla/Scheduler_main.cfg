SPECIFICATION FairSpec
CONSTANTS
  N = 3
  T = 3
  FD = {2}
  BaseOpens = FALSE
CONSTRAINT Unraced
CHECK_DEADLOCK FALSE
INVARIANTS TypeOK ExclusiveSlots Chains TotalCounts OwnContext NoWildJump CleanStart
PROPERTIES FreesOnlyItself KeepsStacks RoundRobin HaltReturns
