SPECIFICATION FairSpec
CONSTANTS
  N = 3
  T = 2
  FD = {2}
  BaseOpens = FALSE
CONSTRAINT NotYetCorrupt

CHECK_DEADLOCK FALSE
PROPERTY HaltJumps
