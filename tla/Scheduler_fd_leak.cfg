SPECIFICATION Spec
CONSTANTS
  N = 2
  T = 1
  FD = {2}
  BaseOpens = TRUE

CHECK_DEADLOCK FALSE
INVARIANT CleanStartAlways
