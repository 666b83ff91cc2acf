SPECIFICATION Spec
CONSTANTS
  N = 3
  T = 2
  FD = {2}
  BaseOpens = FALSE

CHECK_DEADLOCK FALSE
INVARIANT SlotStillFree
