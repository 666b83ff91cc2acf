SPECIFICATION Spec
CONSTANTS
  N = 3
  T = 1
  Lines <- SomeLines
  Statuses <- SomeStatuses
  ArgSizes = {8}
\* One property at a time.
INVARIANT StatusLowByte
\* INVARIANT ZeroIsSuccess
