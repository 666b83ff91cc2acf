SPECIFICATION Spec
CONSTANTS
  N = 3
  T = 2
  Lines <- SomeLines
  Statuses <- SomeStatuses
  ArgSizes <- SomeSizes
INVARIANTS CommandObeyed ArgumentIsOwn ReportsTruly
PROPERTY ShellStays
