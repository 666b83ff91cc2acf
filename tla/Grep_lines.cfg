SPECIFICATION GSpec
CONSTANTS
  BUFSIZE = 3
  Directories <- SomeDirectories
  Patterns <- SomePatterns
  Garbage <- SomeGarbage
CHECK_DEADLOCK FALSE
INVARIANTS GTypeOK PrintsMatchesUnlessDirty
PROPERTY Finishes
