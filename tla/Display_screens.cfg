SPECIFICATION Spec
CONSTANTS
  T = 2
  NUM_COLS = 1
  NUM_ROWS = 3
  Byte = 2
  BUF_SIZE = 1
  TabSize = 1
  Keys = {"clear"}
  Outputs <- Letters
  Messages = {"exception"}
  Vidmaps = TRUE
  Skew = 1
  StartMax = 0
INVARIANT CursorShownUnlessLost
PROPERTY OutputStaysHomeUnlessLost
CONSTRAINT NotLost
CHECK_DEADLOCK FALSE
