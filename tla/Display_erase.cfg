SPECIFICATION Spec
CONSTANTS
  T = 1
  NUM_COLS = 2
  NUM_ROWS = 3
  Byte = 2
  BUF_SIZE = 4
  TabSize = 2
  Keys = {}
  Outputs <- Erasers
  Messages = {}
  Vidmaps = FALSE
  Skew = 0
  StartMax = 2
CHECK_DEADLOCK FALSE
INVARIANT CursorOnScreen
