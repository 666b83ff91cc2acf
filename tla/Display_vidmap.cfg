SPECIFICATION Spec
CONSTANTS
  T = 2
  NUM_COLS = 1
  NUM_ROWS = 2
  Byte = 2
  BUF_SIZE = 1
  TabSize = 1
  Keys = {}
  Outputs <- Letters
  Messages = {}
  Vidmaps = TRUE
  Skew = 0
\* Skew = 1
  StartMax = 0
CHECK_DEADLOCK FALSE
\* One property at a time.
PROPERTY OutputStaysHome
\* PROPERTY PageIsOwn (with Skew = 1)
