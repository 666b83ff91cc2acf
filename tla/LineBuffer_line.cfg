SPECIFICATION Spec
CONSTANTS
  N = 4
  TabSize = 2
  Chars = {"a", "b"}
  Keys = {"char", "backspace", "enter"}
\* Keys = {"char", "enter", "clear"}
  ReadSizes = {8}
  SpillMax = 6
INVARIANT ReadHasLine
