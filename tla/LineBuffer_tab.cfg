SPECIFICATION Spec
CONSTANTS
  N = 4
  TabSize = 2
  Chars = {"a", "b"}
  Keys = {"char", "tab", "enter"}
  ReadSizes = {8}
  SpillMax = 6
INVARIANT InBuffer
