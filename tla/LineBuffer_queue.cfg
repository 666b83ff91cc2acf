SPECIFICATION FairSpec
CONSTANTS
  N = 4
  TabSize = 2
  Chars = {"a", "b"}
  Keys = {"char", "tab", "backspace", "enter", "clear"}
  ReadSizes = {0, 2, 8}
  SpillMax = 6
CONSTRAINT NotLost
INVARIANTS TypeOK LinesCounted
PROPERTIES ImplementsQueue LineDelivered
