SPECIFICATION Spec
CONSTANTS
  POOL = 3
  LIMIT = 4
  HALF = 3
  Glyphs = {"nul", "a", "b", "sp", "I", "M"}
  COLS = 2
  OFFSET = 1
  FRAME_LENGTH = 2
  LONE <- LoneBlock
  WAIT = 3
  Contents <- SomeContents
  ClientBlocks <- SomeBlocks
CONSTRAINT NotZeroed
CHECK_DEADLOCK FALSE
INVARIANTS ListIsUsed ScreenShowsState StayInStep FramesShown
\* Fails: a text far below the screen is added on it.
\* INVARIANT CellsShown
