SPECIFICATION PSpec
CONSTANTS
  Procs = {p}
  p = p
  User = p
  FD_N = 4
  FILENAME_LEN = 2
  BLOCK = 2
  Dentries <- MCDentries
  Inodes <- MCInodes
  Data <- MCData
  Names <- AllNames
  Sizes <- AnySizes
  GotMax = 5
  DirName <- MCDirName
  BadNames <- MCBadNames
  CatNames <- CatArguments
  BUFLEN = 2
CONSTRAINT ShortListings
INVARIANT UnopenedPasses
CHECK_DEADLOCK FALSE
