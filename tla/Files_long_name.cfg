SPECIFICATION Spec
CONSTANTS
  Procs = {p}
  p = p
  FD_N = 4
  FILENAME_LEN = 2
  BLOCK = 2
  Dentries <- MCDentries
  Inodes <- MCInodes
  Data <- MCData
  Names <- FileNames
  Sizes <- AnySizes
  GotMax = 4
INVARIANT LongNameFound
CHECK_DEADLOCK FALSE
