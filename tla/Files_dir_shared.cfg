SPECIFICATION Spec
CONSTANTS
  Procs = {p, q}
  p = p
  q = q
  FD_N = 3
  FILENAME_LEN = 2
  BLOCK = 2
  Dentries <- MCDirectory
  Inodes <- MCInodes
  Data <- MCData
  Names <- DirNames
  Sizes = {2}
  GotMax = 4
INVARIANT DirListsAll
CHECK_DEADLOCK FALSE
