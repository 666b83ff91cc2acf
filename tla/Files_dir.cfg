SPECIFICATION Spec
CONSTANTS
  Procs = {p, q}
  p = p
  q = q
  FD_N = 3
  FILENAME_LEN = 2
  BLOCK = 2
  Dentries <- MCDirectory
  Inodes <- MCInodes
  Data <- MCData
  Names <- DirAndFile
  Sizes = {2}
  GotMax = 4
CONSTRAINT FilesFirst
INVARIANT DirInStepUnlessMixed
SYMMETRY Symmetry
CHECK_DEADLOCK FALSE
