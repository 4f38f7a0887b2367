SPECIFICATION Spec
CONSTANTS
  Tasks = {t1, t2}
  NULL = NULL
  Idle = Idle
  EIO = EIO
  EISDIR = EISDIR
  Loading = Loading
  Garbage = Garbage
  Hole = Hole
  Disks <- MCDisks
  Ranges <- MCRanges
  LBA_SIZE = 4
  GD_BYTES = 2
  INODE_BYTES = 2
  PTR_BYTES = 2
  NDIR_BLOCKS = 1
  SIZE_LIMIT = 1024
  LBA_LIMIT = 128
INVARIANTS FetchedRight NoHalfFile IoErrorReported OverrunOnlyBehind
PROPERTY ImplementsFile
