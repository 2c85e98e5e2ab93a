\* Any calls: the inode table is full before the directory, a handle outlives
\* its file, and the two data blocks change hands.  A library that panicked or
\* whose mutex a rewind kept has no next call.
CONSTANTS
  x = x
  y = y
  INODE_TABLE_SIZE = 3
  DATA_BLOCKS = 3
  BLOCK_SIZE = 1
  MAX_OPEN_FILES = 2
  MAX_DIR_ENTRIES = 3
  Paths = {a, b, c, too_long}
  LongPaths = {too_long}
  NoName = NoName
  Unwritten = Unwritten
  Buffers <- MCOneOrTwo
  Lengths <- MCLengths
SPECIFICATION AnyCalls
SYMMETRY PathSymmetry
INVARIANTS
  DirectoryIsInjective
  InodesAccounted
  BlocksAreOwned
  OnlyReadPanics
PROPERTIES
  OnlyOverrunsCorrupt
CHECK_DEADLOCK FALSE
