\* Two files of at most two cells and two handles.  The directory is full with
\* two of the three names, and the only data block besides the directory's is
\* missed by the second file that wants one.
CONSTANTS
  x = x
  y = y
  INODE_TABLE_SIZE = 4
  DATA_BLOCKS = 2
  BLOCK_SIZE = 2
  MAX_OPEN_FILES = 2
  MAX_DIR_ENTRIES = 2
  Paths = {"/a", "/b", "/c", "/too long"}
  LongPaths = {"/too long"}
  NoName = NoName
  Unwritten = Unwritten
  Buffers <- MCBuffers
  Lengths <- MCLengths
SPECIFICATION Disciplined
INVARIANTS
  TypeOK
  NoBlockLeaks
PROPERTIES
  StoreSpec
