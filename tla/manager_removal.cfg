\* Two boxes, and a removal of one of them.
CONSTANTS
  x = x
  y = y
  Managers = {"m1","m2","m3"}
  Publishers = {}
  Subscribers = {}
  Boxes = {"/a","/b"}
  Commands = {"create","remove"}
  Messages <- MCOneMessage
  MaxMessages = 1
  MaxLives = 1
  Killable = {}
  LongPathed = {}
  NoClient = "NULL"
  INODE_TABLE_SIZE = 3
  DATA_BLOCKS = 2
  BLOCK_SIZE = 2
  MAX_OPEN_FILES = 4
  MAX_DIR_ENTRIES = 2
  Paths = {"/a", "/b"}
  LongPaths = {}
  NoName = NoName
  Unwritten = Unwritten
SPECIFICATION Behaviour
INVARIANTS
  RemovalNamesItsBox
CHECK_DEADLOCK FALSE
