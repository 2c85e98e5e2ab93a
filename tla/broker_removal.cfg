\* A request to remove the box of a session that nobody ends.
CONSTANTS
  x = x
  y = y
  Managers = {"m1", "m2"}
  Publishers = {"p1"}
  Subscribers = {"s1"}
  Boxes = {"/a"}
  Commands = {"create", "remove"}
  Messages <- MCOneMessage
  MaxMessages = 1
  MaxLives = 1
  Killable = {"s1"}
  LongPathed = {}
  NoClient = "NULL"
  INODE_TABLE_SIZE = 3
  DATA_BLOCKS = 2
  BLOCK_SIZE = 2
  MAX_OPEN_FILES = 2
  MAX_DIR_ENTRIES = 2
  Paths = {"/a", "/b"}
  LongPaths = {}
  NoName = NoName
  Unwritten = Unwritten
SPECIFICATION Spec
PROPERTIES
  RemovalEndsSession
CHECK_DEADLOCK FALSE
