\* A publisher of the second of two boxes.
CONSTANTS
  x = x
  y = y
  Managers = {"m1", "m2"}
  Publishers = {"p1"}
  Subscribers = {"s1"}
  Boxes = {"/a", "/b"}
  Commands = {"create"}
  Messages <- MCOneMessage
  MaxMessages = 1
  MaxLives = 1
  Killable = {"s1"}
  LongPathed = {}
  NoClient = "NULL"
  INODE_TABLE_SIZE = 3
  DATA_BLOCKS = 2
  BLOCK_SIZE = 2
  MAX_OPEN_FILES = 4
  MAX_DIR_ENTRIES = 2
  Paths = {"/a", "/b"}
  LongPaths = {}
  NoName = NoName
  Unwritten = Unwritten
SPECIFICATION Behaviour
INVARIANTS
  PublisherBoxIsFound
CHECK_DEADLOCK FALSE
