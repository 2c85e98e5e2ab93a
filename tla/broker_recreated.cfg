\* A box that is removed and created again with other contents.
CONSTANTS
  x = x
  y = y
  Managers = {"m1", "m2", "m3"}
  Publishers = {"p1", "p2"}
  Subscribers = {"s1"}
  Boxes = {"/a"}
  Commands = {"create", "remove"}
  Messages <- MCTwoMessages
  MaxMessages = 1
  MaxLives = 1
  Killable = {"s1"}
  LongPathed = {}
  NoClient = "NULL"
  INODE_TABLE_SIZE = 3
  DATA_BLOCKS = 2
  BLOCK_SIZE = 2
  MAX_OPEN_FILES = 4
  MAX_DIR_ENTRIES = 2
  Paths = {"/a", "/b"}
  LongPaths = {}
  NoName = NoName
  Unwritten = Unwritten
SPECIFICATION Behaviour
INVARIANTS
  ReplayFaithful
CHECK_DEADLOCK FALSE
