\* Managers that create, list and remove two boxes in any order, with a publisher
\* and a subscriber in between.  Two handles are few: one creation fails half-way.
CONSTANTS
  x = x
  y = y
  Managers = {"m1", "m2", "m3"}
  Publishers = {"p1"}
  Subscribers = {"s1"}
  Boxes = {"/a", "/b"}
  Commands = {"create", "remove", "list"}
  Messages <- MCOneMessage
  MaxMessages = 1
  MaxLives = 1
  Killable = {"m1", "p1"}
  LongPathed = {"m3"}
  NoClient = "NULL"
  INODE_TABLE_SIZE = 3
  DATA_BLOCKS = 2
  BLOCK_SIZE = 2
  MAX_OPEN_FILES = 2
  MAX_DIR_ENTRIES = 2
  Paths = {"/a", "/b"}
  LongPaths = {}
  NoName = NoName
  Unwritten = Unwritten
SPECIFICATION Behaviour
INVARIANTS
  BoxesHaveFiles
  AnswersAgree
CHECK_DEADLOCK FALSE
