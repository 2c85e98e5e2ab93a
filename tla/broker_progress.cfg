\* Two managers and one session of each kind; sessions have an end
\* and nobody has to begin one.
CONSTANTS
  x = x
  y = y
  Managers = {"m1", "m2"}
  Publishers = {"p1"}
  Subscribers = {"s1"}
  Boxes = {"/a"}
  Commands = {"create", "remove", "list"}
  Messages <- MCOneMessage
  MaxMessages = 1
  MaxLives = 1
  Killable = {"s1"}
  LongPathed = {}
  NoClient = "NULL"
  INODE_TABLE_SIZE = 3
  DATA_BLOCKS = 2
  BLOCK_SIZE = 2
  MAX_OPEN_FILES = 2
  MAX_DIR_ENTRIES = 2
  Paths = {"/a", "/b"}
  LongPaths = {}
  NoName = NoName
  Unwritten = Unwritten
SPECIFICATION SpecSessionsEnd
PROPERTIES
  ManagersAnswered
  WatchEnds
CHECK_DEADLOCK FALSE
