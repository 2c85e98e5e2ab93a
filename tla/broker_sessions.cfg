\* One box, two publishers of a message each, and two subscribers that may be
\* interrupted anywhere and started again.  A block holds all that is published;
\* the handles run out with the third replay.
CONSTANTS
  x = x
  y = y
  Managers = {"m1"}
  Publishers = {"p1", "p2"}
  Subscribers = {"s1", "s2"}
  Boxes = {"/a"}
  Commands = {"create"}
  Messages <- MCMessages
  MaxMessages = 1
  MaxLives = 2
  Killable = {"p1", "s1", "s2"}
  LongPathed = {}
  NoClient = "NULL"
  INODE_TABLE_SIZE = 3
  DATA_BLOCKS = 2
  BLOCK_SIZE = 4
  MAX_OPEN_FILES = 3
  MAX_DIR_ENTRIES = 2
  Paths = {"/a"}
  LongPaths = {}
  NoName = NoName
  Unwritten = Unwritten
SPECIFICATION Behaviour
INVARIANTS
  TypeOK
  ReplayFaithful
  BoxFileAgree
  MutexesFree
  PublisherInSession
  HandlesKept
CHECK_DEADLOCK FALSE
