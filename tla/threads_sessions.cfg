\* Three session threads of mbroker_thread.c with three managers, two publishers and a
\* subscriber over two boxes; two data blocks make the second creation fail.
CONSTANTS
  x = x
  Managers = {m1, m2, m3}
  Publishers = {p1, p2}
  Subscribers = {"s1"}
  Boxes = {"/a", "/b"}
  Commands = {"create", "remove", "list"}
  Messages <- MCMessages
  MaxMessages = 1
  MaxLives = 1
  Killable = {}
  NoClient = NoClient
  MainThread = main
  SessionThreads = {t1, t2, t3}
  NameOrder <- MCNameOrder
  MaxDescriptors = 4
  MaxClients = 4
  Nobody = Nobody
  INODE_TABLE_SIZE = 3
  DATA_BLOCKS = 2
  BLOCK_SIZE = 4
  MAX_OPEN_FILES = 3
  MAX_DIR_ENTRIES = 2
  Paths = {"/a", "/b", "/c"}
  LongPaths = {}
  NoName = NoName
  Unwritten = Unwritten
SPECIFICATION Spec
INVARIANTS
  TypeOK
  ListingAgrees
  MutexAccounted
  SizesAgree
  PublishersAccounted
  RequestsAccounted
SYMMETRY ClientSymmetry
CHECK_DEADLOCK FALSE
