\* One dispatcher and one session thread: a queue of three slots.
CONSTANTS
  p1 = p1
  c1 = c1
  c2 = c2
  e1 = e1
  e2 = e2
  Producers <- MCOneProducer
  Consumers <- MCOneConsumer
  Elems <- MCElems
  Garbage = Garbage
  NoThread = NoThread
  Capacity = 3
  SizeModulus = 8
SPECIFICATION Spec
INVARIANTS
  TypeOK
  LockOwnership
  NoLostUpdate
  SizeWithinCapacity
  SlotRaceFree
  LoadFindsElement
  NoLostWakeup
PROPERTIES
  EnqueueReturns
  FifoSpec
