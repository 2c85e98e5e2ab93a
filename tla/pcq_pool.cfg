\* One dispatcher and a pool of two session threads, as the broker sets up.
CONSTANTS
  p1 = p1
  c1 = c1
  c2 = c2
  e1 = e1
  e2 = e2
  Producers <- MCOneProducer
  Consumers <- MCTwoConsumers
  Elems <- MCElems
  Garbage = Garbage
  NoThread = NoThread
  Capacity = 3
  SizeModulus = 8
SPECIFICATION Spec
INVARIANT
  LoadFindsElement
