SPECIFICATION Spec
SYMMETRY Addresses
CONSTANTS
  p1 = p1
  p2 = p2
  t1 = t1
  t2 = t2
  b1 = b1
  b2 = b2
  b3 = b3
  None = None
  Shm = Shm
  Publisher = {p1, p2}
  Thread = {t1, t2}
  PublisherOf <- TwoPublisherOf
  Buffer = {b1, b2, b3}
  Size = {1, 2, 3}
  MaxSize = 4
  Threshold = 3
  MaxSeq = 2
  MemoryShort = TRUE
INVARIANTS
  TypeOK
  PayloadIntact
  PoolWithinLimit
  NoMemoryLost
  PublishHoldsSession
CHECK_DEADLOCK FALSE
