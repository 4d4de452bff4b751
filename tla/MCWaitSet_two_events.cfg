SPECIFICATION FairSpec
CHECK_DEADLOCK FALSE
CONSTANTS
  None = None
  w1 = w1
  w2 = w2
  g1 = g1
  e1 = e1
  e2 = e2
  q1 = q1
  n1 = n1
  n2 = n2
  Waiter = {w1}
  Notifier = {n1}
  Guard = {}
  Event = {e1, e2}
  Queue = {q1}
  Mutex = {"sub", "sub events"}
  Shared = {}
  MutexOf <- MutexOwn
  LostEvent <- LostOwn
  Slots <- SlotsOwn
PROPERTIES
  ReadyAfterCheckIsNoticed
