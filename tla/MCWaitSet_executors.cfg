SPECIFICATION Spec
SYMMETRY Threads
CONSTANTS
  None = None
  w1 = w1
  w2 = w2
  g1 = g1
  e1 = e1
  e2 = e2
  q1 = q1
  n1 = n1
  n2 = n2
  Waiter = {w1, w2}
  Notifier = {n1, n2}
  Guard = {g1}
  Event = {e1, e2}
  Queue = {q1}
  Mutex = {"gc", "sub", "sub events"}
  Shared = {e1}
  MutexOf <- MutexTwo
  LostEvent <- LostTwo
  Slots <- SlotsTwo
INVARIANTS
  TypeOK
  NoLostWakeup
  NothingLeftAttached
  NoLockCycle
  NoEmptyReturn
