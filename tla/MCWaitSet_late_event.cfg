SPECIFICATION Spec
CONSTANTS
  None = None
  w1 = w1
  w2 = w2
  g1 = g1
  e1 = e1
  e2 = e2
  q1 = q1
  n1 = n1
  n2 = n2
  Waiter = {w1}
  Notifier = {n1}
  Guard = {g1}
  Event = {e1}
  Queue = {q1}
  Mutex = {"gc", "service", "pub events"}
  Shared = {}
  MutexOf <- MutexOne
  LostEvent <- LostOne
  Slots <- SlotsOne
INVARIANTS
  NoSpuriousReturn
