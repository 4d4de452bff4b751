SPECIFICATION Spec
CONSTANTS
  t1 = t1
  t2 = t2
  t3 = t3
  n1 = n1
  h1 = h1
  h2 = h2
  None = None
  Thread = {t1, t2, t3}
  Node = {n1}
  Handle = {h1, h2}
  Kinds = {"pub", "sub", "srv", "cli"}
  MaxId = 2
  Failures = TRUE
INVARIANTS
  TypeOK
  IdsUnique
  GraphShowsWhatIsThere
  SessionOutlivesEntities
  CloseWithoutMutex
  NoSessionOnlyInRace
PROPERTY
  CallsReturn
CHECK_DEADLOCK FALSE
