SPECIFICATION Spec
CONSTANTS
  talker = talker
  other = other
  t1 = t1
  t2 = t2
  t3 = t3
  None = None
  Publisher = {talker, other}
  Thread = {t1, t2, t3}
  PublisherOf <- MCPublisherOf
  MaxSeq <- MCMaxSeq
  Depth = 2
  KeepAll = FALSE
INVARIANTS
  TypeOK
  InSequence
  LossExact
  EveryMessageTold
  QueueIsNewest
PROPERTY
  KeepsLast
