SPECIFICATION FairSpec
CONSTANTS
  talker = talker
  other = other
  t1 = t1
  t2 = t2
  t3 = t3
  Client = {talker, other}
  Thread = {t1, t2, t3}
  Service = {s1}
  ClientOf <- MCClientOf
  MaxSeq <- MCMaxSeq
  RequestDepth = 2
  ReplyDepth = 1
  KeepAll = FALSE
  Faults = {"loss", "error", "unreadable", "timeout", "shutdown"}
INVARIANTS
  TypeOK
  OnePlace
  OwnResponse
PROPERTIES
  AtMostOnce
  NoCallHangs
CHECK_DEADLOCK FALSE
