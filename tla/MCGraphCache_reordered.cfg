SPECIFICATION Spec
CONSTANTS
  here = here
  there = there
  n0 = n0
  n1 = n1
  pub0 = pub0
  sub0 = sub0
  sub1 = sub1
  srv1 = srv1
  chatter = chatter
  add = add
  any = any
  best = best
  reliable = reliable
  int = int
  str = str
  Session <- MCSession
  Here = here
  Node <- MCNode
  SessionOf <- MCSessionOf
  Endpoint <- MixedEndpoint
  NodeOf <- MCNodeOf
  RoleOf <- MCRoleOf
  TopicOf <- MCTopicOf
  KeyexprOf <- MCKeyexprOf
  QosOf <- OneQosOf
  Qos = {best}
  Ordered = FALSE
  CalmStart = TRUE
INVARIANTS
  Converges
CHECK_DEADLOCK FALSE
