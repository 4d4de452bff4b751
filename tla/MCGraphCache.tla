---------------------------- MODULE MCGraphCache ----------------------------
(* Instances of GraphCache: one context, here, and one remote session. *)
EXTENDS GraphCache, TLC

CONSTANTS here, there, n0, n1, pub0, sub0, sub1, srv1, chatter, add, any, best, reliable,
  int, str

MCSession == {here, there}
MCNode == {n0, n1}
MCSessionOf == (n0 :> here) @@ (n1 :> there)
\* Both nodes are of the context, so that nothing comes with the history.
AloneSessionOf == [n \in Node |-> here]

\* A publisher of the context, and a remote subscription and service.
MixedEndpoint == {pub0, sub1, srv1}
\* A publisher and two subscriptions, one of them of the other node.
LoopEndpoint == {pub0, sub0, sub1}

RoleByName(e) == CASE e = pub0 -> "pub"
                   [] e \in {sub0, sub1} -> "sub"
                   [] OTHER -> "service"
MCRoleOf == [e \in Endpoint |-> RoleByName(e)]
MCTopic(e) == IF e = srv1 THEN [name |-> add, type |-> int]
              ELSE [name |-> chatter, type |-> str]
MCTopicOf == [e \in Endpoint |-> MCTopic(e)]
MCKeyexprOf == [e \in Endpoint |-> any]
MCNodeOf == [e \in Endpoint |-> IF e \in {sub1, srv1} THEN n1 ELSE n0]
OneQosOf == [e \in Endpoint |-> best]
TwoQosOf == [e \in Endpoint |-> IF e = sub0 THEN reliable ELSE best]
=============================================================================
