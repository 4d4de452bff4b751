----------------------------- MODULE GraphCache -----------------------------
(***************************************************************************)
(* The graph cache of one context, fed by the liveliness tokens of every   *)
(* session in the network.                                                 *)
(*                                                                         *)
(* A node, a publisher, a subscription, a service or a client declares a   *)
(* token when it is created and undeclares it when it is destroyed.  The   *)
(* context asks for the tokens there are (liveliness_get), subscribes to   *)
(* their changes, and applies parse_put and parse_del to its cache.  The   *)
(* cache keeps the entities twice, per node (graph_) and per topic or      *)
(* service (graph_topics_, graph_services_), and tells the publishers and  *)
(* subscriptions of its own session how many peers they are matched with.  *)
(***************************************************************************)
EXTENDS Integers, Sequences, FiniteSets

CONSTANTS
  Node,         \* nodes of every session
  Endpoint,     \* publishers, subscriptions, services and clients
  Session,      \* zenoh sessions
  Here,         \* the session of the context
  SessionOf,    \* the session of a node
  NodeOf,       \* the node of an endpoint
  RoleOf,       \* what an endpoint is
  TopicOf,      \* its topic or service, name and type
  KeyexprOf,    \* its zenoh key expression, which has the hash of the type too
  QosOf,        \* its QoS profile
  Qos,          \* the QoS profiles in use
  Ordered,      \* the changes of a session's tokens arrive in order
  CalmStart     \* nothing leaves while the context starts

Role == {"pub", "sub", "service", "client"}
Token == Node \cup Endpoint
SessionOfToken(t) == IF t \in Node THEN SessionOf[t] ELSE SessionOf[NodeOf[t]]
EndpointsOf(n) == {e \in Endpoint : NodeOf[e] = n}
Local == {e \in Endpoint : SessionOfToken(e) = Here}

ASSUME GraphCacheAssumption ==
  /\ IsFiniteSet(Node) /\ IsFiniteSet(Endpoint) /\ IsFiniteSet(Qos)
  /\ Node \cap Endpoint = {}
  /\ Here \in Session
  /\ SessionOf \in [Node -> Session]
  /\ NodeOf \in [Endpoint -> Node]
  /\ RoleOf \in [Endpoint -> Role]
  /\ QosOf \in [Endpoint -> Qos]
  /\ Ordered \in BOOLEAN /\ CalmStart \in BOOLEAN

VARIABLES
  alive,        \* tokens declared and not undeclared
  used,         \* tokens ever declared: entity ids are never reused
  phase,        \* how far the context has come: none, queried, running
  inbox,        \* inbox[s]: changes of the tokens of s not delivered yet
  nodes,        \* graph_: the nodes that have a GraphNode
  ents,         \* ents[n]: the endpoints in the topic maps of GraphNode n
  index,        \* graph_topics_ and graph_services_
  total,        \* total_nodes_in_graph_
  registered,   \* endpoints with an entry in event_callbacks_
  delivered,    \* matched counts handed to an endpoint's EventsManager
  pending,      \* unregistered_event_changes_
  recounted     \* history: peers of an endpoint that were put again

network == <<alive, used, phase, inbox>>
cache == <<nodes, ents, index, total>>
events == <<registered, delivered, pending, recounted>>
vars == <<network, cache, events>>

Opposite == [r \in Role |-> CASE r = "pub" -> "sub" [] r = "sub" -> "pub"
                              [] r = "service" -> "client" [] OTHER -> "service"]
IsTopic(e) == RoleOf[e] \in {"pub", "sub"}
SameTopic(e, f) == TopicOf[e] = TopicOf[f] /\ (IsTopic(e) <=> IsTopic(f))
SameTopicData(e, f) == SameTopic(e, f) /\ QosOf[e] = QosOf[f]
Matches(e, f) == SameTopic(e, f) /\ RoleOf[f] = Opposite[RoleOf[e]]
Peers(e) == {f \in index : Matches(e, f)}

-----------------------------------------------------------------------------
(* Faults: what some definitions below would be with a slip in the code.   *)
(* No specification uses them; each breaks one of the properties.          *)

\* A new node is not counted.
AddUncounted(S) ==
  /\ nodes' = nodes \cup (S \cap Node) \cup {NodeOf[e] : e \in S \cap Endpoint}
  /\ ents' = [n \in Node |-> ents[n] \cup (S \cap EndpointsOf(n))]
  /\ index' = index \cup (S \cap Endpoint)
  /\ UNCHANGED total

DelNode(n, removed) ==
  IF n \in nodes
  THEN /\ nodes' = nodes \ {n}
       /\ total' = total - 1
       /\ ents' = [ents EXCEPT ![n] = {}]
       /\ index' = index \ removed
       /\ UNCHANGED events
  ELSE UNCHANGED <<cache, events>>

\* The endpoints of a removed node stay in the index.
DelNodeOnly(n) == DelNode(n, {})

\* A node is removed only when it has no endpoint left.
DelNodeIfEmpty(n) ==
  IF ents[n] = {} THEN DelNode(n, {}) ELSE UNCHANGED <<cache, events>>

\* Every endpoint of the topic and QoS goes with the one that is destroyed.
DelTopicData(e) ==
  LET same == {f \in index : SameTopicData(e, f)} IN
  /\ ents' = [n \in Node |-> ents[n] \ same]
  /\ index' = index \ same
  /\ UNCHANGED <<nodes, total, events>>

\* Only the peers of a new endpoint are told, not the endpoint itself.
TellPeersOnly(e) ==
  LET change == [f \in Local |-> IF f \in Peers(e) THEN 1 ELSE 0] IN
  /\ delivered' = [f \in Local |->
       delivered[f] + IF f \in registered THEN change[f] ELSE 0]
  /\ pending' = [f \in Local |->
       pending[f] + IF f \in registered THEN 0 ELSE change[f]]

\* What was kept for an endpoint is not given to its callback.
SetCallbackOnly(e) ==
  /\ e \in Local \cap alive
  /\ IsTopic(e)
  /\ registered' = registered \cup {e}
  /\ UNCHANGED <<network, cache, delivered, pending, recounted>>

-----------------------------------------------------------------------------
Init ==
  /\ alive = {} /\ used = {}
  /\ phase = "none"
  /\ inbox = [s \in Session |-> <<>>]
  /\ nodes = {}
  /\ ents = [n \in Node |-> {}]
  /\ index = {}
  /\ total = 0
  /\ registered = {}
  /\ delivered = [e \in Local |-> 0]
  /\ pending = [e \in Local |-> 0]
  /\ recounted = [e \in Local |-> {}]

\* A change of a token of s, sent to the liveliness subscriber if there is one.
Send(t, op) ==
  LET s == SessionOfToken(t) IN
  inbox' = IF phase # "running" THEN inbox
           ELSE [inbox EXCEPT ![s] = Append(@, [op |-> op, tok |-> t])]

-----------------------------------------------------------------------------
(* The entities of the network *)

\* NodeData::make() and PublisherData::make() and its siblings: an entity of
\* this context needs the context initialised, an endpoint needs its node.
Declare(t) ==
  /\ t \notin used
  /\ SessionOfToken(t) = Here => phase = "running"
  /\ t \in Endpoint => NodeOf[t] \in alive
  /\ alive' = alive \cup {t}
  /\ used' = used \cup {t}
  /\ Send(t, "put")
  /\ UNCHANGED <<phase, cache, events>>

\* The destruction of an entity, or the loss of its session, which drops the
\* tokens of a node and of its endpoints in any order.  The callbacks of an
\* endpoint of this context are removed before its token is undeclared.
Undeclare(t) ==
  /\ t \in alive
  /\ CalmStart => phase = "running"
  /\ alive' = alive \ {t}
  /\ Send(t, "del")
  /\ registered' = registered \ {t}
  /\ UNCHANGED <<used, phase, cache, delivered, pending, recounted>>

-----------------------------------------------------------------------------
(* update_event_counters() and the callbacks it serves *)

\* Each local endpoint e gets change[e] if it has a callback, and otherwise
\* keeps it until it has one.
UpdateEventCounters(change) ==
  /\ delivered' = [e \in Local |->
       delivered[e] + IF e \in registered THEN change[e] ELSE 0]
  /\ pending' = [e \in Local |->
       pending[e] + IF e \in registered THEN 0 ELSE change[e]]

\* rmw_*_event_init(): the callback for the MATCHED event of a publisher or a
\* subscription is set, and is given the changes kept for it.
SetQosEventCallback(e) ==
  /\ e \in Local \cap alive
  /\ IsTopic(e)
  /\ registered' = registered \cup {e}
  /\ delivered' = [delivered EXCEPT ![e] = @ + pending[e]]
  /\ pending' = [pending EXCEPT ![e] = 0]
  /\ UNCHANGED <<network, cache, recounted>>

-----------------------------------------------------------------------------
(* parse_put() and parse_del() *)

\* graph_ and the indexes once the tokens of S have been put.
AddToCache(S) ==
  LET new == (S \cap Node) \cup {NodeOf[e] : e \in S \cap Endpoint} IN
  /\ nodes' = nodes \cup new
  /\ total' = total + Cardinality(new \ nodes)
  /\ ents' = [n \in Node |-> ents[n] \cup (S \cap EndpointsOf(n))]
  /\ index' = index \cup (S \cap Endpoint)

\* handle_matched_events_for_put(): the sum a new endpoint is told of.  The
\* loop visits the profiles present on the topic in the order rank of the
\* hash map, and reports at each what it has counted so far.
MatchCountForEntity(e, rank) ==
  LET profiles == {QosOf[f] : f \in {g \in index : SameTopic(e, g)}} IN
  Cardinality({p \in Peers(e) \X profiles : rank[QosOf[p[1]]] <= rank[p[2]]})

HandleMatchedEventsForPut(e) ==
  \E rank \in [Qos -> 1..Cardinality(Qos)] :
    /\ \A p, q \in Qos : rank[p] = rank[q] => p = q
    /\ UpdateEventCounters([f \in Local |->
         IF f = e THEN MatchCountForEntity(e, rank)
         ELSE IF f \in Peers(e) /\ KeyexprOf[f] = KeyexprOf[e] THEN 1
         ELSE 0])

\* An endpoint that is there already is counted again by its peers.
Recount(e) ==
  recounted' = [f \in Local |->
    recounted[f] \cup {g \in {e} \cap index :
                        f \in Peers(g) /\ KeyexprOf[f] = KeyexprOf[g]}]

ParsePut(t) ==
  /\ AddToCache({t})
  /\ IF t \in Endpoint /\ IsTopic(t)
     THEN HandleMatchedEventsForPut(t) /\ Recount(t) /\ UNCHANGED registered
     ELSE UNCHANGED events

\* handle_matched_events_for_del() after each of the endpoints of S has been
\* removed, those with the role first before the others.
HandleMatchedEventsForDel(S, first) ==
  UpdateEventCounters([f \in Local |->
    IF f \notin index \/ (f \in S /\ RoleOf[f] \in first) THEN 0
    ELSE 0 - Cardinality({e \in S : Matches(e, f)})])

\* The DEL of an endpoint.  It is ignored when its node is unknown; the index
\* is left alone when no endpoint of its topic, type and QoS is known.
ParseDelEndpoint(e) ==
  LET known == NodeOf[e] \in nodes
      found == known /\ \E f \in index : SameTopicData(e, f)
  IN
  /\ ents' = IF known THEN [ents EXCEPT ![NodeOf[e]] = @ \ {e}] ELSE ents
  /\ index' = IF found THEN index \ {e} ELSE index
  /\ IF found /\ IsTopic(e)
     THEN HandleMatchedEventsForDel({e}, Role) /\ UNCHANGED <<registered, recounted>>
     ELSE UNCHANGED events
  /\ UNCHANGED <<nodes, total>>

\* The DEL of a node takes the endpoints still there with it: publishers,
\* subscriptions, services and clients in this order, events reported for all.
ParseDelNode(n) ==
  IF n \in nodes
  THEN /\ nodes' = nodes \ {n}
       /\ total' = total - 1
       /\ ents' = [ents EXCEPT ![n] = {}]
       /\ index' = index \ ents[n]
       /\ HandleMatchedEventsForDel(ents[n], {"pub", "service"})
       /\ UNCHANGED <<registered, recounted>>
  ELSE UNCHANGED <<cache, events>>

-----------------------------------------------------------------------------
(* The context *)

\* The constructor of Data: liveliness_get() returns the tokens there are, and
\* parse_put() takes them in before anything else runs in the context.
Query ==
  /\ phase = "none"
  /\ phase' = "queried"
  /\ AddToCache(alive)
  /\ UNCHANGED <<alive, used, inbox, events>>

\* The orders in which the history may have the tokens of s.
Histories(s) ==
  LET S == {t \in alive : SessionOfToken(t) = s} IN
  {h \in [1..Cardinality(S) -> S] : \A i, j \in DOMAIN h : h[i] = h[j] => i = j}

\* Data::init(): the subscriber is declared, and gets the tokens there are as
\* its history, those the query has returned once more.  update_graph_cache()
\* makes no difference between the history and what comes later.
Subscribe ==
  /\ phase = "queried"
  /\ phase' = "running"
  /\ \E h \in [Session -> UNION {Histories(s) : s \in Session}] :
       /\ \A s \in Session : h[s] \in Histories(s)
       /\ inbox' = [s \in Session |->
            [i \in DOMAIN h[s] |-> [op |-> "put", tok |-> h[s][i]]]]
  /\ UNCHANGED <<alive, used, cache, events>>

\* update_graph_cache(), run for the change at place i of a session's inbox.
UpdateGraphCache(s, i) ==
  LET m == inbox[s][i] IN
  /\ Ordered => i = 1
  /\ inbox' = [inbox EXCEPT ![s] =
       SubSeq(@, 1, i - 1) \o SubSeq(@, i + 1, Len(@))]
  /\ \/ m.op = "put" /\ ParsePut(m.tok)
     \/ m.op = "del" /\ m.tok \in Endpoint /\ ParseDelEndpoint(m.tok)
     \/ m.op = "del" /\ m.tok \in Node /\ ParseDelNode(m.tok)
  /\ UNCHANGED <<alive, used, phase>>

-----------------------------------------------------------------------------
Next ==
  \/ \E t \in Token : Declare(t) \/ Undeclare(t)
  \/ \E e \in Local : SetQosEventCallback(e)
  \/ Query
  \/ Subscribe
  \/ \E s \in Session : \E i \in DOMAIN inbox[s] : UpdateGraphCache(s, i)

Spec == Init /\ [][Next]_vars

-----------------------------------------------------------------------------
(* Properties *)

TypeOK ==
  /\ alive \subseteq used /\ used \subseteq Token
  /\ phase \in {"none", "queried", "running"}
  /\ inbox \in [Session -> Seq([op : {"put", "del"}, tok : Token])]
  /\ nodes \subseteq Node
  /\ ents \in [Node -> SUBSET Endpoint]
  /\ index \subseteq Endpoint
  /\ total \in Nat
  /\ registered \subseteq Local
  /\ delivered \in [Local -> Int]
  /\ pending \in [Local -> Int]
  /\ recounted \in [Local -> SUBSET Endpoint]

\* The two halves of the cache agree whatever is delivered in whatever order:
\* an endpoint is in graph_topics_ or graph_services_ exactly when the
\* GraphNode of its node is in graph_ and has it, and the node count is right.
IndexMatchesNodes ==
  /\ index = {e \in Endpoint : e \in ents[NodeOf[e]]}
  /\ \A n \in Node : ents[n] \subseteq EndpointsOf(n)
  /\ \A n \in Node \ nodes : ents[n] = {}
  /\ total = Cardinality(nodes)

Quiet == phase = "running" /\ \A s \in Session : inbox[s] = <<>>

\* Once every change has been delivered the cache is the network: it has the
\* nodes that are alive, and of the endpoints those that are alive and have
\* their node (the endpoints of a node that is gone are on their way out).
Converges ==
  Quiet => /\ nodes = alive \cap Node
           /\ index = {e \in alive \cap Endpoint : NodeOf[e] \in alive}

\* Whatever order the changes come in and whatever happens while the context
\* starts, the cache may show too much but misses nothing: once every change has
\* been delivered it has every node that is alive, and its endpoints.
NothingMissed ==
  Quiet => /\ alive \cap Node \subseteq nodes
           /\ {e \in alive \cap Endpoint : NodeOf[e] \in alive} \subseteq index

\* What a publisher or a subscription of this context has been told of its
\* MATCHED status, with what is kept for it until it asks.
Told(e) == delivered[e] + pending[e]

\* It is the number of its peers in the graph: what
\* rmw_publisher_count_matched_subscriptions would answer.
MatchedCountExact ==
  \A e \in Local \cap index : IsTopic(e) => Told(e) = Cardinality(Peers(e))

\* It is more than that by the peers that came once more with the history when
\* they were matched already, also when these are gone, and by nothing else.
MatchedCountAccounted ==
  \A e \in Local \cap index :
    IsTopic(e) => Told(e) = Cardinality(Peers(e)) + Cardinality(recounted[e])

\* No change is kept back from an endpoint that has its callback set.
NothingWithheld == \A e \in registered : pending[e] = 0

Whole == [t \in Token |-> IF t \in Endpoint THEN NodeOf[t] ELSE t]

\* What a reader of the cache has seen of a token: whether it is shown, is still
\* to come, or has been there.
Shown(t) == t \in nodes \cup index
OnItsWay(t) ==
  [op |-> "put", tok |-> t] \in
    {inbox[SessionOfToken(t)][i] : i \in DOMAIN inbox[SessionOfToken(t)]}
Stage(t) ==
  CASE Shown(t) -> "shown"
    [] ~Shown(t) /\ phase = "running" /\ t \in used /\ ~OnItsWay(t) -> "dropped"
    [] OTHER -> "unknown"

\* The graph does not flicker: an entity drops out of the cache only when it, or
\* its node, has left the network, and what has dropped out never comes back, not
\* even a node of which an endpoint is put late.
NoFlicker ==
  [][\A t \in Token :
       /\ Shown(t) /\ ~Shown(t)' => t \notin alive \/ Whole[t] \notin alive
       /\ ~Shown(t) /\ Shown(t)' => Stage(t) = "unknown"]_<<nodes, index>>

\* The cache shows an entity once, from some time after it was declared until
\* some time after it, or its node, was undeclared, and no endpoint without its
\* node.  Nothing that is there drops out, and nothing that left comes back.
Graph == INSTANCE Directory
           WITH Entity <- Token, WholeOf <- Whole, stage <- [t \in Token |-> Stage(t)]
ShowsOnce == Graph!Spec
=============================================================================
