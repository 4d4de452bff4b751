------------------------- MODULE GraphCache_proofs -------------------------
(***************************************************************************)
(* The graph cache is consistent for any network, any delivery order and   *)
(* any start of the context, and is the network once it has been told of   *)
(* everything in order.                                                    *)
(***************************************************************************)
EXTENDS GraphCache, FiniteSetTheorems, SequenceTheorems, TLAPS

CacheTypeOK ==
  /\ nodes \subseteq Node
  /\ ents \in [Node -> SUBSET Endpoint]
  /\ index \subseteq Endpoint
  /\ total \in Nat

CacheOK == CacheTypeOK /\ IndexMatchesNodes

EventsTypeOK ==
  /\ registered \subseteq Local
  /\ delivered \in [Local -> Int]
  /\ pending \in [Local -> Int]
  /\ recounted \in [Local -> SUBSET Endpoint]

EventsOK == EventsTypeOK /\ NothingWithheld

Change == [op : {"put", "del"}, tok : Token]

NetworkTypeOK ==
  /\ alive \subseteq used /\ used \subseteq Token
  /\ phase \in {"none", "queried", "running"}
  /\ inbox \in [Session -> Seq(Change)]

LEMMA TypeParts == TypeOK <=> NetworkTypeOK /\ CacheTypeOK /\ EventsTypeOK
BY DEF TypeOK, NetworkTypeOK, CacheTypeOK, EventsTypeOK, Change

LEMMA SessionType == \A t \in Token : SessionOfToken(t) \in Session
BY GraphCacheAssumption DEF Token, SessionOfToken

LEMMA FiniteParts ==
  ASSUME NEW S, S \subseteq Node \/ S \subseteq Endpoint \/ S \subseteq Qos
  PROVE  IsFiniteSet(S) /\ Cardinality(S) \in Nat
BY GraphCacheAssumption, FS_Subset, FS_CardinalityType

-----------------------------------------------------------------------------
(* The cache *)

LEMMA CacheSame == ASSUME CacheOK, UNCHANGED cache PROVE CacheOK'
BY DEF CacheOK, CacheTypeOK, IndexMatchesNodes, cache, EndpointsOf

LEMMA AddToCacheOK ==
  ASSUME CacheOK, NEW S \in SUBSET Token, AddToCache(S)
  PROVE  CacheOK'
<1> DEFINE new == (S \cap Node) \cup {NodeOf[e] : e \in S \cap Endpoint}
<1> USE DEF CacheOK, CacheTypeOK, IndexMatchesNodes, EndpointsOf
<1>1. new \subseteq Node
  BY GraphCacheAssumption DEF Token
<1>2. /\ nodes' = nodes \cup new
      /\ total' = total + Cardinality(new \ nodes)
      /\ ents' = [n \in Node |-> ents[n] \cup (S \cap EndpointsOf(n))]
      /\ index' = index \cup (S \cap Endpoint)
  BY DEF AddToCache
<1> HIDE DEF new
<1>3. total' = Cardinality(nodes')
  <2>1. /\ IsFiniteSet(nodes)
        /\ IsFiniteSet(new \ nodes)
    BY <1>1, FiniteParts
  <2>2. Cardinality(nodes \cup (new \ nodes)) =
          Cardinality(nodes) + Cardinality(new \ nodes) - Cardinality(nodes \cap (new \ nodes))
    BY <2>1, FS_Union
  <2>3. /\ nodes \cup (new \ nodes) = nodes'
        /\ nodes \cap (new \ nodes) = {}
    BY <1>2
  <2>4. Cardinality(nodes) \in Nat /\ Cardinality(new \ nodes) \in Nat
    BY <2>1, FS_CardinalityType
  <2>5. QED BY <1>2, <2>2, <2>3, <2>4, FS_EmptySet
<1>4. nodes' \subseteq Node
  BY <1>1, <1>2
<1>5. total' \in Nat
  BY <1>3, <1>4, FiniteParts
<1>6. ents' \in [Node -> SUBSET Endpoint] /\ index' \subseteq Endpoint
  BY <1>2
<1>7. index' = {e \in Endpoint : e \in ents'[NodeOf[e]]}
  BY <1>2, GraphCacheAssumption
<1>8. \A n \in Node : ents'[n] \subseteq EndpointsOf(n)
  BY <1>2
<1>9. \A n \in Node \ nodes' : ents'[n] = {}
  BY <1>2 DEF new
<1>10. QED BY <1>3, <1>4, <1>5, <1>6, <1>7, <1>8, <1>9

LEMMA ParseDelEndpointOK ==
  ASSUME CacheOK, NEW e \in Endpoint, ParseDelEndpoint(e)
  PROVE  CacheOK'
<1> USE DEF CacheOK, CacheTypeOK, IndexMatchesNodes, EndpointsOf
<1>1. NodeOf[e] \in Node
  BY GraphCacheAssumption
<1>2. UNCHANGED <<nodes, total>>
  BY DEF ParseDelEndpoint
<1>3. CASE NodeOf[e] \notin nodes
  <2>1. ents' = ents /\ index' = index
    BY <1>3 DEF ParseDelEndpoint
  <2>2. QED BY <1>2, <2>1, CacheSame DEF cache
<1>4. CASE NodeOf[e] \in nodes
  <2>1. ents' = [ents EXCEPT ![NodeOf[e]] = @ \ {e}]
    BY <1>4 DEF ParseDelEndpoint
  <2>2. index' = index \ {e}
    <3>1. e \in index => \E f \in index : SameTopicData(e, f)
      BY DEF SameTopicData, SameTopic
    <3>2. QED BY <1>4, <3>1 DEF ParseDelEndpoint
  <2>3. \A n \in Node : ents'[n] = ents[n] \ {e}
    BY <1>1, <2>1
  <2>4. index' = {f \in Endpoint : f \in ents'[NodeOf[f]]}
    BY <2>2, <2>3, GraphCacheAssumption
  <2>5. QED BY <1>2, <2>1, <2>2, <2>3, <2>4
<1>5. QED BY <1>3, <1>4

LEMMA ParseDelNodeOK ==
  ASSUME CacheOK, NEW n \in Node, ParseDelNode(n)
  PROVE  CacheOK'
<1> USE DEF CacheOK, CacheTypeOK, IndexMatchesNodes, EndpointsOf
<1>1. CASE n \notin nodes
  BY <1>1, CacheSame DEF ParseDelNode
<1>2. CASE n \in nodes
  <2>1. /\ nodes' = nodes \ {n}
        /\ total' = total - 1
        /\ ents' = [ents EXCEPT ![n] = {}]
        /\ index' = index \ ents[n]
    BY <1>2 DEF ParseDelNode
  <2>2. total' = Cardinality(nodes')
    <3>1. IsFiniteSet(nodes)
      BY FiniteParts
    <3>2. QED BY <1>2, <2>1, <3>1, FS_RemoveElement
  <2>3. total' \in Nat
    BY <2>1, <2>2, FiniteParts
  <2>4. index' = {e \in Endpoint : e \in ents'[NodeOf[e]]}
    <3>1. \A e \in Endpoint : e \in ents[n] <=> e \in ents[NodeOf[e]] /\ NodeOf[e] = n
      BY GraphCacheAssumption
    <3>2. \A e \in Endpoint :
            e \in ents'[NodeOf[e]] <=> e \in ents[NodeOf[e]] /\ NodeOf[e] # n
      BY <2>1, GraphCacheAssumption
    <3>3. QED BY <2>1, <3>1, <3>2
  <2>5. QED BY <2>1, <2>2, <2>3, <2>4
<1>3. QED BY <1>1, <1>2

-----------------------------------------------------------------------------
(* The events *)

LEMMA EventsSame == ASSUME EventsOK, UNCHANGED events PROVE EventsOK'
BY DEF EventsOK, EventsTypeOK, NothingWithheld, events

LEMMA CountersTyped ==
  ASSUME EventsOK, NEW change \in [Local -> Int], UpdateEventCounters(change),
         UNCHANGED registered, recounted' \in [Local -> SUBSET Endpoint]
  PROVE  EventsOK'
BY DEF EventsOK, EventsTypeOK, NothingWithheld, UpdateEventCounters

LEMMA PutEventsTyped ==
  ASSUME CacheTypeOK, EventsOK, NEW e \in Endpoint,
         HandleMatchedEventsForPut(e), Recount(e), UNCHANGED registered
  PROVE  EventsOK'
<1>1. PICK rank \in [Qos -> 1..Cardinality(Qos)] :
        UpdateEventCounters([f \in Local |->
          IF f = e THEN MatchCountForEntity(e, rank)
          ELSE IF f \in Peers(e) /\ KeyexprOf[f] = KeyexprOf[e] THEN 1
          ELSE 0])
  BY DEF HandleMatchedEventsForPut
<1>2. MatchCountForEntity(e, rank) \in Nat
  <2> DEFINE profiles == {QosOf[f] : f \in {g \in index : SameTopic(e, g)}}
             counted == {p \in Peers(e) \X profiles : rank[QosOf[p[1]]] <= rank[p[2]]}
  <2>1. Peers(e) \subseteq Endpoint /\ profiles \subseteq Qos
    BY GraphCacheAssumption DEF CacheTypeOK, Peers
  <2>2. IsFiniteSet(Peers(e)) /\ IsFiniteSet(profiles)
    BY <2>1, FiniteParts
  <2>3. IsFiniteSet(Peers(e) \X profiles)
    BY <2>2, FS_Product
  <2>4. counted \subseteq Peers(e) \X profiles
    OBVIOUS
  <2>5. IsFiniteSet(counted)
    BY <2>3, <2>4, FS_Subset
  <2>6. QED BY <2>5, FS_CardinalityType DEF MatchCountForEntity
<1>3. recounted' \in [Local -> SUBSET Endpoint]
  BY DEF Recount, EventsOK, EventsTypeOK
<1>4. QED BY <1>1, <1>2, <1>3, CountersTyped

LEMMA DelEventsTyped ==
  ASSUME EventsOK, NEW S \in SUBSET Endpoint, NEW first,
         HandleMatchedEventsForDel(S, first), UNCHANGED <<registered, recounted>>
  PROVE  EventsOK'
<1> DEFINE lost(f) == {e \in S : Matches(e, f)}
           change == [f \in Local |->
             IF f \notin index \/ (f \in S /\ RoleOf[f] \in first) THEN 0
             ELSE 0 - Cardinality(lost(f))]
<1>1. UpdateEventCounters(change)
  BY DEF HandleMatchedEventsForDel
<1>2. \A f \in Local : lost(f) \subseteq Endpoint
  OBVIOUS
<1> HIDE DEF lost
<1>3. \A f \in Local : Cardinality(lost(f)) \in Nat
  BY <1>2, FiniteParts
<1>4. change \in [Local -> Int]
  BY <1>3
<1> HIDE DEF change
<1>5. QED BY <1>1, <1>4, CountersTyped DEF EventsOK, EventsTypeOK

-----------------------------------------------------------------------------
(* The steps *)

Inv == NetworkTypeOK /\ CacheOK /\ EventsOK

LEMMA InitInv == Init => Inv
<1> SUFFICES ASSUME Init PROVE Inv
  OBVIOUS
<1>1. total = Cardinality(nodes)
  BY FS_EmptySet DEF Init
<1>2. inbox \in [Session -> Seq(Change)]
  BY DEF Init
<1>3. QED
  BY <1>1, <1>2, GraphCacheAssumption DEF Init, Inv, NetworkTypeOK, CacheOK, CacheTypeOK,
     IndexMatchesNodes, EventsOK, EventsTypeOK, NothingWithheld

LEMMA SendTyped ==
  ASSUME NetworkTypeOK, NEW t \in Token, NEW op \in {"put", "del"}, Send(t, op)
  PROVE  inbox' \in [Session -> Seq(Change)]
<1>1. SessionOfToken(t) \in Session
  BY SessionType
<1>2. [op |-> op, tok |-> t] \in Change
  BY DEF Change
<1>3. Append(inbox[SessionOfToken(t)], [op |-> op, tok |-> t]) \in Seq(Change)
  BY <1>1, <1>2 DEF NetworkTypeOK
<1>4. QED BY <1>1, <1>3 DEF Send, NetworkTypeOK

LEMMA DeclareInv == ASSUME Inv, NEW t \in Token, Declare(t) PROVE Inv'
<1>1. inbox' \in [Session -> Seq(Change)]
  BY SendTyped DEF Inv, Declare
<1>2. CacheOK'
  BY CacheSame DEF Inv, Declare
<1>3. QED
  BY <1>1, <1>2, EventsSame DEF Inv, Declare, NetworkTypeOK

LEMMA UndeclareInv == ASSUME Inv, NEW t \in Token, Undeclare(t) PROVE Inv'
<1>1. inbox' \in [Session -> Seq(Change)]
  BY SendTyped DEF Inv, Undeclare
<1>2. CacheOK'
  BY CacheSame DEF Inv, Undeclare
<1>3. QED
  BY <1>1, <1>2
     DEF Inv, Undeclare, NetworkTypeOK, EventsOK, EventsTypeOK, NothingWithheld

LEMMA SetQosEventCallbackInv ==
  ASSUME Inv, NEW e \in Local, SetQosEventCallback(e) PROVE Inv'
<1>1. CacheOK'
  BY CacheSame DEF Inv, SetQosEventCallback
<1>2. QED
  BY <1>1
     DEF Inv, SetQosEventCallback, NetworkTypeOK, network, EventsOK, EventsTypeOK, NothingWithheld

LEMMA QueryInv == ASSUME Inv, Query PROVE Inv'
<1>1. CacheOK'
  BY AddToCacheOK DEF Inv, Query, NetworkTypeOK
<1>2. QED
  BY <1>1, EventsSame DEF Inv, Query, NetworkTypeOK

\* h lists the k tokens of the session, in some order.
Lists(s, k, h) ==
  /\ h \in [1..k -> {t \in alive : SessionOfToken(t) = s}]
  /\ \A i, j \in 1..k : h[i] = h[j] => i = j
  /\ \A t \in alive : SessionOfToken(t) = s => \E i \in 1..k : h[i] = t

LEMMA HistoryOf ==
  ASSUME NetworkTypeOK, NEW s \in Session, NEW h \in Histories(s)
  PROVE  \E k \in Nat : Lists(s, k, h)
<1> DEFINE S == {t \in alive : SessionOfToken(t) = s}
           k == Cardinality(S)
<1>1. IsFiniteSet(S)
  <2>1. S \subseteq Node \cup Endpoint
    BY DEF NetworkTypeOK, Token
  <2>2. IsFiniteSet(Node \cup Endpoint)
    BY GraphCacheAssumption, FS_Union
  <2>3. QED BY <2>1, <2>2, FS_Subset
<1>2. k \in Nat
  BY <1>1, FS_CardinalityType
<1>3. h \in [1..k -> S] /\ \A i, j \in DOMAIN h : h[i] = h[j] => i = j
  BY DEF Histories
<1>4. \A t \in S : \E i \in 1..k : h[i] = t
  <2> HIDE DEF S, k
  <2>1. h \in Injection(1..k, S)
    BY <1>3 DEF Injection, IsInjective
  <2>2. Cardinality(1..k) = k
    BY <1>2, FS_Interval
  <2>3. h \in Surjection(1..k, S)
    BY <1>1, <2>1, <2>2, FS_Injection DEF k
  <2>4. QED BY <2>3 DEF Surjection
<1> HIDE DEF k
<1>5. QED BY <1>2, <1>3, <1>4 DEF Lists

\* What the subscriber is to be given first.
History ==
  \A s \in Session : \E k \in Nat : \E h :
    Lists(s, k, h) /\ inbox'[s] = [i \in 1..k |-> [op |-> "put", tok |-> h[i]]]

LEMMA SubscribeHistory == ASSUME NetworkTypeOK, Subscribe PROVE History
<1>1. PICK h : /\ \A s \in Session : h[s] \in Histories(s)
               /\ inbox' = [s \in Session |->
                    [i \in DOMAIN h[s] |-> [op |-> "put", tok |-> h[s][i]]]]
  BY DEF Subscribe
<1>2. ASSUME NEW s \in Session
      PROVE  \E k \in Nat : \E g :
               Lists(s, k, g) /\ inbox'[s] = [i \in 1..k |-> [op |-> "put", tok |-> g[i]]]
  <2> DEFINE g == h[s]
  <2>1. g \in Histories(s) /\ inbox'[s] = [i \in DOMAIN g |-> [op |-> "put", tok |-> g[i]]]
    BY <1>1
  <2> HIDE DEF g
  <2>2. PICK k \in Nat : Lists(s, k, g)
    BY <2>1, HistoryOf
  <2>3. DOMAIN g = 1..k
    BY <2>2 DEF Lists
  <2>4. QED BY <2>1, <2>2, <2>3
<1>3. QED BY <1>2 DEF History

LEMMA SubscribeInv == ASSUME Inv, Subscribe PROVE Inv'
<1>1. CacheOK'
  BY CacheSame DEF Inv, Subscribe
<1>2. ASSUME NEW s \in Session PROVE inbox'[s] \in Seq(Change)
  <2>1. PICK k \in Nat : \E h :
          Lists(s, k, h) /\ inbox'[s] = [i \in 1..k |-> [op |-> "put", tok |-> h[i]]]
    BY SubscribeHistory DEF History, Inv
  <2>2. PICK h : Lists(s, k, h) /\ inbox'[s] = [i \in 1..k |-> [op |-> "put", tok |-> h[i]]]
    BY <2>1
  <2>3. \A i \in 1..k : [op |-> "put", tok |-> h[i]] \in Change
    BY <2>2 DEF Lists, Change, Inv, NetworkTypeOK
  <2> HIDE DEF Change
  <2>4. QED BY <2>2, <2>3
<1>3. inbox' \in [Session -> Seq(Change)]
  BY <1>2 DEF Subscribe
<1>4. QED
  BY <1>1, <1>3, EventsSame DEF Inv, Subscribe, NetworkTypeOK

LEMMA UpdateGraphCacheInv ==
  ASSUME Inv, NEW s \in Session, NEW i \in DOMAIN inbox[s], UpdateGraphCache(s, i)
  PROVE  Inv'
<1> DEFINE m == inbox[s][i]
<1>1. inbox[s] \in Seq(Change) /\ i \in 1..Len(inbox[s]) /\ m \in Change
  BY DEF Inv, NetworkTypeOK
<1>2. NetworkTypeOK'
  <2> DEFINE q == inbox[s]
  <2>1. \A j \in 1..Len(q) : q[j] \in Change
    BY <1>1
  <2>2. SubSeq(q, 1, i - 1) \in Seq(Change)
    BY <1>1, <2>1, SubSeqProperties
  <2>3. SubSeq(q, i + 1, Len(q)) \in Seq(Change)
    BY <1>1, <2>1, SubSeqProperties
  <2>4. SubSeq(q, 1, i - 1) \o SubSeq(q, i + 1, Len(q)) \in Seq(Change)
    BY <2>2, <2>3, ConcatProperties
  <2> HIDE DEF q
  <2>5. inbox' = [inbox EXCEPT ![s] = SubSeq(q, 1, i - 1) \o SubSeq(q, i + 1, Len(q))]
    BY DEF UpdateGraphCache, q
  <2>6. QED BY <2>4, <2>5 DEF Inv, UpdateGraphCache, NetworkTypeOK
<1>3. CASE ParsePut(m.tok)
  <2>1. m.tok \in Token
    BY <1>1 DEF Change
  <2>2. CacheOK'
    BY <1>3, <2>1, AddToCacheOK DEF Inv, ParsePut
  <2>3. EventsOK'
    BY <1>3, <2>1, PutEventsTyped, EventsSame DEF Inv, ParsePut, CacheOK
  <2>4. QED BY <1>2, <2>2, <2>3 DEF Inv
<1>4. CASE m.tok \in Endpoint /\ ParseDelEndpoint(m.tok)
  <2>1. CacheOK'
    BY <1>4, ParseDelEndpointOK DEF Inv
  <2>2. EventsOK'
    <3>1. CASE UNCHANGED events
      BY <3>1, EventsSame DEF Inv
    <3>2. CASE HandleMatchedEventsForDel({m.tok}, Role) /\ UNCHANGED <<registered, recounted>>
      BY <1>4, <3>2, DelEventsTyped DEF Inv
    <3>3. QED BY <1>4, <3>1, <3>2 DEF ParseDelEndpoint
  <2>3. QED BY <1>2, <2>1, <2>2 DEF Inv
<1>5. CASE m.tok \in Node /\ ParseDelNode(m.tok)
  <2>1. CacheOK'
    BY <1>5, ParseDelNodeOK DEF Inv
  <2>2. EventsOK'
    <3>1. CASE UNCHANGED events
      BY <3>1, EventsSame DEF Inv
    <3>2. CASE HandleMatchedEventsForDel(ents[m.tok], {"pub", "service"})
               /\ UNCHANGED <<registered, recounted>>
      <4>1. ents[m.tok] \in SUBSET Endpoint
        BY <1>5 DEF Inv, CacheOK, CacheTypeOK
      <4>2. QED BY <3>2, <4>1, DelEventsTyped DEF Inv
    <3>3. QED BY <1>5, <3>1, <3>2 DEF ParseDelNode
  <2>3. QED BY <1>2, <2>1, <2>2 DEF Inv
<1>6. QED BY <1>3, <1>4, <1>5 DEF UpdateGraphCache

LEMMA StepInv == Inv /\ [Next]_vars => Inv'
<1> SUFFICES ASSUME Inv, [Next]_vars PROVE Inv'
  OBVIOUS
<1>1. ASSUME NEW t \in Token, Declare(t) \/ Undeclare(t) PROVE Inv'
  BY <1>1, DeclareInv, UndeclareInv
<1>2. ASSUME NEW e \in Local, SetQosEventCallback(e) PROVE Inv'
  BY <1>2, SetQosEventCallbackInv
<1>3. CASE Query
  BY <1>3, QueryInv
<1>4. CASE Subscribe
  BY <1>4, SubscribeInv
<1>5. ASSUME NEW s \in Session, NEW i \in DOMAIN inbox[s], UpdateGraphCache(s, i)
      PROVE Inv'
  BY <1>5, UpdateGraphCacheInv
<1>6. CASE UNCHANGED vars
  <2>1. CacheOK'
    BY <1>6, CacheSame DEF Inv, vars
  <2>2. QED
    BY <1>6, <2>1, EventsSame DEF Inv, vars, network, NetworkTypeOK
<1>7. QED BY <1>1, <1>2, <1>3, <1>4, <1>5, <1>6 DEF Next

LEMMA InvHolds == Spec => []Inv
BY InitInv, StepInv, PTL DEF Spec

\* The state of the network, the cache and the events keeps its types; in
\* particular total_nodes_in_graph_, which is unsigned, never goes below zero.
THEOREM TypeCorrect == Spec => []TypeOK
<1>1. Inv => TypeOK
  BY TypeParts DEF Inv, CacheOK, EventsOK
<1>2. QED BY <1>1, InvHolds, PTL

\* graph_ and the indexes by topic and service hold the same endpoints, and
\* the node count is right, for every network and however the changes of the
\* tokens are ordered, repeated or missed.
THEOREM CacheConsistent == Spec => []IndexMatchesNodes
<1>1. Inv => IndexMatchesNodes
  BY DEF Inv, CacheOK
<1>2. QED BY <1>1, InvHolds, PTL

\* Once a publisher or a subscription of this context has its callback, no
\* change of its MATCHED status is kept back from it.
THEOREM NoChangeIsWithheld == Spec => []NothingWithheld
<1>1. Inv => NothingWithheld
  BY DEF Inv, EventsOK
<1>2. QED BY <1>1, InvHolds, PTL

-----------------------------------------------------------------------------
(* Ordered delivery: the cache is what the changes on their way will make    *)
(* the network.                                                              *)

\* The places of a change of t in the inboxes b.
Sent(b, op, t) ==
  {i \in DOMAIN b[SessionOfToken(t)] : b[SessionOfToken(t)][i] = [op |-> op, tok |-> t]}

\* t has been declared and its del has not been applied.
Standing(t) == t \in used /\ (t \in alive \/ Sent(inbox, "del", t) # {})

\* The put of t has arrived and its del has not.
Held(t) == Standing(t) /\ Sent(inbox, "put", t) = {}

Addressed == \A s \in Session : \A i \in DOMAIN inbox[s] : SessionOfToken(inbox[s][i].tok) = s

Starting ==
  phase # "running" =>
    /\ alive = used /\ nodes \subseteq used /\ index \subseteq used
    /\ \A s \in Session : inbox[s] = <<>>

PutThenDel ==
  \A t \in Token :
    /\ \A i \in Sent(inbox, "put", t) :
         /\ t \in used
         /\ \A j \in Sent(inbox, "put", t) : i = j
         /\ \A j \in Sent(inbox, "del", t) : i < j
         /\ t \notin alive => Sent(inbox, "del", t) # {}
    /\ \A i, j \in Sent(inbox, "del", t) : t \in used \ alive /\ i = j

\* A node is declared before its endpoints, which come while it is there.
NodeFirst ==
  \A e \in Endpoint :
    /\ e \in used => NodeOf[e] \in used
    /\ \A i \in Sent(inbox, "put", e) :
         /\ \A j \in Sent(inbox, "del", NodeOf[e]) : i < j
         /\ NodeOf[e] \notin alive => Sent(inbox, "del", NodeOf[e]) # {}

\* The cache has nothing whose del has been applied, and misses nothing whose
\* put has been, except what went with its node.
Foreseen ==
  phase = "running" =>
    /\ \A t \in nodes \cup index : Standing(t)
    /\ \A n \in Node : Held(n) => n \in nodes
    /\ \A e \in Endpoint : Held(e) /\ Standing(NodeOf[e]) => e \in index

DeliveryInv ==
  /\ Inv /\ Ordered /\ CalmStart
  /\ Addressed /\ Starting /\ PutThenDel /\ NodeFirst /\ Foreseen

Op == {"put", "del"}

LEMMA EndpointWithNode ==
  \A e \in Endpoint : /\ e \in Token /\ NodeOf[e] \in Token
                      /\ SessionOfToken(e) = SessionOfToken(NodeOf[e])
                      /\ e # NodeOf[e]
BY GraphCacheAssumption DEF Token, SessionOfToken

\* The inboxes c are those of b with a change of t more, or with the first
\* change of s applied.
Added(b, c, op, t) == c = [b EXCEPT ![SessionOfToken(t)] = Append(@, [op |-> op, tok |-> t])]
Applied(b, c, s) == c = [b EXCEPT ![s] = SubSeq(@, 1, 0) \o SubSeq(@, 2, Len(@))]

LEMMA SendSent ==
  ASSUME NEW b \in [Session -> Seq(Change)], NEW t \in Token, NEW op \in Op, NEW c,
         Added(b, c, op, t)
  PROVE  /\ \A u \in Token, o \in Op : u # t \/ o # op => Sent(c, o, u) = Sent(b, o, u)
         /\ Sent(c, op, t) = Sent(b, op, t) \cup {Len(b[SessionOfToken(t)]) + 1}
         /\ \A u \in Token, o \in Op : SessionOfToken(u) = SessionOfToken(t) =>
              \A i \in Sent(b, o, u) : i \in Nat /\ i < Len(b[SessionOfToken(t)]) + 1
<1> DEFINE s == SessionOfToken(t)
           m == [op |-> op, tok |-> t]
<1>1. s \in Session /\ b[s] \in Seq(Change) /\ m \in Change
  BY SessionType DEF Change, Op
<1>2. /\ \A r \in Session : r # s => c[r] = b[r]
      /\ c[s] = Append(b[s], m)
  BY <1>1 DEF Added
<1>3. /\ DOMAIN c[s] = DOMAIN b[s] \cup {Len(b[s]) + 1}
      /\ \A i \in DOMAIN b[s] : c[s][i] = b[s][i] /\ i \in Nat /\ i < Len(b[s]) + 1
      /\ c[s][Len(b[s]) + 1] = m
      /\ Len(b[s]) + 1 \notin DOMAIN b[s]
  BY <1>1, <1>2
<1>4. \A u \in Token, o \in Op : m = [op |-> o, tok |-> u] <=> u = t /\ o = op
  OBVIOUS
<1>5. \A u \in Token : SessionOfToken(u) \in Session
  BY SessionType
<1> HIDE DEF m, s
<1>6. ASSUME NEW u \in Token, NEW o \in Op, u # t \/ o # op
      PROVE  Sent(c, o, u) = Sent(b, o, u)
  <2>1. CASE SessionOfToken(u) # s
    BY <1>2, <1>5, <2>1 DEF Sent
  <2>2. CASE SessionOfToken(u) = s
    BY <1>3, <1>4, <1>6, <2>2 DEF Sent
  <2>3. QED BY <2>1, <2>2
<1>7. Sent(c, op, t) = Sent(b, op, t) \cup {Len(b[s]) + 1}
  BY <1>3, <1>4 DEF Sent, s
<1>8. \A u \in Token, o \in Op : SessionOfToken(u) = s =>
        \A i \in Sent(b, o, u) : i \in Nat /\ i < Len(b[s]) + 1
  BY <1>3 DEF Sent
<1>9. QED BY <1>6, <1>7, <1>8 DEF s

LEMMA DeliverSent ==
  ASSUME NEW b \in [Session -> Seq(Change)], NEW s \in Session, b[s] # <<>>, NEW c,
         Applied(b, c, s)
  PROVE  /\ \A u \in Token, o \in Op : SessionOfToken(u) # s => Sent(c, o, u) = Sent(b, o, u)
         /\ \A u \in Token, o \in Op : SessionOfToken(u) = s =>
              /\ \A i \in Sent(b, o, u) : i \in Nat /\ i >= 1
              /\ \A i \in Sent(c, o, u) : i \in Nat /\ i >= 1 /\ i + 1 \in Sent(b, o, u)
              /\ \A i \in Sent(b, o, u) : i # 1 => i - 1 \in Sent(c, o, u)
              /\ 1 \in Sent(b, o, u) <=> b[s][1] = [op |-> o, tok |-> u]
<1> DEFINE q == b[s]
<1>1. q \in Seq(Change) /\ Len(q) \in Nat /\ Len(q) >= 1
  <2>1. q \in Seq(Change)
    OBVIOUS
  <2>2. QED BY <2>1
<1>2. /\ \A r \in Session : r # s => c[r] = b[r]
      /\ c[s] = SubSeq(q, 1, 0) \o SubSeq(q, 2, Len(q))
  BY DEF Applied
<1> HIDE DEF q
<1>3. /\ DOMAIN c[s] = 1..(Len(q) - 1)
      /\ \A i \in 1..(Len(q) - 1) : c[s][i] = q[i + 1]
  <2>1. /\ SubSeq(q, 1, 0) \in Seq(Change) /\ Len(SubSeq(q, 1, 0)) = 0
    BY <1>1, SubSeqProperties
  <2>2. /\ SubSeq(q, 2, Len(q)) \in Seq(Change) /\ Len(SubSeq(q, 2, Len(q))) = Len(q) - 1
        /\ \A i \in 1..(Len(q) - 1) : SubSeq(q, 2, Len(q))[i] = q[i + 1]
    <3>1. \A i \in 2..Len(q) : q[i] \in Change
      BY <1>1
    <3>2. \A i \in 1..(Len(q) - 2 + 1) : SubSeq(q, 2, Len(q))[i] = q[2 + i - 1]
      BY <1>1, <3>1, SubSeqProperties
    <3>3. /\ SubSeq(q, 2, Len(q)) \in Seq(Change)
          /\ Len(SubSeq(q, 2, Len(q))) = IF 2 <= Len(q) THEN Len(q) - 2 + 1 ELSE 0
      BY <1>1, <3>1, SubSeqProperties
    <3> DEFINE n == Len(q)
               r == SubSeq(q, 2, Len(q))
    <3> HIDE DEF n, r
    <3>4. r \in Seq(Change) /\ Len(r) = IF 2 <= n THEN n - 2 + 1 ELSE 0
      BY <3>3 DEF n, r
    <3>5. /\ n \in Nat /\ n >= 1
          /\ \A i \in 1..(n - 2 + 1) : r[i] = q[2 + i - 1]
      BY <1>1, <3>2 DEF n, r
    <3>6. Len(r) = n - 1
      BY <3>4, <3>5
    <3>7. ASSUME NEW i \in 1..(n - 1) PROVE r[i] = q[i + 1]
      <4>1. i \in 1..(n - 2 + 1) /\ 2 + i - 1 = i + 1
        BY <3>5
      <4>2. QED BY <3>5, <4>1
    <3>8. QED BY <3>4, <3>6, <3>7 DEF n, r
  <2>3. QED BY <1>1, <1>2, <2>1, <2>2, ConcatProperties
<1>4. DOMAIN q = 1..Len(q)
  BY <1>1
<1>5. \A u \in Token : SessionOfToken(u) \in Session
  BY SessionType
<1>6. \A u \in Token, o \in Op : SessionOfToken(u) # s => Sent(c, o, u) = Sent(b, o, u)
  BY <1>2, <1>5 DEF Sent
<1>7. ASSUME NEW u \in Token, NEW o \in Op, SessionOfToken(u) = s
      PROVE  /\ \A i \in Sent(b, o, u) : i \in Nat /\ i >= 1
             /\ \A i \in Sent(c, o, u) : i \in Nat /\ i >= 1 /\ i + 1 \in Sent(b, o, u)
             /\ \A i \in Sent(b, o, u) : i # 1 => i - 1 \in Sent(c, o, u)
             /\ 1 \in Sent(b, o, u) <=> q[1] = [op |-> o, tok |-> u]
  <2>1. /\ Sent(b, o, u) = {i \in 1..Len(q) : q[i] = [op |-> o, tok |-> u]}
        /\ Sent(c, o, u) = {i \in 1..(Len(q) - 1) : c[s][i] = [op |-> o, tok |-> u]}
    BY <1>3, <1>4, <1>7 DEF Sent, q
  <2>2. \A i \in 1..(Len(q) - 1) :
          i \in Nat /\ i >= 1 /\ i + 1 \in 1..Len(q) /\ c[s][i] = q[i + 1]
    BY <1>1, <1>3
  <2>3. ASSUME NEW i \in 1..Len(q), i # 1
        PROVE  i - 1 \in 1..(Len(q) - 1) /\ c[s][i - 1] = q[i]
    <3>1. i - 1 \in 1..(Len(q) - 1) /\ (i - 1) + 1 = i
      BY <1>1, <2>3
    <3>2. QED BY <1>3, <3>1
  <2>4. 1 \in 1..Len(q) /\ \A i \in 1..Len(q) : i \in Nat /\ i >= 1
    BY <1>1
  <2> DEFINE m == [op |-> o, tok |-> u]
  <2> HIDE DEF m
  <2>5. /\ Sent(b, o, u) = {i \in 1..Len(q) : q[i] = m}
        /\ Sent(c, o, u) = {i \in 1..(Len(q) - 1) : c[s][i] = m}
    BY <2>1 DEF m
  <2>6. \A i \in Sent(b, o, u) : i # 1 => i - 1 \in Sent(c, o, u)
    BY <2>3, <2>5
  <2>7. \A i \in Sent(c, o, u) : i \in Nat /\ i >= 1 /\ i + 1 \in Sent(b, o, u)
    BY <2>2, <2>5
  <2>8. 1 \in Sent(b, o, u) <=> q[1] = m
    BY <2>4, <2>5
  <2>9. QED BY <2>4, <2>5, <2>6, <2>7, <2>8 DEF m
<1>8. QED BY <1>6, <1>7 DEF q

LEMMA SendAddressed ==
  ASSUME NetworkTypeOK, Addressed, NEW t \in Token, NEW op \in Op, Send(t, op)
  PROVE  Addressed'
<1>1. CASE phase # "running"
  BY <1>1 DEF Send, Addressed
<1>2. CASE phase = "running"
  <2> DEFINE s == SessionOfToken(t)
             m == [op |-> op, tok |-> t]
  <2>1. s \in Session /\ inbox[s] \in Seq(Change) /\ m \in Change
    BY SessionType DEF NetworkTypeOK, Change, Op
  <2>2. inbox' = [inbox EXCEPT ![s] = Append(@, m)]
    BY <1>2 DEF Send
  <2>3. /\ \A r \in Session : r # s => inbox'[r] = inbox[r]
        /\ inbox'[s] = Append(inbox[s], m)
    BY <2>1, <2>2 DEF NetworkTypeOK
  <2>4. m.tok = t
    OBVIOUS
  <2> HIDE DEF m
  <2>5. \A i \in DOMAIN inbox'[s] :
          inbox'[s][i] = m \/ (i \in DOMAIN inbox[s] /\ inbox'[s][i] = inbox[s][i])
    BY <2>1, <2>3
  <2>6. \A i \in DOMAIN inbox'[s] : SessionOfToken(inbox'[s][i].tok) = s
    BY <2>1, <2>4, <2>5 DEF Addressed
  <2>7. QED BY <2>3, <2>6 DEF Addressed
<1>3. QED BY <1>1, <1>2

LEMMA EmptySent ==
  \A t \in Token, o \in Op :
    (\A s \in Session : inbox[s] = <<>>) => Sent(inbox, o, t) = {}
BY SessionType DEF Sent

LEMMA DeclareDelivery ==
  ASSUME DeliveryInv, NEW t \in Token, Declare(t)
  PROVE  DeliveryInv'
<1>1. Inv'
  BY DeclareInv DEF DeliveryInv
<1>2. Addressed'
  BY SendAddressed DEF DeliveryInv, Inv, Declare, Op
<1>3. /\ t \notin used /\ alive' = alive \cup {t} /\ used' = used \cup {t}
      /\ t \in Endpoint => NodeOf[t] \in alive
      /\ UNCHANGED <<phase, nodes, index>>
      /\ alive \subseteq used /\ used \subseteq Token
  BY DEF DeliveryInv, Inv, NetworkTypeOK, Declare, cache
<1>4. CASE phase # "running"
  <2>1. inbox' = inbox /\ \A s \in Session : inbox[s] = <<>>
    BY <1>4 DEF DeliveryInv, Starting, Declare, Send
  <2>2. Starting'
    BY <1>3, <1>4, <2>1 DEF DeliveryInv, Starting
  <2>3. \A u \in Token, o \in Op : Sent(inbox', o, u) = {}
    BY <2>1, EmptySent
  <2>4. PutThenDel'
    BY <2>3 DEF PutThenDel, Op
  <2>5. NodeFirst'
    BY <1>3, <2>3, EndpointWithNode DEF NodeFirst, Op, DeliveryInv
  <2>6. Foreseen'
    BY <1>3, <1>4 DEF Foreseen
  <2>7. QED BY <1>1, <1>2, <2>2, <2>4, <2>5, <2>6 DEF DeliveryInv
<1>5. CASE phase = "running"
  <2> DEFINE k == Len(inbox[SessionOfToken(t)]) + 1
  <2>1. /\ \A u \in Token, o \in Op : u # t \/ o # "put" => Sent(inbox', o, u) = Sent(inbox, o, u)
        /\ Sent(inbox', "put", t) = Sent(inbox, "put", t) \cup {k}
        /\ \A u \in Token, o \in Op : SessionOfToken(u) = SessionOfToken(t) =>
             \A i \in Sent(inbox, o, u) : i \in Nat /\ i < k
    <3>1. /\ inbox \in [Session -> Seq(Change)]
          /\ Added(inbox, inbox', "put", t)
      BY <1>5 DEF Added, DeliveryInv, Inv, NetworkTypeOK, Declare, Send
    <3>2. "put" \in Op
      BY DEF Op
    <3>3. QED BY <3>1, <3>2, SendSent
  <2> HIDE DEF k
  <2>2. Sent(inbox, "put", t) = {} /\ Sent(inbox, "del", t) = {}
    BY <1>3 DEF DeliveryInv, PutThenDel
  <2>3. Starting'
    BY <1>3, <1>5 DEF Starting
  <2>4. PutThenDel'
    BY <1>3, <2>1, <2>2 DEF DeliveryInv, PutThenDel, Op
  <2>5. NodeFirst'
    <3> SUFFICES ASSUME NEW e \in Endpoint
                 PROVE  /\ e \in used' => NodeOf[e] \in used'
                        /\ \A i \in Sent(inbox', "put", e) :
                             /\ \A j \in Sent(inbox', "del", NodeOf[e]) : i < j
                             /\ NodeOf[e] \notin alive' => Sent(inbox', "del", NodeOf[e]) # {}
      BY DEF NodeFirst
    <3>1. CASE e = t
      <4>1. NodeOf[e] \in alive /\ Sent(inbox, "del", NodeOf[e]) = {}
        BY <1>3, <3>1, EndpointWithNode DEF DeliveryInv, PutThenDel
      <4>2. QED BY <1>3, <2>1, <2>2, <3>1, <4>1, EndpointWithNode DEF Op
    <3>2. CASE NodeOf[e] = t
      <4>1. e \notin used
        BY <1>3, <3>2 DEF DeliveryInv, NodeFirst
      <4>2. Sent(inbox, "put", e) = {}
        BY <4>1, EndpointWithNode DEF DeliveryInv, PutThenDel
      <4>3. QED BY <1>3, <2>1, <3>2, <4>1, <4>2, EndpointWithNode DEF Op
    <3>3. CASE e # t /\ NodeOf[e] # t
      <4>1. /\ Sent(inbox', "put", e) = Sent(inbox, "put", e)
            /\ Sent(inbox', "del", NodeOf[e]) = Sent(inbox, "del", NodeOf[e])
        BY <2>1, <3>3, EndpointWithNode DEF Op
      <4>2. QED BY <1>3, <3>3, <4>1 DEF DeliveryInv, NodeFirst
    <3>4. QED BY <3>1, <3>2, <3>3
  <2>6. Foreseen'
    <3>1. \A u \in Token : u # t => (Standing(u)' <=> Standing(u)) /\ (Held(u)' <=> Held(u))
      BY <1>3, <2>1 DEF Standing, Held, Op
    <3>2. ~Standing(t) /\ ~Held(t)'
      BY <1>3, <2>1 DEF Standing, Held
    <3>3. \A e \in Endpoint : NodeOf[e] = t => ~Held(e)'
      BY <1>3, <2>1, <2>2, EndpointWithNode DEF DeliveryInv, NodeFirst, Held, Standing, Op
    <3>4. nodes \cup index \subseteq Token
      BY DEF DeliveryInv, Inv, CacheOK, CacheTypeOK, Token
    <3>5. QED BY <1>3, <1>5, <3>1, <3>2, <3>3, <3>4, EndpointWithNode DEF DeliveryInv, Foreseen, Token
  <2>7. QED BY <1>1, <1>2, <2>3, <2>4, <2>5, <2>6 DEF DeliveryInv
<1>6. QED BY <1>4, <1>5

LEMMA ForeseenKept ==
  ASSUME Inv, Foreseen, UNCHANGED <<nodes, index, phase>>,
         \A t \in Token : (Standing(t)' <=> Standing(t)) /\ (Held(t)' <=> Held(t))
  PROVE  Foreseen'
<1>1. nodes \cup index \subseteq Token
  BY DEF Inv, CacheOK, CacheTypeOK, Token
<1>2. QED BY <1>1, EndpointWithNode DEF Foreseen, Token

LEMMA UndeclareDelivery ==
  ASSUME DeliveryInv, NEW t \in Token, Undeclare(t)
  PROVE  DeliveryInv'
<1> DEFINE k == Len(inbox[SessionOfToken(t)]) + 1
<1>1. Inv'
  BY UndeclareInv DEF DeliveryInv
<1>2. Addressed'
  BY SendAddressed DEF DeliveryInv, Inv, Undeclare, Op
<1>3. /\ t \in alive /\ alive' = alive \ {t}
      /\ phase = "running"
      /\ UNCHANGED <<used, phase, nodes, index>>
      /\ alive \subseteq used
  BY DEF DeliveryInv, Inv, NetworkTypeOK, Undeclare, cache
<1>4. /\ \A u \in Token, o \in Op : u # t \/ o # "del" => Sent(inbox', o, u) = Sent(inbox, o, u)
      /\ Sent(inbox', "del", t) = Sent(inbox, "del", t) \cup {k}
      /\ \A u \in Token, o \in Op : SessionOfToken(u) = SessionOfToken(t) =>
           \A i \in Sent(inbox, o, u) : i \in Nat /\ i < k
  <2>1. /\ inbox \in [Session -> Seq(Change)]
        /\ Added(inbox, inbox', "del", t)
    BY <1>3 DEF Added, DeliveryInv, Inv, NetworkTypeOK, Undeclare, Send
  <2>2. "del" \in Op
    BY DEF Op
  <2>3. QED BY <2>1, <2>2, SendSent
<1> HIDE DEF k
<1>5. Sent(inbox, "del", t) = {}
  BY <1>3 DEF DeliveryInv, PutThenDel
<1>6. Starting'
  BY <1>3 DEF Starting
<1>7. PutThenDel'
  BY <1>3, <1>4, <1>5 DEF DeliveryInv, PutThenDel, Op
<1>8. NodeFirst'
  <2> SUFFICES ASSUME NEW e \in Endpoint
               PROVE  /\ e \in used' => NodeOf[e] \in used'
                      /\ \A i \in Sent(inbox', "put", e) :
                           /\ \A j \in Sent(inbox', "del", NodeOf[e]) : i < j
                           /\ NodeOf[e] \notin alive' => Sent(inbox', "del", NodeOf[e]) # {}
    BY DEF NodeFirst
  <2>1. Sent(inbox', "put", e) = Sent(inbox, "put", e)
    BY <1>4, EndpointWithNode DEF Op
  <2>2. CASE NodeOf[e] = t
    BY <1>3, <1>4, <1>5, <2>1, <2>2, EndpointWithNode DEF DeliveryInv, NodeFirst, Op
  <2>3. CASE NodeOf[e] # t
    <3>1. Sent(inbox', "del", NodeOf[e]) = Sent(inbox, "del", NodeOf[e])
      BY <1>4, <2>3, EndpointWithNode DEF Op
    <3>2. QED BY <1>3, <2>1, <2>3, <3>1 DEF DeliveryInv, NodeFirst
  <2>4. QED BY <2>2, <2>3
<1>9. Foreseen'
  <2>1. \A u \in Token : (Standing(u)' <=> Standing(u)) /\ (Held(u)' <=> Held(u))
    BY <1>3, <1>4 DEF Standing, Held, Op
  <2>2. QED BY <1>3, <2>1, ForeseenKept DEF DeliveryInv
<1>10. QED BY <1>1, <1>2, <1>6, <1>7, <1>8, <1>9 DEF DeliveryInv

LEMMA TokensSame ==
  ASSUME DeliveryInv, UNCHANGED <<alive, used, inbox>>
  PROVE  /\ Addressed' /\ PutThenDel' /\ NodeFirst'
         /\ \A t \in Token : (Standing(t)' <=> Standing(t)) /\ (Held(t)' <=> Held(t))
BY DEF DeliveryInv, Addressed, PutThenDel, NodeFirst, Standing, Held

LEMMA NodesAdded ==
  ASSUME DeliveryInv, phase # "running", AddToCache(alive)
  PROVE  /\ nodes' = nodes \cup (alive \cap Node)
         /\ index' = index \cup (alive \cap Endpoint)
         /\ nodes' \subseteq used /\ index' \subseteq used
<1>1. \A e \in alive \cap Endpoint : NodeOf[e] \in alive \cap Node
  BY GraphCacheAssumption DEF DeliveryInv, Starting, NodeFirst
<1>2. QED BY <1>1 DEF AddToCache, DeliveryInv, Starting

LEMMA QueryDelivery == ASSUME DeliveryInv, Query PROVE DeliveryInv'
<1>1. Inv'
  BY QueryInv DEF DeliveryInv
<1>2. Addressed' /\ PutThenDel' /\ NodeFirst'
  BY TokensSame DEF Query
<1>3. Starting'
  BY NodesAdded DEF Query, DeliveryInv, Starting
<1>4. Foreseen'
  BY DEF Query, Foreseen
<1>5. QED BY <1>1, <1>2, <1>3, <1>4 DEF DeliveryInv

\* The history is one put of every token there is.
LEMMA HistorySent ==
  ASSUME Inv, Subscribe
  PROVE  /\ Addressed'
         /\ \A t \in Token :
              /\ Sent(inbox', "del", t) = {}
              /\ Sent(inbox', "put", t) # {} <=> t \in alive
              /\ \A i, j \in Sent(inbox', "put", t) : i = j
<1>1. ASSUME NEW s \in Session
      PROVE  /\ \A i \in DOMAIN inbox'[s] :
                  /\ inbox'[s][i].op = "put" /\ inbox'[s][i].tok \in alive
                  /\ SessionOfToken(inbox'[s][i].tok) = s
             /\ \A t \in alive : SessionOfToken(t) = s =>
                  \E i \in DOMAIN inbox'[s] : inbox'[s][i] = [op |-> "put", tok |-> t]
             /\ \A i, j \in DOMAIN inbox'[s] : inbox'[s][i] = inbox'[s][j] => i = j
  <2>1. PICK k \in Nat : \E h :
          Lists(s, k, h) /\ inbox'[s] = [i \in 1..k |-> [op |-> "put", tok |-> h[i]]]
    BY SubscribeHistory DEF History, Inv
  <2>2. PICK h : Lists(s, k, h) /\ inbox'[s] = [i \in 1..k |-> [op |-> "put", tok |-> h[i]]]
    BY <2>1
  <2>3. /\ DOMAIN inbox'[s] = 1..k
        /\ \A i \in 1..k : /\ inbox'[s][i] = [op |-> "put", tok |-> h[i]]
                           /\ inbox'[s][i].tok = h[i]
    BY <2>2
  <2>4. QED BY <2>2, <2>3 DEF Lists
<1>2. Addressed'
  BY <1>1 DEF Addressed
<1>3. ASSUME NEW t \in Token
      PROVE  /\ Sent(inbox', "del", t) = {}
             /\ Sent(inbox', "put", t) # {} <=> t \in alive
             /\ \A i, j \in Sent(inbox', "put", t) : i = j
  <2>1. SessionOfToken(t) \in Session
    BY SessionType
  <2>2. \A o : [op |-> o, tok |-> t].op = o /\ [op |-> o, tok |-> t].tok = t
    OBVIOUS
  <2>3. QED BY <1>1, <2>1, <2>2 DEF Sent
<1>4. QED BY <1>2, <1>3

LEMMA SubscribeDelivery == ASSUME DeliveryInv, Subscribe PROVE DeliveryInv'
<1>1. Inv'
  BY SubscribeInv DEF DeliveryInv
<1>2. /\ UNCHANGED <<alive, used, nodes, index>>
      /\ phase # "running" /\ phase' = "running"
      /\ alive = used /\ nodes \subseteq used /\ index \subseteq used /\ used \subseteq Token
  BY DEF Subscribe, DeliveryInv, Starting, cache, Inv, NetworkTypeOK
<1>3. /\ Addressed'
      /\ \A t \in Token :
           /\ Sent(inbox', "del", t) = {}
           /\ Sent(inbox', "put", t) # {} <=> t \in alive
           /\ \A i, j \in Sent(inbox', "put", t) : i = j
  BY HistorySent DEF DeliveryInv
<1>4. Starting'
  BY <1>2 DEF Starting
<1>5. PutThenDel'
  BY <1>2, <1>3 DEF PutThenDel
<1>6. NodeFirst'
  BY <1>2, <1>3, EndpointWithNode DEF DeliveryInv, NodeFirst
<1>7. Foreseen'
  <2>1. \A t \in Token : ~Held(t)' /\ (Standing(t)' <=> t \in used)
    BY <1>2, <1>3 DEF Standing, Held
  <2>2. QED BY <1>2, <2>1 DEF Foreseen, Token
<1>8. QED BY <1>1, <1>3, <1>4, <1>5, <1>6, <1>7 DEF DeliveryInv

LEMMA UnchangedDelivery ==
  ASSUME DeliveryInv, Inv', UNCHANGED <<network, nodes, index>>
  PROVE  DeliveryInv'
<1>1. UNCHANGED <<alive, used, inbox, phase, nodes, index>>
  BY DEF network
<1>2. /\ Addressed' /\ PutThenDel' /\ NodeFirst'
      /\ \A t \in Token : (Standing(t)' <=> Standing(t)) /\ (Held(t)' <=> Held(t))
  BY <1>1, TokensSame
<1>3. Starting'
  BY <1>1 DEF DeliveryInv, Starting
<1>4. Foreseen'
  BY <1>1, <1>2, ForeseenKept DEF DeliveryInv
<1>5. QED BY <1>2, <1>3, <1>4 DEF DeliveryInv

LEMMA AppliedFirst ==
  ASSUME DeliveryInv, NEW s \in Session, NEW i \in DOMAIN inbox[s], UpdateGraphCache(s, i)
  PROVE  /\ i = 1 /\ inbox[s] # <<>> /\ inbox[s][1] \in Change
         /\ SessionOfToken(inbox[s][1].tok) = s
         /\ Applied(inbox, inbox', s)
         /\ phase = "running"
         /\ UNCHANGED <<alive, used, phase>>
<1>1. i = 1
  BY DEF UpdateGraphCache, DeliveryInv
<1>2. inbox[s] \in Seq(Change)
  BY DEF DeliveryInv, Inv, NetworkTypeOK
<1>3. inbox[s] # <<>> /\ inbox[s][1] \in Change
  BY <1>1, <1>2
<1>4. SessionOfToken(inbox[s][1].tok) = s
  BY <1>1 DEF DeliveryInv, Addressed
<1>5. 1 - 1 = 0 /\ 1 + 1 = 2
  OBVIOUS
<1>6. Applied(inbox, inbox', s)
  BY <1>1, <1>5 DEF UpdateGraphCache, Applied
<1>7. phase = "running"
  BY <1>3 DEF DeliveryInv, Starting
<1>8. QED BY <1>1, <1>3, <1>4, <1>6, <1>7 DEF UpdateGraphCache

LEMMA AppliedAddressed ==
  ASSUME NetworkTypeOK, Addressed, NEW s \in Session, inbox[s] # <<>>, Applied(inbox, inbox', s)
  PROVE  Addressed'
<1>1. /\ \A r \in Session : r # s => inbox'[r] = inbox[r]
      /\ inbox'[s] = SubSeq(inbox[s], 1, 0) \o SubSeq(inbox[s], 2, Len(inbox[s]))
  BY DEF NetworkTypeOK, Applied
<1> DEFINE q == inbox[s]
           T == {m \in Change : SessionOfToken(m.tok) = s}
<1>2. q \in Seq(Change) /\ \A i \in 1..Len(q) : q[i] \in T
  BY DEF NetworkTypeOK, Addressed
<1>3. Len(q) \in Nat
  BY <1>2
<1> HIDE DEF q, T
<1>4. SubSeq(q, 1, 0) \in Seq(T) /\ SubSeq(q, 2, Len(q)) \in Seq(T)
  BY <1>2, <1>3, SubSeqProperties
<1>5. inbox'[s] \in Seq(T)
  BY <1>1, <1>4, ConcatProperties DEF q
<1>6. \A i \in DOMAIN inbox'[s] : inbox'[s][i] \in T
  BY <1>5
<1>7. \A i \in DOMAIN inbox'[s] : SessionOfToken(inbox'[s][i].tok) = s
  BY <1>6 DEF T
<1>8. QED BY <1>1, <1>7 DEF Addressed

LEMMA UpdateDelivery ==
  ASSUME DeliveryInv, NEW s \in Session, NEW i \in DOMAIN inbox[s], UpdateGraphCache(s, i)
  PROVE  DeliveryInv'
<1> DEFINE m == inbox[s][1]
           b == inbox
           c == inbox'
<1>1. /\ i = 1 /\ b[s] # <<>> /\ m \in Change /\ SessionOfToken(m.tok) = s
      /\ Applied(b, c, s)
      /\ phase = "running" /\ UNCHANGED <<alive, used, phase>>
  BY AppliedFirst
<1>2. Inv' /\ Starting'
  BY <1>1, UpdateGraphCacheInv DEF DeliveryInv, Starting
<1>3. Addressed'
  BY <1>1, AppliedAddressed DEF DeliveryInv, Inv
<1>4. /\ \A u \in Token, o \in Op : SessionOfToken(u) # s => Sent(c, o, u) = Sent(b, o, u)
      /\ \A u \in Token, o \in Op : SessionOfToken(u) = s =>
           /\ \A j \in Sent(b, o, u) : j \in Nat /\ j >= 1
           /\ \A j \in Sent(c, o, u) : j \in Nat /\ j >= 1 /\ j + 1 \in Sent(b, o, u)
           /\ \A j \in Sent(b, o, u) : j # 1 => j - 1 \in Sent(c, o, u)
           /\ 1 \in Sent(b, o, u) <=> m = [op |-> o, tok |-> u]
  <2>1. b \in [Session -> Seq(Change)]
    BY DEF DeliveryInv, Inv, NetworkTypeOK
  <2>2. b[s] # <<>> /\ Applied(b, c, s) /\ m = b[s][1]
    BY <1>1
  <2> HIDE DEF b, c, m
  <2>3. QED BY <2>1, <2>2, DeliverSent
<1>5. m.tok \in Token /\ m.op \in Op /\ m = [op |-> m.op, tok |-> m.tok]
  BY <1>1 DEF Change, Op
<1>6. \A u \in Token, o \in Op : m = [op |-> o, tok |-> u] <=> m.tok = u /\ m.op = o
  BY <1>5
<1> DEFINE t == m.tok
<1> HIDE DEF m, b, c, t
<1>7. \A u \in Token : u # t =>
        /\ Sent(c, "put", u) = {} <=> Sent(b, "put", u) = {}
        /\ Sent(c, "del", u) = {} <=> Sent(b, "del", u) = {}
  <2> SUFFICES ASSUME NEW u \in Token, NEW o \in Op, u # t
               PROVE  Sent(c, o, u) = {} <=> Sent(b, o, u) = {}
    BY DEF Op
  <2>1. CASE SessionOfToken(u) # s
    BY <1>4, <2>1
  <2>2. CASE SessionOfToken(u) = s
    <3>1. 1 \notin Sent(b, o, u)
      BY <1>4, <1>6, <2>2 DEF t
    <3>2. QED BY <1>4, <2>2, <3>1
  <2>3. QED BY <2>1, <2>2
<1>8. PutThenDel'
  <2> SUFFICES ASSUME NEW u \in Token
               PROVE  /\ \A j \in Sent(c, "put", u) :
                           /\ u \in used
                           /\ \A k \in Sent(c, "put", u) : j = k
                           /\ \A k \in Sent(c, "del", u) : j < k
                           /\ u \notin alive => Sent(c, "del", u) # {}
                      /\ \A j, k \in Sent(c, "del", u) : u \in used \ alive /\ j = k
    BY <1>1 DEF PutThenDel, c
  <2>1. /\ \A j \in Sent(b, "put", u) :
             /\ u \in used
             /\ \A k \in Sent(b, "put", u) : j = k
             /\ \A k \in Sent(b, "del", u) : j < k
             /\ u \notin alive => Sent(b, "del", u) # {}
        /\ \A j, k \in Sent(b, "del", u) : u \in used \ alive /\ j = k
    BY DEF DeliveryInv, PutThenDel, b
  <2>2. CASE SessionOfToken(u) # s
    BY <1>4, <2>1, <2>2 DEF Op
  <2>3. CASE SessionOfToken(u) = s
    <3>1. \A o \in Op : /\ \A j \in Sent(c, o, u) : j \in Nat /\ j >= 1 /\ j + 1 \in Sent(b, o, u)
                        /\ \A j \in Sent(b, o, u) : j \in Nat /\ j >= 1
                        /\ \A j \in Sent(b, o, u) : j # 1 => j - 1 \in Sent(c, o, u)
      BY <1>4, <2>3
    <3>2. ASSUME NEW j \in Sent(c, "put", u)
          PROVE  /\ u \in used
                 /\ \A k \in Sent(c, "put", u) : j = k
                 /\ \A k \in Sent(c, "del", u) : j < k
                 /\ u \notin alive => Sent(c, "del", u) # {}
      <4>1. j \in Nat /\ j + 1 \in Sent(b, "put", u) /\ j >= 1
        BY <3>1 DEF Op
      <4>2. \A k \in Sent(c, "put", u) : j = k
        BY <2>1, <3>1, <4>1 DEF Op
      <4>3. \A k \in Sent(c, "del", u) : j < k
        BY <2>1, <3>1, <4>1 DEF Op
      <4>4. ASSUME u \notin alive PROVE Sent(c, "del", u) # {}
        <5>1. PICK k \in Sent(b, "del", u) : k > j + 1
          BY <2>1, <3>1, <4>1, <4>4 DEF Op
        <5>2. k # 1 /\ k \in Nat
          BY <3>1, <4>1, <5>1 DEF Op
        <5>3. QED BY <3>1, <5>2 DEF Op
      <4>5. QED BY <2>1, <4>1, <4>2, <4>3, <4>4
    <3>3. \A j, k \in Sent(c, "del", u) : u \in used \ alive /\ j = k
      BY <2>1, <3>1 DEF Op
    <3>4. QED BY <3>2, <3>3
  <2>4. QED BY <2>2, <2>3
<1>9. NodeFirst'
  <2> SUFFICES ASSUME NEW e \in Endpoint
               PROVE  \A j \in Sent(c, "put", e) :
                        /\ \A k \in Sent(c, "del", NodeOf[e]) : j < k
                        /\ NodeOf[e] \notin alive => Sent(c, "del", NodeOf[e]) # {}
    BY <1>1 DEF DeliveryInv, NodeFirst, c
  <2> DEFINE n == NodeOf[e]
  <2>1. e \in Token /\ n \in Token /\ SessionOfToken(e) = SessionOfToken(n)
    BY EndpointWithNode
  <2>2. \A j \in Sent(b, "put", e) :
          /\ \A k \in Sent(b, "del", n) : j < k
          /\ n \notin alive => Sent(b, "del", n) # {}
    BY DEF DeliveryInv, NodeFirst, b
  <2> HIDE DEF n
  <2>3. CASE SessionOfToken(e) # s
    BY <1>4, <2>1, <2>2, <2>3 DEF Op, n
  <2>4. CASE SessionOfToken(e) = s
    <3>1. \A o \in Op : \A u \in {e, n} :
            /\ \A j \in Sent(c, o, u) : j \in Nat /\ j >= 1 /\ j + 1 \in Sent(b, o, u)
            /\ \A j \in Sent(b, o, u) : j \in Nat /\ j >= 1
            /\ \A j \in Sent(b, o, u) : j # 1 => j - 1 \in Sent(c, o, u)
      BY <1>4, <2>1, <2>4
    <3>3. ASSUME NEW j \in Sent(c, "put", e)
          PROVE  /\ \A k \in Sent(c, "del", n) : j < k
                 /\ n \notin alive => Sent(c, "del", n) # {}
      <4>1. j \in Nat /\ j >= 1 /\ j + 1 \in Sent(b, "put", e)
        BY <3>1 DEF Op
      <4>3. \A k \in Sent(c, "del", n) : j < k
        BY <2>2, <3>1, <4>1 DEF Op
      <4>4. ASSUME n \notin alive PROVE Sent(c, "del", n) # {}
        <5>1. PICK k \in Sent(b, "del", n) : k > j + 1
          BY <2>2, <3>1, <4>1, <4>4 DEF Op
        <5>2. k # 1 /\ k \in Nat
          BY <3>1, <4>1, <5>1 DEF Op
        <5>3. QED BY <3>1, <5>2 DEF Op
      <4>5. QED BY <4>3, <4>4
    <3>4. QED BY <3>3 DEF n
  <2>5. QED BY <2>3, <2>4
<1>10. Foreseen'
  <2>0. PICK w : w = t
    OBVIOUS
  <2> DEFINE stands(x, u) == u \in used /\ (u \in alive \/ Sent(x, "del", u) # {})
  <2>1. \A u \in Token :
          /\ Standing(u) <=> stands(b, u)
          /\ Standing(u)' <=> stands(c, u)
          /\ Held(u) <=> stands(b, u) /\ Sent(b, "put", u) = {}
          /\ Held(u)' <=> stands(c, u) /\ Sent(c, "put", u) = {}
    BY <1>1 DEF Standing, Held, b, c
  <2>2. \A u \in Token : u # w => (Standing(u)' <=> Standing(u)) /\ (Held(u)' <=> Held(u))
    BY <1>7, <2>0, <2>1
  <2> HIDE DEF stands
  <2>3. /\ \A u \in nodes \cup index : Standing(u)
        /\ \A n \in Node : Held(n) => n \in nodes
        /\ \A e \in Endpoint : Held(e) /\ Standing(NodeOf[e]) => e \in index
        /\ nodes \cup index \subseteq Token
    BY <1>1 DEF DeliveryInv, Foreseen, Inv, CacheOK, CacheTypeOK, Token
  <2>4. w \in Token /\ 1 \in Sent(b, m.op, w) /\ SessionOfToken(w) = s
    BY <1>1, <1>4, <1>5, <2>0 DEF t
  <2>5. CASE m.op = "put"
    <3>1. 1 \in Sent(b, "put", w)
      BY <2>4, <2>5
    <3>2. w \in used /\ (w \notin alive => Sent(b, "del", w) # {})
          /\ \A k \in Sent(b, "del", w) : 1 < k
      BY <2>4, <3>1 DEF DeliveryInv, PutThenDel, b
    <3>3. w \notin alive => Sent(c, "del", w) # {}
      BY <1>4, <2>4, <3>2 DEF Op
    <3>4. Standing(w) /\ Standing(w)'
      BY <2>1, <2>4, <3>2, <3>3 DEF stands
    <3>5. AddToCache({w})
      BY <1>1, <2>0, <2>5 DEF UpdateGraphCache, ParsePut, m, t
    <3>6. \A u \in Token : (Standing(u)' <=> Standing(u)) /\ (u # w => (Held(u)' <=> Held(u)))
      BY <2>2, <3>4
    <3>7. CASE w \in Node
      <4>1. nodes' = nodes \cup {w} /\ index' = index /\ w \notin Endpoint
        BY <3>5, <3>7, GraphCacheAssumption DEF AddToCache
      <4>2. QED BY <2>3, <3>4, <3>6, <4>1, EndpointWithNode DEF Foreseen, Token
    <3>8. CASE w \in Endpoint
      <4>1. nodes' = nodes \cup {NodeOf[w]} /\ index' = index \cup {w} /\ w \notin Node
        BY <3>5, <3>8, GraphCacheAssumption DEF AddToCache
      <4>2. Standing(NodeOf[w])
        <5>1. /\ NodeOf[w] \notin alive => Sent(b, "del", NodeOf[w]) # {}
              /\ NodeOf[w] \in used
          BY <3>1, <3>2, <3>8 DEF DeliveryInv, NodeFirst, b
        <5>2. QED BY <2>1, <3>8, <5>1, EndpointWithNode DEF stands
      <4>3. \A u \in nodes' \cup index' : Standing(u)'
        BY <2>3, <2>4, <3>4, <3>6, <3>8, <4>1, <4>2, EndpointWithNode
      <4>4. \A n \in Node : Held(n)' => n \in nodes'
        BY <2>3, <3>6, <4>1 DEF Token
      <4>5. \A e \in Endpoint : Held(e)' /\ Standing(NodeOf[e])' => e \in index'
        BY <2>3, <3>6, <4>1, EndpointWithNode
      <4>6. QED BY <4>3, <4>4, <4>5 DEF Foreseen
    <3>9. QED BY <2>4, <3>7, <3>8 DEF Token
  <2>6. CASE m.op = "del"
    <3>1. 1 \in Sent(b, "del", w)
      BY <2>4, <2>6
    <3>2. ~Standing(w)'
      <4>1. w \in used /\ w \notin alive /\ \A j \in Sent(b, "del", w) : j = 1
        BY <2>4, <3>1 DEF DeliveryInv, PutThenDel, b
      <4>2. Sent(c, "del", w) = {}
        BY <1>4, <2>4, <4>1 DEF Op
      <4>3. QED BY <2>1, <2>4, <4>1, <4>2 DEF stands
    <3>3. ~Held(w)'
      BY <3>2 DEF Held
    <3>4. CASE w \in Endpoint
      <4>1. ParseDelEndpoint(w) /\ w \notin Node
        BY <1>1, <2>0, <2>6, <3>4, GraphCacheAssumption DEF UpdateGraphCache, m, t
      <4>2. nodes' = nodes /\ index' = index \ {w}
        <5>1. w \in index => \E f \in index : SameTopicData(w, f)
          BY DEF SameTopicData, SameTopic
        <5>2. w \in index => NodeOf[w] \in nodes
          BY <3>4, GraphCacheAssumption
             DEF DeliveryInv, Inv, CacheOK, IndexMatchesNodes
        <5>3. QED BY <4>1, <5>1, <5>2 DEF ParseDelEndpoint
      <4>3. w \notin nodes
        BY <4>1 DEF DeliveryInv, Inv, CacheOK, CacheTypeOK
      <4>4. QED BY <2>2, <2>3, <3>3, <3>4, <4>1, <4>2, <4>3, EndpointWithNode,
                   GraphCacheAssumption DEF Foreseen, Token
    <3>5. CASE w \in Node
      <4>1. ParseDelNode(w) /\ w \notin Endpoint
        BY <1>1, <2>0, <2>6, <3>5, GraphCacheAssumption DEF UpdateGraphCache, m, t
      <4>2. nodes' = nodes \ {w} /\ index' = {e \in index : NodeOf[e] # w}
        <5>1. index = {e \in Endpoint : e \in ents[NodeOf[e]]}
              /\ ents[w] \subseteq {e \in Endpoint : NodeOf[e] = w}
              /\ (w \notin nodes => ents[w] = {})
          BY <3>5 DEF DeliveryInv, Inv, CacheOK, IndexMatchesNodes, EndpointsOf
        <5>2. CASE w \in nodes
          <6>1. nodes' = nodes \ {w} /\ index' = index \ ents[w]
            BY <4>1, <5>2 DEF ParseDelNode
          <6>2. QED BY <5>1, <6>1
        <5>3. CASE w \notin nodes
          <6>1. nodes' = nodes /\ index' = index
            BY <4>1, <5>3 DEF ParseDelNode, cache
          <6>2. QED BY <5>1, <5>3, <6>1
        <5>4. QED BY <5>2, <5>3
      <4>3. w \notin index
        BY <4>1 DEF DeliveryInv, Inv, CacheOK, CacheTypeOK
      <4>4. QED BY <2>2, <2>3, <3>2, <3>3, <3>5, <4>1, <4>2, <4>3, EndpointWithNode,
                   GraphCacheAssumption DEF Foreseen, Token
    <3>6. QED BY <2>4, <3>4, <3>5 DEF Token
  <2>7. QED BY <1>5, <2>5, <2>6 DEF Op
<1>11. QED BY <1>2, <1>3, <1>8, <1>9, <1>10, <1>1 DEF DeliveryInv

LEMMA InitDelivery == Init /\ Ordered /\ CalmStart => DeliveryInv
<1> SUFFICES ASSUME Init, Ordered, CalmStart PROVE DeliveryInv
  OBVIOUS
<1>1. \A s \in Session : inbox[s] = <<>>
  BY DEF Init
<1>2. \A t \in Token, o \in Op : Sent(inbox, o, t) = {}
  BY <1>1, EmptySent
<1>3. PutThenDel
  BY <1>2 DEF PutThenDel, Op
<1>4. NodeFirst
  BY <1>2, EndpointWithNode DEF NodeFirst, Op, Init
<1>5. Addressed /\ Starting /\ Foreseen
  BY <1>1 DEF Init, Addressed, Starting, Foreseen
<1>6. QED BY <1>3, <1>4, <1>5, InitInv DEF DeliveryInv

LEMMA StepDelivery == DeliveryInv /\ [Next]_vars => DeliveryInv'
<1> SUFFICES ASSUME DeliveryInv, [Next]_vars PROVE DeliveryInv'
  OBVIOUS
<1>1. Inv'
  BY StepInv DEF DeliveryInv
<1>2. ASSUME NEW t \in Token, Declare(t) \/ Undeclare(t) PROVE DeliveryInv'
  BY <1>2, DeclareDelivery, UndeclareDelivery
<1>3. ASSUME NEW e \in Local, SetQosEventCallback(e) PROVE DeliveryInv'
  BY <1>1, <1>3, UnchangedDelivery DEF SetQosEventCallback, cache
<1>4. CASE Query
  BY <1>4, QueryDelivery
<1>5. CASE Subscribe
  BY <1>5, SubscribeDelivery
<1>6. ASSUME NEW s \in Session, NEW i \in DOMAIN inbox[s], UpdateGraphCache(s, i)
      PROVE DeliveryInv'
  BY <1>6, UpdateDelivery
<1>7. CASE UNCHANGED vars
  BY <1>1, <1>7, UnchangedDelivery DEF vars, cache
<1>8. QED BY <1>2, <1>3, <1>4, <1>5, <1>6, <1>7 DEF Next

\* What is shown while the context runs, once no put is on its way.
LEMMA HeldIsShown ==
  ASSUME DeliveryInv, phase = "running", \A t \in Token : Standing(t) <=> Held(t)
  PROVE  /\ nodes = {n \in Node : Held(n)}
         /\ index = {e \in Endpoint : Held(e) /\ Held(NodeOf[e])}
<1>1. /\ nodes \subseteq Node /\ index \subseteq Endpoint
      /\ \A e \in index : NodeOf[e] \in nodes
  BY GraphCacheAssumption DEF DeliveryInv, Inv, CacheOK, CacheTypeOK, IndexMatchesNodes
<1>2. QED BY <1>1, EndpointWithNode DEF DeliveryInv, Foreseen, Token

\* When the network delivers the changes of each session in order, and nothing
\* leaves while the context starts, a cache that has been told of everything
\* has the nodes that are alive and their endpoints, for every network.
THEOREM CacheConverges == Ordered /\ CalmStart /\ Spec => []Converges
<1>1. DeliveryInv => Converges
  <2> SUFFICES ASSUME DeliveryInv, Quiet PROVE Converges
    BY DEF Converges
  <2>1. \A t \in Token, o \in Op : Sent(inbox, o, t) = {}
    BY EmptySent DEF Quiet
  <2>2. alive \subseteq used
    BY DEF DeliveryInv, Inv, NetworkTypeOK
  <2>3. \A t \in Token : (Held(t) <=> t \in alive) /\ (Standing(t) <=> t \in alive)
    BY <2>1, <2>2 DEF Standing, Held, Op
  <2>4. /\ nodes = {n \in Node : Held(n)}
        /\ index = {e \in Endpoint : Held(e) /\ Held(NodeOf[e])}
    BY <2>3, HeldIsShown DEF Quiet
  <2>5. QED BY <2>3, <2>4, EndpointWithNode DEF Converges, Token
<1>2. QED BY <1>1, InitDelivery, StepDelivery, PTL DEF Spec

-----------------------------------------------------------------------------
(* Matched counts, on topics whose endpoints have one QoS profile and one    *)
(* key expression.                                                           *)

Uniform ==
  \A e, f \in Endpoint :
    SameTopic(e, f) => QosOf[e] = QosOf[f] /\ KeyexprOf[e] = KeyexprOf[f]

\* The put of e has not been applied yet.
Fresh(e) == e \notin used \/ Sent(inbox, "put", e) # {}

Counted(e) ==
  /\ e \in index => Told(e) = Cardinality(Peers(e)) + Cardinality(recounted[e])
  /\ Fresh(e) => e \notin index /\ Told(e) = 0 /\ recounted[e] = {}
  /\ \A t \in recounted[e] : ~Fresh(t)

MatchInv ==
  /\ DeliveryInv /\ Uniform
  /\ phase # "running" => Local \cap used = {}
  /\ \A e \in Local : IsTopic(e) => Counted(e)

LEMMA MatchesFacts ==
  \A e, f \in Endpoint :
    /\ Matches(e, f) <=> Matches(f, e)
    /\ ~Matches(e, e)
    /\ Matches(e, f) => /\ IsTopic(e) <=> IsTopic(f)
                        /\ SameTopic(e, f)
BY GraphCacheAssumption DEF Matches, SameTopic, Opposite, Role, IsTopic

LEMMA PeersType ==
  ASSUME CacheTypeOK, NEW e \in Endpoint
  PROVE  Peers(e) \subseteq Endpoint /\ IsFiniteSet(Peers(e)) /\ Cardinality(Peers(e)) \in Nat
<1>1. Peers(e) \subseteq Endpoint
  BY DEF CacheTypeOK, Peers
<1>2. QED BY <1>1, FiniteParts

LEMMA LocalEndpoint == \A e \in Local : e \in Endpoint /\ e \in Token
BY DEF Local, Token

\* With one profile on the topic the loop over the profiles counts each peer once.
LEMMA CountedOnce ==
  ASSUME CacheTypeOK, Uniform, NEW e \in Endpoint, NEW rank \in [Qos -> 1..Cardinality(Qos)]
  PROVE  MatchCountForEntity(e, rank) = Cardinality(Peers(e))
<1> DEFINE profiles == {QosOf[f] : f \in {g \in index : SameTopic(e, g)}}
           counted == {p \in Peers(e) \X profiles : rank[QosOf[p[1]]] <= rank[p[2]]}
<1>1. /\ index \subseteq Endpoint /\ Peers(e) \subseteq Endpoint /\ IsFiniteSet(Peers(e))
      /\ Cardinality(Peers(e)) \in Nat
  BY PeersType DEF CacheTypeOK
<1>2. MatchCountForEntity(e, rank) = Cardinality(counted)
  BY DEF MatchCountForEntity
<1>3. \A f \in index : SameTopic(e, f) => QosOf[f] = QosOf[e]
  BY <1>1 DEF Uniform
<1>4. profiles \subseteq {QosOf[e]}
  BY <1>3
<1>5. \A f \in Peers(e) : f \in index /\ SameTopic(e, f) /\ QosOf[f] = QosOf[e]
  BY <1>3 DEF Peers, Matches
<1>6. CASE Peers(e) = {}
  <2>1. counted = {}
    BY <1>6
  <2>2. QED BY <1>2, <1>6, <2>1, FS_EmptySet
<1>7. CASE Peers(e) # {}
  <2>1. profiles = {QosOf[e]}
    BY <1>4, <1>5, <1>7
  <2>2. rank[QosOf[e]] <= rank[QosOf[e]]
    <3>1. rank[QosOf[e]] \in 1..Cardinality(Qos) /\ Cardinality(Qos) \in Nat
      BY GraphCacheAssumption, FS_CardinalityType
    <3>2. QED BY <3>1
  <2>3. counted = Peers(e) \X {QosOf[e]}
    BY <1>5, <2>1, <2>2
  <2>4. IsFiniteSet({QosOf[e]}) /\ Cardinality({QosOf[e]}) = 1
    BY FS_Singleton
  <2>5. Cardinality(Peers(e) \X {QosOf[e]}) = Cardinality(Peers(e)) * 1
    BY <1>1, <2>4, FS_Product
  <2>6. Cardinality(Peers(e)) * 1 = Cardinality(Peers(e))
    BY <1>1
  <2> HIDE DEF counted
  <2>7. QED BY <1>2, <2>3, <2>5, <2>6
<1>8. QED BY <1>6, <1>7

LEMMA CountersAdded ==
  ASSUME EventsTypeOK, NEW change, UpdateEventCounters(change), NEW e \in Local, change[e] \in Int
  PROVE  /\ Told(e) \in Int
         /\ Told(e)' = Told(e) + change[e]
<1>1. delivered[e] \in Int /\ pending[e] \in Int
  BY DEF EventsTypeOK
<1>2. /\ delivered'[e] = delivered[e] + IF e \in registered THEN change[e] ELSE 0
      /\ pending'[e] = pending[e] + IF e \in registered THEN 0 ELSE change[e]
  BY DEF UpdateEventCounters
<1>3. QED BY <1>1, <1>2 DEF Told

\* The first change of a token that is applied: the only put of it there is, or
\* the del of what is held.
LEMMA FirstIsNews ==
  ASSUME DeliveryInv, NEW s \in Session, NEW i \in DOMAIN inbox[s], UpdateGraphCache(s, i),
         NEW t, t = inbox[s][i].tok
  PROVE  /\ t \in Token
         /\ inbox[s][i].op = "put" => Fresh(t) /\ ~Fresh(t)'
         /\ inbox[s][i].op = "del" => Held(t)
         /\ \A u \in Token : Fresh(u)' => Fresh(u)
<1> DEFINE m == inbox[s][1]
           b == inbox
           c == inbox'
<1>1. /\ i = 1 /\ b[s] # <<>> /\ m \in Change /\ SessionOfToken(m.tok) = s
      /\ Applied(b, c, s) /\ UNCHANGED used
  BY AppliedFirst
<1>2. /\ \A u \in Token, o \in Op : SessionOfToken(u) # s => Sent(c, o, u) = Sent(b, o, u)
      /\ \A u \in Token, o \in Op : SessionOfToken(u) = s =>
           /\ \A j \in Sent(b, o, u) : j \in Nat /\ j >= 1
           /\ \A j \in Sent(c, o, u) : j \in Nat /\ j >= 1 /\ j + 1 \in Sent(b, o, u)
           /\ \A j \in Sent(b, o, u) : j # 1 => j - 1 \in Sent(c, o, u)
           /\ 1 \in Sent(b, o, u) <=> m = [op |-> o, tok |-> u]
  <2>1. b \in [Session -> Seq(Change)]
    BY DEF DeliveryInv, Inv, NetworkTypeOK
  <2>2. b[s] # <<>> /\ Applied(b, c, s) /\ m = b[s][1]
    BY <1>1
  <2> HIDE DEF b, c, m
  <2>3. QED BY <2>1, <2>2, DeliverSent
<1>3. m.tok \in Token /\ m.op \in Op /\ m = [op |-> m.op, tok |-> m.tok]
  BY <1>1 DEF Change, Op
<1>4. m.tok = t
  BY <1>1
<1> HIDE DEF m, b, c
<1>5. t \in Token /\ SessionOfToken(t) = s /\ 1 \in Sent(b, m.op, t)
  BY <1>1, <1>2, <1>3, <1>4
<1>6. ASSUME NEW u \in Token, Sent(c, "put", u) # {} PROVE Sent(b, "put", u) # {}
  BY <1>2, <1>6 DEF Op
<1>7. \A u \in Token : Fresh(u)' => Fresh(u)
  BY <1>1, <1>6 DEF Fresh, b, c
<1>8. ASSUME m.op = "put" PROVE Fresh(t) /\ ~Fresh(t)'
  <2>1. 1 \in Sent(b, "put", t)
    BY <1>5, <1>8
  <2>2. t \in used /\ \A j \in Sent(b, "put", t) : j = 1
    BY <1>5, <2>1 DEF DeliveryInv, PutThenDel, b
  <2>3. Sent(c, "put", t) = {}
    BY <1>2, <1>5, <2>2 DEF Op
  <2>4. Fresh(t)
    BY <2>1 DEF Fresh, b
  <2>5. ~Fresh(t)'
    BY <1>1, <2>2, <2>3 DEF Fresh, c
  <2>6. QED BY <2>4, <2>5
<1>9. ASSUME m.op = "del" PROVE Held(t)
  <2>1. 1 \in Sent(b, "del", t)
    BY <1>5, <1>9
  <2>2. t \in used /\ \A j \in Sent(b, "put", t) : j < 1
    BY <1>5, <2>1 DEF DeliveryInv, PutThenDel, b
  <2>3. Sent(b, "put", t) = {}
    BY <1>2, <1>5, <2>2 DEF Op
  <2>4. QED BY <2>1, <2>2, <2>3 DEF Standing, Held, b
<1>10. QED BY <1>1, <1>5, <1>7, <1>8, <1>9 DEF m, b

LEMMA CountedKept ==
  ASSUME NEW e \in Endpoint, index \subseteq Endpoint, Counted(e), Told(e)' = Told(e),
         UNCHANGED <<Peers(e), recounted>>, recounted[e] \subseteq Endpoint,
         e \in index' => e \in index, \A u \in Token : Fresh(u)' => Fresh(u)
  PROVE  Counted(e)'
BY DEF Counted, Token

LEMMA CountedTyped ==
  ASSUME MatchInv, NEW e \in Local, IsTopic(e)
  PROVE  /\ Counted(e) /\ DeliveryInv /\ e \in Endpoint /\ e \in Token
         /\ CacheTypeOK /\ EventsTypeOK /\ index \subseteq Endpoint
         /\ recounted[e] \subseteq Endpoint /\ Told(e) \in Int
BY LocalEndpoint
   DEF MatchInv, DeliveryInv, Inv, CacheOK, CacheTypeOK, EventsOK, EventsTypeOK, Told

\* An endpoint that is held is in the index as long as its node is in the cache.
LEMMA HeldInIndex ==
  ASSUME DeliveryInv, phase = "running", NEW e \in Endpoint, Held(e), NodeOf[e] \in nodes
  PROVE  e \in index
BY DEF DeliveryInv, Foreseen

LEMMA TokenStepMatch ==
  ASSUME MatchInv, NEW t \in Token, Declare(t) \/ Undeclare(t)
  PROVE  MatchInv'
<1>1. DeliveryInv' /\ Uniform'
  BY DeclareDelivery, UndeclareDelivery DEF MatchInv, Uniform
<1>2. /\ UNCHANGED <<phase, index, delivered, pending, recounted>>
      /\ SessionOfToken(t) = Here => phase = "running" \/ t \in alive
      /\ alive \subseteq used /\ used' \subseteq used \cup {t}
      /\ used \subseteq used'
  BY DEF Declare, Undeclare, cache, events, MatchInv, DeliveryInv, Inv, NetworkTypeOK
<1>3. phase' # "running" => Local \cap used' = {}
  BY <1>2, LocalEndpoint DEF MatchInv, Local
<1>4. ASSUME NEW u \in Token PROVE Fresh(u)' => Fresh(u)
  <2>1. CASE u = t /\ Declare(t)
    BY <2>1 DEF Declare, Fresh
  <2>2. CASE u # t \/ Undeclare(t)
    <3>1. PICK op \in Op : Send(t, op) /\ (u # t \/ op # "put")
      BY <2>2 DEF Declare, Undeclare, Op
    <3>2. Sent(inbox', "put", u) = Sent(inbox, "put", u)
      <4>1. CASE phase # "running"
        BY <3>1, <4>1 DEF Send
      <4>2. CASE phase = "running"
        <5>1. inbox \in [Session -> Seq(Change)] /\ Added(inbox, inbox', op, t)
          BY <3>1, <4>2 DEF Added, Send, MatchInv, DeliveryInv, Inv, NetworkTypeOK
        <5>2. "put" \in Op
          BY DEF Op
        <5>3. QED BY <3>1, <5>1, <5>2, SendSent
      <4>3. QED BY <4>1, <4>2
    <3>3. QED BY <1>2, <3>2 DEF Fresh
  <2>3. QED BY <2>1, <2>2
<1>5. ASSUME NEW e \in Local, IsTopic(e) PROVE Counted(e)'
  BY <1>2, <1>4, <1>5, CountedTyped, CountedKept DEF Peers, Told
<1>6. QED BY <1>1, <1>3, <1>5 DEF MatchInv

LEMMA CallbackMatch ==
  ASSUME MatchInv, NEW e \in Local, SetQosEventCallback(e)
  PROVE  MatchInv'
<1>1. Inv'
  BY SetQosEventCallbackInv DEF MatchInv, DeliveryInv
<1>2. DeliveryInv' /\ Uniform'
  BY <1>1, UnchangedDelivery DEF SetQosEventCallback, cache, MatchInv, Uniform
<1>3. UNCHANGED <<phase, used, index, inbox, recounted>>
  BY DEF SetQosEventCallback, network, cache
<1>4. ASSUME NEW f \in Local PROVE Told(f)' = Told(f)
  <2>1. delivered \in [Local -> Int] /\ pending \in [Local -> Int]
    BY DEF MatchInv, DeliveryInv, Inv, EventsOK, EventsTypeOK
  <2>2. QED BY <2>1 DEF SetQosEventCallback, Told
<1>5. ASSUME NEW f \in Local, IsTopic(f) PROVE Counted(f)'
  <2>1. \A u \in Token : Fresh(u)' => Fresh(u)
    BY <1>3 DEF Fresh
  <2>2. QED BY <1>3, <1>4, <1>5, <2>1, CountedTyped, CountedKept DEF Peers
<1>6. QED BY <1>2, <1>3, <1>5 DEF MatchInv

LEMMA StartMatch ==
  ASSUME MatchInv, Query \/ Subscribe
  PROVE  MatchInv'
<1>1. DeliveryInv' /\ Uniform'
  BY QueryDelivery, SubscribeDelivery DEF MatchInv, Uniform
<1>2. /\ phase # "running" /\ Local \cap used = {} /\ index' \subseteq used
      /\ UNCHANGED <<used, delivered, pending, recounted>>
  <2>1. phase # "running" /\ Local \cap used = {} /\ index \subseteq used
        /\ UNCHANGED <<used, delivered, pending, recounted>>
    BY DEF Query, Subscribe, MatchInv, DeliveryInv, Starting, events
  <2>2. CASE Query
    BY <2>1, <2>2, NodesAdded DEF Query, MatchInv
  <2>3. CASE Subscribe
    BY <2>1, <2>3 DEF Subscribe, cache
  <2>4. QED BY <2>1, <2>2, <2>3
<1>3. ASSUME NEW e \in Local, IsTopic(e) PROVE Counted(e)'
  <2>1. e \notin index' /\ Fresh(e)
    BY <1>2 DEF Fresh
  <2>2. Told(e) = 0 /\ recounted[e] = {}
    BY <1>3, <2>1 DEF MatchInv, Counted
  <2>3. QED BY <1>2, <2>1, <2>2 DEF Counted, Told
<1>4. QED BY <1>1, <1>2, <1>3 DEF MatchInv

LEMMA PutMatch ==
  ASSUME MatchInv, phase = "running", NEW t \in Token, ParsePut(t),
         Fresh(t), ~Fresh(t)', \A u \in Token : Fresh(u)' => Fresh(u),
         NEW e \in Local, IsTopic(e)
  PROVE  Counted(e)'
<1>1. /\ Counted(e) /\ DeliveryInv /\ e \in Endpoint /\ e \in Token
      /\ CacheTypeOK /\ EventsTypeOK /\ index \subseteq Endpoint
      /\ recounted[e] \subseteq Endpoint /\ Told(e) \in Int
  BY CountedTyped
<1>2. index' = index \cup ({t} \cap Endpoint)
  BY DEF ParsePut, AddToCache
<1>3. CASE t \notin Endpoint \/ ~IsTopic(t)
  <2>1. UNCHANGED <<delivered, pending, recounted>>
    BY <1>3 DEF ParsePut, events
  <2>2. e \in index' => e \in index
    BY <1>2, <1>3
  <2>3. Peers(e)' = Peers(e)
    BY <1>1, <1>2, <1>3, MatchesFacts DEF Peers
  <2>4. QED BY <1>1, <2>1, <2>2, <2>3, CountedKept DEF Told
<1>4. CASE t \in Endpoint /\ IsTopic(t)
  <2> DEFINE change(rank) ==
               [f \in Local |->
                  IF f = t THEN MatchCountForEntity(t, rank)
                  ELSE IF f \in Peers(t) /\ KeyexprOf[f] = KeyexprOf[t] THEN 1 ELSE 0]
  <2>1. PICK rank \in [Qos -> 1..Cardinality(Qos)] : UpdateEventCounters(change(rank))
    BY <1>4 DEF ParsePut, HandleMatchedEventsForPut
  <2>2. MatchCountForEntity(t, rank) = Cardinality(Peers(t))
    BY <1>1, <1>4, CountedOnce DEF MatchInv
  <2>3. Cardinality(Peers(t)) \in Nat /\ Cardinality(Peers(e)) \in Nat /\ IsFiniteSet(Peers(e))
    BY <1>1, <1>4, PeersType
  <2>4. change(rank)[e] = IF e = t THEN Cardinality(Peers(t))
                          ELSE IF e \in Peers(t) THEN 1 ELSE 0
    BY <1>1, <1>4, <2>2 DEF MatchInv, Uniform, Peers, Matches
  <2>5. Told(e)' = Told(e) + change(rank)[e]
    BY <1>1, <2>1, <2>3, <2>4, CountersAdded
  <2> HIDE DEF change
  <2>6. recounted'[e] = recounted[e] \cup
                          (IF t \in index /\ e \in Peers(t) THEN {t} ELSE {})
    <3>1. recounted'[e] = recounted[e] \cup
            {g \in {t} \cap index : e \in Peers(g) /\ KeyexprOf[e] = KeyexprOf[g]}
      BY <1>4 DEF ParsePut, Recount
    <3>2. e \in Peers(t) => KeyexprOf[e] = KeyexprOf[t]
      BY <1>1, <1>4 DEF MatchInv, Uniform, Peers, Matches
    <3>3. QED BY <3>1, <3>2
  <2>7. t \notin recounted[e] /\ \A u \in recounted'[e] : ~Fresh(u)'
    <3>1. t \notin recounted[e]
      BY <1>1 DEF Counted
    <3>2. \A u \in recounted[e] : ~Fresh(u)'
      BY <1>1 DEF Counted, Token
    <3>3. QED BY <2>6, <3>1, <3>2
  <2>8. e \in Peers(t) <=> e \in index /\ Matches(e, t)
    BY <1>1, <1>4, MatchesFacts DEF Peers
  <2>9. CASE e = t
    <3>1. e \notin index /\ Told(e) = 0 /\ recounted[e] = {}
      BY <1>1, <2>9 DEF Counted
    <3>2. Peers(e)' = Peers(e)
      BY <1>2, <1>4, <2>9, MatchesFacts DEF Peers
    <3>3. recounted'[e] = {}
      BY <2>6, <2>9, <3>1
    <3>4. Told(e)' = Cardinality(Peers(e))
      BY <2>3, <2>4, <2>5, <2>9, <3>1
    <3>5. Told(e)' = Cardinality(Peers(e)') + Cardinality(recounted'[e])
      BY <2>3, <3>2, <3>3, <3>4, FS_EmptySet
    <3>6. QED BY <2>7, <2>9, <3>5 DEF Counted
  <2>10. CASE e # t /\ e \in index
    <3>1. Told(e) = Cardinality(Peers(e)) + Cardinality(recounted[e]) /\ ~Fresh(e)'
      BY <1>1, <2>10 DEF Counted
    <3>2. IsFiniteSet(recounted[e]) /\ Cardinality(recounted[e]) \in Nat
      BY <1>1, FiniteParts
    <3>3. Told(e)' = Cardinality(Peers(e)') + Cardinality(recounted'[e])
      <4>1. CASE ~Matches(e, t)
        <5>1. Peers(e)' = Peers(e) /\ recounted'[e] = recounted[e]
          BY <1>2, <2>6, <2>8, <4>1 DEF Peers
        <5>2. QED BY <1>1, <2>4, <2>5, <2>8, <2>10, <3>1, <4>1, <5>1
      <4>2. CASE Matches(e, t) /\ t \notin index
        <5>1. Peers(e)' = Peers(e) \cup {t} /\ t \notin Peers(e) /\ recounted'[e] = recounted[e]
          BY <1>2, <1>4, <2>6, <4>2 DEF Peers
        <5>2. Cardinality(Peers(e)') = Cardinality(Peers(e)) + 1
          BY <2>3, <5>1, FS_AddElement
        <5>3. QED BY <2>3, <2>4, <2>5, <2>8, <2>10, <3>1, <3>2, <4>2, <5>1, <5>2
      <4>3. CASE Matches(e, t) /\ t \in index
        <5>1. Peers(e)' = Peers(e) /\ recounted'[e] = recounted[e] \cup {t}
          BY <1>2, <2>6, <2>8, <2>10, <4>3 DEF Peers
        <5>2. Cardinality(recounted'[e]) = Cardinality(recounted[e]) + 1
          BY <2>7, <3>2, <5>1, FS_AddElement
        <5>3. QED BY <2>3, <2>4, <2>5, <2>8, <2>10, <3>1, <3>2, <4>3, <5>1, <5>2
      <4>4. QED BY <4>1, <4>2, <4>3
    <3>4. QED BY <2>7, <3>1, <3>3 DEF Counted
  <2>11. CASE e # t /\ e \notin index
    <3>1. e \notin Peers(t) /\ e \notin index'
      BY <1>2, <2>11 DEF Peers
    <3>2. Told(e)' = Told(e) /\ recounted'[e] = recounted[e]
      BY <1>1, <2>4, <2>5, <2>6, <2>11, <3>1
    <3>3. QED BY <1>1, <2>7, <3>1, <3>2 DEF Counted
  <2>12. QED BY <2>9, <2>10, <2>11
<1>5. QED BY <1>3, <1>4

LEMMA DelMatch ==
  ASSUME MatchInv, phase = "running", NEW S \in SUBSET Endpoint, NEW first,
         S \cap index = S, index' = index \ S,
         HandleMatchedEventsForDel(S, first), UNCHANGED recounted,
         \A u \in Token : Fresh(u)' => Fresh(u),
         NEW e \in Local, IsTopic(e)
  PROVE  Counted(e)'
<1> DEFINE lost == {g \in S : Matches(g, e)}
           change == [f \in Local |->
             IF f \notin index \/ (f \in S /\ RoleOf[f] \in first) THEN 0
             ELSE 0 - Cardinality({g \in S : Matches(g, f)})]
<1>1. /\ Counted(e) /\ DeliveryInv /\ e \in Endpoint /\ e \in Token
      /\ CacheTypeOK /\ EventsTypeOK /\ index \subseteq Endpoint
      /\ recounted[e] \subseteq Endpoint /\ Told(e) \in Int
  BY CountedTyped
<1>2. UpdateEventCounters(change)
  BY DEF HandleMatchedEventsForDel
<1>3. change[e] = IF e \notin index \/ (e \in S /\ RoleOf[e] \in first) THEN 0
                  ELSE 0 - Cardinality(lost)
  OBVIOUS
<1> HIDE DEF change
<1>4. /\ lost \subseteq Endpoint /\ IsFiniteSet(lost) /\ Cardinality(lost) \in Nat
  <2>1. lost \subseteq Endpoint
    OBVIOUS
  <2>2. QED BY <2>1, FiniteParts
<1>5. Told(e)' = Told(e) + change[e]
  <2>1. change[e] \in Int
    BY <1>3, <1>4
  <2>2. QED BY <1>1, <1>2, <2>1, CountersAdded
<1>6. \A t \in recounted'[e] : ~Fresh(t)'
  BY <1>1 DEF Counted, Token
<1>7. CASE e \notin index
  <2>1. Told(e)' = Told(e)
    BY <1>1, <1>3, <1>5, <1>7
  <2>2. QED BY <1>1, <1>6, <1>7, <2>1 DEF Counted
<1>8. CASE e \in index
  <2>1. ~Fresh(e)'
    BY <1>1, <1>8 DEF Counted
  <2>2. CASE e \in S
    <3>1. e \notin index'
      BY <2>2
    <3>2. QED BY <1>6, <2>1, <3>1 DEF Counted
  <2>3. CASE e \notin S
    <3>1. /\ IsFiniteSet(Peers(e)) /\ Cardinality(Peers(e)) \in Nat
      BY <1>1, PeersType
    <3>2. lost \subseteq Peers(e) /\ Peers(e)' = Peers(e) \ lost
      <4>1. \A g \in S : Matches(g, e) <=> Matches(e, g)
        BY <1>1, MatchesFacts
      <4>2. S \subseteq index
        OBVIOUS
      <4>3. lost = {g \in S : Matches(e, g)}
        BY <4>1
      <4> HIDE DEF lost
      <4>4. QED BY <4>2, <4>3 DEF Peers
    <3> HIDE DEF lost
    <3>3. Cardinality(Peers(e)') = Cardinality(Peers(e)) - Cardinality(lost)
      <4>1. Cardinality(Peers(e) \ lost)
              = Cardinality(Peers(e)) - Cardinality(Peers(e) \cap lost)
        BY <3>1, FS_Difference
      <4>2. Peers(e) \cap lost = lost
        BY <3>2
      <4>3. QED BY <3>2, <4>1, <4>2
    <3>4. Told(e) = Cardinality(Peers(e)) + Cardinality(recounted[e])
      BY <1>1, <1>8 DEF Counted
    <3>5. change[e] = 0 - Cardinality(lost)
      BY <1>3, <1>8, <2>3
    <3>6. Cardinality(recounted[e]) \in Nat
      BY <1>1, FiniteParts
    <3>7. Told(e)' = Cardinality(Peers(e)') + Cardinality(recounted'[e])
      BY <1>4, <1>5, <3>1, <3>3, <3>4, <3>5, <3>6
    <3>8. QED BY <1>6, <2>1, <3>7 DEF Counted
  <2>4. QED BY <2>2, <2>3
<1>9. QED BY <1>7, <1>8

LEMMA UpdateMatch ==
  ASSUME MatchInv, NEW s \in Session, NEW i \in DOMAIN inbox[s], UpdateGraphCache(s, i)
  PROVE  MatchInv'
<1> DEFINE op == inbox[s][i].op
<1>1. DeliveryInv' /\ Uniform'
  BY UpdateDelivery DEF MatchInv, Uniform
<1>2. phase = "running" /\ phase' = "running"
  BY AppliedFirst DEF MatchInv
<1>3. PICK t : t = inbox[s][i].tok
  OBVIOUS
<1>4. /\ t \in Token
      /\ op = "put" => Fresh(t) /\ ~Fresh(t)'
      /\ op = "del" => Held(t)
      /\ \A u \in Token : Fresh(u)' => Fresh(u)
  BY <1>3, FirstIsNews DEF MatchInv
<1>5. \/ op = "put" /\ ParsePut(t)
      \/ op = "del" /\ t \in Endpoint /\ ParseDelEndpoint(t)
      \/ op = "del" /\ t \in Node /\ ParseDelNode(t)
  BY <1>3 DEF UpdateGraphCache
<1> HIDE DEF op
<1>6. ASSUME NEW e \in Local, IsTopic(e) PROVE Counted(e)'
  <2>1. /\ Counted(e) /\ DeliveryInv /\ e \in Endpoint /\ e \in Token
        /\ CacheTypeOK /\ EventsTypeOK /\ index \subseteq Endpoint
        /\ recounted[e] \subseteq Endpoint /\ Told(e) \in Int
    BY <1>6, CountedTyped
  <2>2. CASE op = "put" /\ ParsePut(t)
    BY <1>2, <1>4, <1>6, <2>2, PutMatch
  <2>3. CASE op = "del" /\ t \in Endpoint /\ ParseDelEndpoint(t)
    <3>1. CASE NodeOf[t] \in nodes
      <4>1. t \in index
        BY <1>2, <1>4, <2>1, <2>3, <3>1, HeldInIndex
      <4>2. index' = index \ {t}
        BY <2>3, <3>1, <4>1 DEF ParseDelEndpoint, SameTopicData, SameTopic
      <4>3. CASE IsTopic(t)
        <5>1. HandleMatchedEventsForDel({t}, Role) /\ UNCHANGED recounted
          BY <2>3, <3>1, <4>1, <4>3 DEF ParseDelEndpoint, SameTopicData, SameTopic
        <5>2. QED BY <1>2, <1>4, <1>6, <2>3, <4>1, <4>2, <5>1, DelMatch
      <4>4. CASE ~IsTopic(t)
        <5>1. UNCHANGED <<delivered, pending, recounted>>
          BY <2>3, <4>4 DEF ParseDelEndpoint, events
        <5>2. Peers(e)' = Peers(e)
          BY <1>6, <2>1, <2>3, <4>2, <4>4, MatchesFacts DEF Peers
        <5>3. QED BY <1>4, <2>1, <4>2, <5>1, <5>2, CountedKept DEF Told
      <4>5. QED BY <4>3, <4>4
    <3>2. CASE NodeOf[t] \notin nodes
      <4>1. UNCHANGED <<index, delivered, pending, recounted>>
        BY <2>3, <3>2 DEF ParseDelEndpoint, events
      <4>2. QED BY <1>4, <2>1, <4>1, CountedKept DEF Peers, Told
    <3>3. QED BY <3>1, <3>2
  <2>4. CASE op = "del" /\ t \in Node /\ ParseDelNode(t)
    <3> DEFINE S == ents[t]
               first == {"pub", "service"}
    <3>1. t \in nodes
      BY <1>2, <1>4, <2>1, <2>4 DEF DeliveryInv, Foreseen
    <3>2. /\ index' = index \ S /\ HandleMatchedEventsForDel(S, first) /\ UNCHANGED recounted
      BY <2>4, <3>1 DEF ParseDelNode
    <3>3. S \subseteq Endpoint /\ S \subseteq index
      BY <2>1, <2>4 DEF DeliveryInv, Inv, CacheOK, CacheTypeOK, IndexMatchesNodes, EndpointsOf
    <3> HIDE DEF S
    <3> HIDE DEF first
    <3>4. S \cap index = S
      BY <3>3
    <3>5. QED BY <1>2, <1>4, <1>6, <3>2, <3>3, <3>4, DelMatch
  <2>5. QED BY <1>5, <2>2, <2>3, <2>4
<1>7. QED BY <1>1, <1>2, <1>6 DEF MatchInv

LEMMA InitMatch == Init /\ Ordered /\ CalmStart /\ Uniform => MatchInv
<1> SUFFICES ASSUME Init, Ordered, CalmStart, Uniform PROVE MatchInv
  OBVIOUS
<1>1. \A e \in Local : Counted(e)
  BY DEF Init, Counted, Told
<1>2. QED BY <1>1, InitDelivery DEF MatchInv, Init

LEMMA StepMatch == MatchInv /\ [Next]_vars => MatchInv'
<1> SUFFICES ASSUME MatchInv, [Next]_vars PROVE MatchInv'
  OBVIOUS
<1>1. ASSUME NEW t \in Token, Declare(t) \/ Undeclare(t) PROVE MatchInv'
  BY <1>1, TokenStepMatch
<1>2. ASSUME NEW e \in Local, SetQosEventCallback(e) PROVE MatchInv'
  BY <1>2, CallbackMatch
<1>3. CASE Query \/ Subscribe
  BY <1>3, StartMatch
<1>4. ASSUME NEW s \in Session, NEW i \in DOMAIN inbox[s], UpdateGraphCache(s, i)
      PROVE MatchInv'
  BY <1>4, UpdateMatch
<1>5. CASE UNCHANGED vars
  <2>1. DeliveryInv'
    BY <1>5, StepDelivery DEF MatchInv
  <2>2. UNCHANGED <<phase, used, inbox, index, delivered, pending, recounted>>
    BY <1>5 DEF vars, network, cache, events
  <2>3. ASSUME NEW e \in Local, IsTopic(e) PROVE Counted(e)'
    <3>1. \A u \in Token : Fresh(u)' => Fresh(u)
      BY <2>2 DEF Fresh
    <3>2. QED BY <2>2, <2>3, <3>1, CountedTyped, CountedKept DEF Peers, Told
  <2>4. QED BY <2>1, <2>2, <2>3 DEF MatchInv, Uniform
<1>6. QED BY <1>1, <1>2, <1>3, <1>4, <1>5 DEF Next

\* On such a network, and when the endpoints of a topic have one QoS profile and
\* one key expression, the MATCHED status a publisher or a subscription was
\* given, with what is kept for it, is the number of its peers in the graph and
\* of those put once more by the history after they were matched
\* (handle_matched_events_for_put(), called for each PUT of update_graph_cache()).
THEOREM MatchedIsAccounted == Ordered /\ CalmStart /\ Uniform /\ Spec => []MatchedCountAccounted
<1>1. MatchInv => MatchedCountAccounted
  BY DEF MatchInv, Counted, MatchedCountAccounted
<1>2. QED BY <1>1, InitMatch, StepMatch, PTL DEF Spec

-----------------------------------------------------------------------------
(* The cache shows each entity once *)

LEMMA OnItsWaySent ==
  ASSUME NEW t \in Token
  PROVE  /\ OnItsWay(t) <=> Sent(inbox, "put", t) # {}
         /\ OnItsWay(t)' <=> Sent(inbox', "put", t) # {}
BY DEF OnItsWay, Sent

LEMMA StageOf ==
  ASSUME NEW t \in Token
  PROVE  /\ Shown(t) => Stage(t) = "shown"
         /\ ~Shown(t) =>
              Stage(t) = IF phase = "running" /\ t \in used /\ ~OnItsWay(t)
                         THEN "dropped" ELSE "unknown"
BY DEF Stage

LEMMA WholeIsToken ==
  \A t \in Token : /\ Whole[t] \in Token
                   /\ t \in Endpoint => Whole[t] = NodeOf[t]
                   /\ t \in Node => Whole[t] = t
BY GraphCacheAssumption DEF Whole, Token

\* No endpoint is shown without its node.
LEMMA PartsAreShown ==
  ASSUME CacheOK', NEW t \in Token, Shown(t)'
  PROVE  Shown(Whole[t])'
<1>1. CASE t \in Node
  BY <1>1, WholeIsToken
<1>2. CASE t \in Endpoint
  <2>1. t \in index' /\ NodeOf[t] \in Node /\ Whole[t] = NodeOf[t]
    BY <1>2, WholeIsToken, GraphCacheAssumption DEF Shown, CacheOK, CacheTypeOK
  <2>2. NodeOf[t] \in nodes'
    BY <2>1 DEF CacheOK, IndexMatchesNodes
  <2> QED BY <2>1, <2>2 DEF Shown
<1> QED BY <1>1, <1>2 DEF Token

LEMMA PartsFollowWholes ==
  ASSUME Inv'
  PROVE  Graph!PartsFollow
<1> SUFFICES ASSUME NEW t \in Token, Stage(t)' = "shown"
             PROVE  Stage(Whole[t])' = "shown"
  BY WholeIsToken DEF Graph!PartsFollow
<1>1. Shown(t)'
  BY DEF Stage
<1>2. Shown(Whole[t])'
  BY <1>1, PartsAreShown DEF Inv
<1> QED BY <1>2 DEF Stage, Whole

\* A step by which the directory shows S, or drops S.
LEMMA ShowsStep ==
  ASSUME Inv', UNCHANGED <<alive, used>>, NEW S \in SUBSET used,
         \A t \in S : Stage(t) = "unknown",
         \A t \in Token : Stage(t)' = IF t \in S THEN "shown" ELSE Stage(t)
  PROVE  Graph!Show(S)
BY PartsFollowWholes DEF Graph!Show, Inv, NetworkTypeOK

LEMMA DropsStep ==
  ASSUME Inv', UNCHANGED <<alive, used>>, NEW S \in SUBSET used,
         \A t \in S : Stage(t) = "shown" /\ (t \notin alive \/ Whole[t] \notin alive),
         \A t \in Token : Stage(t)' = IF t \in S THEN "dropped" ELSE Stage(t)
  PROVE  Graph!Drop(S)
BY PartsFollowWholes DEF Graph!Drop, Graph!Gone, Inv, NetworkTypeOK

\* The stages stay while the cache does and no put is sent or taken away.
LEMMA StagesSame ==
  ASSUME UNCHANGED <<nodes, index, phase>>,
         phase = "running" => \A t \in Token :
           (t \in used' /\ ~OnItsWay(t)') <=> (t \in used /\ ~OnItsWay(t))
  PROVE  \A t \in Token : Stage(t)' = Stage(t)
BY DEF Stage, Shown

LEMMA DeclareInGraph ==
  ASSUME DeliveryInv, NEW t \in Token, Declare(t)
  PROVE  Graph!Declare(t)
<1>1. /\ t \notin used /\ alive' = alive \cup {t} /\ used' = used \cup {t}
      /\ t \in Endpoint => NodeOf[t] \in alive
      /\ UNCHANGED <<phase, nodes, index>> /\ Send(t, "put")
  BY DEF Declare, cache
<1>2. ASSUME phase = "running", NEW u \in Token
      PROVE  (u \in used' /\ ~OnItsWay(u)') <=> (u \in used /\ ~OnItsWay(u))
  <2>1. Added(inbox, inbox', "put", t) /\ inbox \in [Session -> Seq(Change)] /\ "put" \in Op
    BY <1>1, <1>2 DEF Added, Send, DeliveryInv, Inv, NetworkTypeOK, Op
  <2>2. /\ \A v \in Token : v # t => Sent(inbox', "put", v) = Sent(inbox, "put", v)
        /\ Sent(inbox', "put", t) # {}
    BY <2>1, SendSent
  <2> QED BY <1>1, <2>2, OnItsWaySent
<1>3. \A u \in Token : Stage(u)' = Stage(u)
  BY <1>1, <1>2, StagesSame
<1> QED BY <1>1, <1>3, WholeIsToken DEF Graph!Declare, Token

LEMMA UndeclareInGraph ==
  ASSUME DeliveryInv, NEW t \in Token, Undeclare(t)
  PROVE  Graph!Undeclare(t)
<1>1. /\ t \in alive /\ alive' = alive \ {t} /\ phase = "running"
      /\ UNCHANGED <<used, phase, nodes, index>> /\ Send(t, "del")
  BY DEF Undeclare, cache, DeliveryInv
<1>2. \A u \in Token : Sent(inbox', "put", u) = Sent(inbox, "put", u)
  <2>1. /\ Added(inbox, inbox', "del", t) /\ inbox \in [Session -> Seq(Change)]
        /\ "put" \in Op /\ "del" \in Op
    BY <1>1 DEF Added, Send, DeliveryInv, Inv, NetworkTypeOK, Op
  <2> QED BY <2>1, SendSent
<1>3. \A u \in Token : Stage(u)' = Stage(u)
  BY <1>1, <1>2, OnItsWaySent, StagesSame
<1> QED BY <1>1, <1>3 DEF Graph!Undeclare

\* The query shows what has been declared by then.
LEMMA QueryInGraph ==
  ASSUME DeliveryInv, Query
  PROVE  \E S \in SUBSET used : Graph!Show(S)
<1> DEFINE S == {t \in used : ~Shown(t) /\ Shown(t)'}
<1>1. /\ phase # "running" /\ phase' # "running" /\ AddToCache(alive)
      /\ UNCHANGED <<alive, used>>
  BY DEF Query
<1>2. /\ nodes' = nodes \cup (alive \cap Node) /\ index' = index \cup (alive \cap Endpoint)
      /\ nodes' \subseteq used /\ index' \subseteq used
  BY <1>1, NodesAdded
<1>3. \A t \in Token : Stage(t) = IF Shown(t) THEN "shown" ELSE "unknown"
  BY <1>1 DEF Stage
<1>4. \A t \in Token : Stage(t)' = IF Shown(t)' THEN "shown" ELSE "unknown"
  BY <1>1 DEF Stage
<1>5. \A t \in Token : Shown(t) => Shown(t)'
  BY <1>2 DEF Shown
<1>6. \A t \in Token : Shown(t)' => t \in used
  BY <1>2 DEF Shown
<1>7. \A t \in S : t \in Token /\ Stage(t) = "unknown"
  BY <1>3 DEF DeliveryInv, Inv, NetworkTypeOK
<1>8. \A t \in Token : Stage(t)' = IF t \in S THEN "shown" ELSE Stage(t)
  BY <1>3, <1>4, <1>5, <1>6
<1>9. Inv'
  BY QueryInv DEF DeliveryInv
<1> HIDE DEF S
<1>10. S \in SUBSET used
  BY DEF S
<1> QED BY <1>1, <1>7, <1>8, <1>9, <1>10, ShowsStep

\* The history says nothing new of what is shown; the rest is on its way.
LEMMA SubscribeInGraph ==
  ASSUME DeliveryInv, Subscribe
  PROVE  UNCHANGED Graph!directoryVars
<1>1. /\ phase # "running" /\ UNCHANGED <<alive, used, nodes, index>> /\ alive = used
  BY DEF Subscribe, DeliveryInv, Starting, cache
<1>2. \A t \in Token : OnItsWay(t)' <=> t \in used
  BY <1>1, HistorySent, OnItsWaySent DEF DeliveryInv
<1>3. \A t \in Token : Stage(t)' = Stage(t)
  BY <1>1, <1>2 DEF Stage, Shown
<1> QED BY <1>1, <1>3 DEF Graph!directoryVars

\* What the first change of a session says of the token it is about, and what
\* it leaves as it was.
LEMMA FirstChange ==
  ASSUME DeliveryInv, NEW s \in Session, NEW i \in DOMAIN inbox[s], UpdateGraphCache(s, i),
         NEW t \in Token, NEW o \in Op, inbox[s][1] = [op |-> o, tok |-> t]
  PROVE  /\ t \in used /\ Sent(inbox', "put", t) = {}
         /\ \A u \in Token : u # t => (Sent(inbox', "put", u) = {} <=> Sent(inbox, "put", u) = {})
         /\ o = "put" => /\ Sent(inbox, "put", t) # {}
                         /\ t \in Endpoint => Standing(NodeOf[t])
         /\ o = "del" => /\ t \notin alive /\ Sent(inbox, "put", t) = {}
                         /\ \A e \in Endpoint : NodeOf[e] = t => Sent(inbox, "put", e) = {}
<1> DEFINE b == inbox
           c == inbox'
           m == inbox[s][1]
<1>1. /\ b[s] # <<>> /\ m \in Change /\ SessionOfToken(t) = s
      /\ Applied(b, c, s) /\ UNCHANGED <<alive, used>>
  BY AppliedFirst
<1>2. m = [op |-> o, tok |-> t]
  OBVIOUS
<1>3. b \in [Session -> Seq(Change)] /\ Op = {"put", "del"}
  BY DEF DeliveryInv, Inv, NetworkTypeOK, Op
<1>4. PutThenDel /\ NodeFirst
  BY DEF DeliveryInv
<1>5. /\ \A u \in Token, p \in Op : SessionOfToken(u) # s => Sent(c, p, u) = Sent(b, p, u)
      /\ \A u \in Token, p \in Op : SessionOfToken(u) = s =>
           /\ \A j \in Sent(b, p, u) : j \in Nat /\ j >= 1
           /\ \A j \in Sent(c, p, u) : j \in Nat /\ j >= 1 /\ j + 1 \in Sent(b, p, u)
           /\ \A j \in Sent(b, p, u) : j # 1 => j - 1 \in Sent(c, p, u)
           /\ 1 \in Sent(b, p, u) <=> m = [op |-> p, tok |-> u]
  <2>1. m = b[s][1]
    OBVIOUS
  <2> HIDE DEF b, c, m
  <2> QED BY <1>1, <1>3, <2>1, DeliverSent
<1> HIDE DEF b, c, m
<1>6. \A u \in Token, p \in Op : SessionOfToken(u) = s =>
        (1 \in Sent(b, p, u) <=> u = t /\ p = o)
  <2>1. \A u \in Token, p \in Op : m = [op |-> p, tok |-> u] <=> u = t /\ p = o
    BY <1>2
  <2> QED BY <1>5, <2>1
<1>7. ASSUME NEW u \in Token, u # t
      PROVE  Sent(c, "put", u) = {} <=> Sent(b, "put", u) = {}
  <2>1. CASE SessionOfToken(u) # s
    BY <1>3, <1>5, <2>1
  <2>2. CASE SessionOfToken(u) = s
    <3>1. 1 \notin Sent(b, "put", u)
      BY <1>3, <1>6, <1>7, <2>2
    <3> QED BY <1>3, <1>5, <2>2, <3>1
  <2> QED BY <2>1, <2>2
<1>8. \A u \in Token : SessionOfToken(u) = s =>
        /\ \A j \in Sent(b, "put", u) : j \in Nat /\ j >= 1
        /\ \A j \in Sent(c, "put", u) : j \in Nat /\ j >= 1 /\ j + 1 \in Sent(b, "put", u)
  BY <1>3, <1>5
<1>9. CASE o = "put"
  <2>1. 1 \in Sent(b, "put", t)
    BY <1>1, <1>2, <1>6, <1>9
  <2>2. t \in used /\ \A j \in Sent(b, "put", t) : j = 1
    BY <1>2, <1>4, <2>1 DEF PutThenDel, b
  <2>3. Sent(c, "put", t) = {}
    BY <1>1, <1>8, <2>2
  <2>4. t \in Endpoint => Standing(NodeOf[t])
    BY <1>4, <2>1, <2>2 DEF NodeFirst, Standing, b
  <2> QED BY <1>2, <1>7, <1>9, <2>1, <2>2, <2>3, <2>4 DEF b, c
<1>10. CASE o = "del"
  <2>1. 1 \in Sent(b, "del", t)
    BY <1>1, <1>2, <1>6, <1>10
  <2>2. t \in used /\ t \notin alive /\ \A j \in Sent(b, "put", t) : j < 1
    BY <1>2, <1>4, <2>1 DEF PutThenDel, b
  <2>3. Sent(b, "put", t) = {} /\ Sent(c, "put", t) = {}
    BY <1>1, <1>8, <2>2
  <2>4. ASSUME NEW e \in Endpoint, NodeOf[e] = t PROVE Sent(b, "put", e) = {}
    <3>1. e \in Token /\ SessionOfToken(e) = s
      BY <1>1, <2>4, EndpointWithNode
    <3>2. \A j \in Sent(b, "put", e) : j < 1
      BY <1>4, <2>1, <2>4 DEF NodeFirst, b
    <3> QED BY <1>8, <3>1, <3>2
  <2> QED BY <1>2, <1>7, <1>10, <2>2, <2>3, <2>4 DEF b, c
<1> QED BY <1>2, <1>3, <1>9, <1>10

LEMMA UpdateInGraph ==
  ASSUME DeliveryInv, NEW s \in Session, NEW i \in DOMAIN inbox[s], UpdateGraphCache(s, i)
  PROVE  \E S \in SUBSET used : Graph!Show(S) \/ Graph!Drop(S)
<1>1. phase = "running" /\ i = 1 /\ UNCHANGED <<alive, used, phase>>
  BY AppliedFirst
<1>2. Inv /\ Inv'
  BY UpdateGraphCacheInv DEF DeliveryInv
<1>3. PICK t \in Token, o \in Op : inbox[s][1] = [op |-> o, tok |-> t]
  BY AppliedFirst DEF Change, Op
<1>4. /\ t \in used /\ Sent(inbox', "put", t) = {}
      /\ \A u \in Token : u # t => (Sent(inbox', "put", u) = {} <=> Sent(inbox, "put", u) = {})
      /\ o = "put" => /\ Sent(inbox, "put", t) # {}
                      /\ t \in Endpoint => Standing(NodeOf[t])
      /\ o = "del" => /\ t \notin alive /\ Sent(inbox, "put", t) = {}
                      /\ \A e \in Endpoint : NodeOf[e] = t => Sent(inbox, "put", e) = {}
  BY <1>3, FirstChange
<1>5. /\ nodes \subseteq Node /\ index \subseteq Endpoint /\ Node \cap Endpoint = {}
      /\ \A u \in nodes \cup index : Standing(u)
      /\ \A n \in Node : Held(n) => n \in nodes
  BY <1>1, <1>2, GraphCacheAssumption DEF DeliveryInv, Foreseen, Inv, CacheOK, CacheTypeOK
<1>6. \A u \in Token :
        /\ Stage(u) = IF Shown(u) THEN "shown"
                      ELSE IF u \in used /\ Sent(inbox, "put", u) = {} THEN "dropped" ELSE "unknown"
        /\ Stage(u)' = IF Shown(u)' THEN "shown"
                       ELSE IF u \in used /\ Sent(inbox', "put", u) = {} THEN "dropped" ELSE "unknown"
  BY <1>1, OnItsWaySent DEF Stage
<1>7. CASE o = "put"
  <2> DEFINE S == {u \in {t, Whole[t]} : ~Shown(u)}
  <2>1. AddToCache({t})
    BY <1>1, <1>3, <1>7 DEF UpdateGraphCache, ParsePut
  <2>2. \A u \in Token : Shown(u)' <=> Shown(u) \/ u \in {t, Whole[t]}
    <3>1. CASE t \in Node
      <4>1. nodes' = nodes \cup {t} /\ index' = index /\ Whole[t] = t
        BY <1>5, <2>1, <3>1, WholeIsToken DEF AddToCache
      <4> QED BY <4>1 DEF Shown
    <3>2. CASE t \in Endpoint
      <4>1. nodes' = nodes \cup {NodeOf[t]} /\ index' = index \cup {t} /\ Whole[t] = NodeOf[t]
        BY <1>5, <2>1, <3>2, WholeIsToken DEF AddToCache
      <4> QED BY <4>1 DEF Shown
    <3> QED BY <3>1, <3>2 DEF Token
  <2>3. Sent(inbox, "put", Whole[t]) = {} => Shown(Whole[t])
    <3>1. CASE t \in Node
      BY <1>4, <1>7, <3>1, WholeIsToken
    <3>2. CASE t \in Endpoint
      BY <1>4, <1>5, <1>7, <3>2, WholeIsToken, GraphCacheAssumption DEF Held, Shown
    <3> QED BY <3>1, <3>2 DEF Token
  <2>4. Whole[t] \in Token /\ Whole[t] \in used
    BY <1>4, WholeIsToken DEF DeliveryInv, NodeFirst, Token
  <2>5. \A u \in S : u \in used /\ u \in Token /\ Stage(u) = "unknown"
    BY <1>4, <1>6, <1>7, <2>3, <2>4
  <2>6. \A u \in Token : Stage(u)' = IF u \in S THEN "shown" ELSE Stage(u)
    BY <1>4, <1>6, <2>2
  <2> HIDE DEF S
  <2>7. S \in SUBSET used
    BY <2>5
  <2> QED BY <1>1, <1>2, <2>5, <2>6, <2>7, ShowsStep
<1>8. CASE o = "del"
  <2> DEFINE S == {u \in Token : Shown(u) /\ ~Shown(u)'}
  <2>1. /\ nodes \ {t} \subseteq nodes' /\ nodes' \subseteq nodes
        /\ index' \subseteq index /\ \A e \in index : e # t /\ NodeOf[e] # t => e \in index'
    <3>1. CASE t \in Endpoint
      BY <1>1, <1>3, <1>5, <1>8, <3>1 DEF UpdateGraphCache, ParseDelEndpoint
    <3>2. CASE t \in Node
      <4>1. ParseDelNode(t) /\ ents[t] \subseteq EndpointsOf(t)
        BY <1>1, <1>2, <1>3, <1>5, <1>8, <3>2 DEF UpdateGraphCache, Inv, CacheOK, IndexMatchesNodes
      <4> QED BY <4>1 DEF ParseDelNode, EndpointsOf, cache
    <3> QED BY <3>1, <3>2 DEF Token
  <2>2. \A u \in Token : Shown(u)' => Shown(u)
    BY <2>1 DEF Shown
  <2>3. ASSUME NEW u \in S
        PROVE  /\ u \in used /\ Stage(u) = "shown" /\ Stage(u)' = "dropped"
               /\ u \notin alive \/ Whole[u] \notin alive
    <3>1. u \in Token /\ Shown(u) /\ ~Shown(u)' /\ Standing(u)
      BY <1>5 DEF Shown
    <3>2. u = t \/ (u \in Endpoint /\ NodeOf[u] = t)
      BY <1>5, <2>1, <3>1 DEF Shown
    <3>3. Sent(inbox', "put", u) = {}
      BY <1>4, <1>8, <3>1, <3>2
    <3>4. u \in used
      BY <3>1 DEF Standing
    <3> QED BY <1>4, <1>6, <1>8, <3>1, <3>2, <3>3, <3>4, WholeIsToken
  <2>4. ASSUME NEW u \in Token, u \notin S PROVE Stage(u)' = Stage(u)
    <3>1. Shown(u)' <=> Shown(u)
      BY <2>2, <2>4
    <3>2. Sent(inbox', "put", u) = {} <=> Sent(inbox, "put", u) = {}
      BY <1>4, <1>8
    <3> QED BY <1>6, <3>1, <3>2
  <2> HIDE DEF S
  <2>5. S \in SUBSET used /\ \A u \in S : Stage(u) = "shown" /\ (u \notin alive \/ Whole[u] \notin alive)
    BY <2>3
  <2>6. \A u \in Token : Stage(u)' = IF u \in S THEN "dropped" ELSE Stage(u)
    BY <2>3, <2>4
  <2> QED BY <1>1, <1>2, <2>5, <2>6, DropsStep
<1> QED BY <1>7, <1>8 DEF Op

LEMMA InitInGraph == Init => Graph!Init
<1> SUFFICES ASSUME Init PROVE Graph!Init
  OBVIOUS
<1>1. \A t \in Token : Stage(t) = "unknown"
  BY DEF Init, Stage, Shown
<1> QED BY <1>1 DEF Init, Graph!Init

\* A callback changes nothing that is shown.
LEMMA CallbackInGraph ==
  ASSUME UNCHANGED <<network, cache>>
  PROVE  UNCHANGED Graph!directoryVars
<1>1. UNCHANGED <<alive, used, phase, inbox, nodes, index>>
  BY DEF network, cache
<1>2. \A t \in Token : Stage(t)' = Stage(t)
  BY <1>1, OnItsWaySent, StagesSame
<1> QED BY <1>1, <1>2 DEF Graph!directoryVars

LEMMA StepInGraph == DeliveryInv /\ [Next]_vars => [Graph!Next]_(Graph!directoryVars)
<1> SUFFICES ASSUME DeliveryInv, [Next]_vars
             PROVE  Graph!Next \/ UNCHANGED Graph!directoryVars
  OBVIOUS
<1>1. CASE UNCHANGED vars
  BY <1>1, CallbackInGraph DEF vars
<1>2. ASSUME NEW t \in Token, Declare(t) PROVE Graph!Next
  BY <1>2, DeclareInGraph DEF Graph!Next
<1>3. ASSUME NEW t \in Token, Undeclare(t) PROVE Graph!Next
  BY <1>3, UndeclareInGraph DEF Graph!Next
<1>4. ASSUME NEW e \in Local, SetQosEventCallback(e) PROVE UNCHANGED Graph!directoryVars
  BY <1>4, CallbackInGraph DEF SetQosEventCallback
<1>5. CASE Query
  BY <1>5, QueryInGraph DEF Graph!Next
<1>6. CASE Subscribe
  BY <1>6, SubscribeInGraph DEF Graph!Next
<1>7. ASSUME NEW s \in Session, NEW i \in DOMAIN inbox[s], UpdateGraphCache(s, i)
      PROVE  Graph!Next
  BY <1>7, UpdateInGraph DEF Graph!Next
<1> QED BY <1>1, <1>2, <1>3, <1>4, <1>5, <1>6, <1>7 DEF Next

\* A step of the directory drops what is gone, and shows what it had not shown.
LEMMA StepFlickers ==
  ASSUME Graph!Next \/ UNCHANGED Graph!directoryVars, NEW t \in Token
  PROVE  /\ Shown(t) /\ ~Shown(t)' => t \notin alive \/ Whole[t] \notin alive
         /\ ~Shown(t) /\ Shown(t)' => Stage(t) = "unknown"
<1>1. /\ Stage(t) = "shown" <=> Shown(t)
      /\ Stage(t)' = "shown" <=> Shown(t)'
  BY DEF Stage
<1> DEFINE stages == [u \in Token |-> Stage(u)]
<1>2. stages[t] = Stage(t) /\ stages'[t] = Stage(t)'
  OBVIOUS
<1>3. CASE stages' = stages
  BY <1>1, <1>2, <1>3
<1>4. ASSUME NEW S \in SUBSET used, Graph!Show(S)
      PROVE  \/ Stage(t)' = Stage(t)
             \/ Stage(t) = "unknown" /\ Stage(t)' = "shown"
  <2>1. Stage(t)' = IF t \in S THEN "shown" ELSE Stage(t)
    BY <1>2, <1>4 DEF Graph!Show
  <2>2. t \in S => Stage(t) = "unknown"
    BY <1>2, <1>4 DEF Graph!Show
  <2> QED BY <2>1, <2>2
<1>5. ASSUME NEW S \in SUBSET used, Graph!Drop(S)
      PROVE  \/ Stage(t)' = Stage(t)
             \/ (t \notin alive \/ Whole[t] \notin alive) /\ Stage(t)' = "dropped"
  <2>1. Stage(t)' = IF t \in S THEN "dropped" ELSE Stage(t)
    BY <1>2, <1>5 DEF Graph!Drop
  <2>2. t \in S => t \notin alive \/ Whole[t] \notin alive
    BY <1>2, <1>5 DEF Graph!Drop, Graph!Gone
  <2> QED BY <2>1, <2>2
<1> QED BY <1>1, <1>2, <1>3, <1>4, <1>5
        DEF Graph!Next, Graph!Declare, Graph!Undeclare, Graph!directoryVars

\* As long as the changes of a session arrive in order and nothing leaves while
\* the context starts, the cache shows every entity exactly once: from some time
\* after its token was declared until some time after its token or its node's
\* was undeclared, never an endpoint without its node, and nothing twice,
\* whatever query, history, puts and dels are applied between (parse_put() and
\* parse_del() fed by update_graph_cache()).
THEOREM ImplementsDirectory == Ordered /\ CalmStart /\ Spec => ShowsOnce
<1>1. Ordered /\ CalmStart /\ Spec => []DeliveryInv
  BY InitDelivery, StepDelivery, PTL DEF Spec
<1> QED BY <1>1, InitInGraph, StepInGraph, PTL DEF Spec, ShowsOnce, Graph!Spec

\* On such a network the graph does not flicker: nothing that is there drops out
\* of the cache, and what has left does not come back, whatever tokens are put
\* and deleted around it.
THEOREM GraphDoesNotFlicker == Ordered /\ CalmStart /\ Spec => NoFlicker
<1> DEFINE Steady == \A t \in Token :
             /\ Shown(t) /\ ~Shown(t)' => t \notin alive \/ Whole[t] \notin alive
             /\ ~Shown(t) /\ Shown(t)' => Stage(t) = "unknown"
<1>1. DeliveryInv /\ [Next]_vars => [Steady]_<<nodes, index>>
  BY StepInGraph, StepFlickers
<1>2. Ordered /\ CalmStart /\ Spec => []DeliveryInv
  BY InitDelivery, StepDelivery, PTL DEF Spec
<1> QED BY <1>1, <1>2, PTL DEF Spec, NoFlicker

-----------------------------------------------------------------------------
(* Nothing is missed, in any order of the changes and after any start-up *)

\* A change of t that has not been delivered.
Waits(b, op, t) == Sent(b, op, t) # {}

Awaited(t) == t \in nodes \cup index \/ Waits(inbox, "put", t)

\* What is alive is in the cache or on its way there, and nothing on its way
\* would take it out.
NothingForgotten ==
  phase = "running" =>
    /\ \A n \in alive \cap Node : Awaited(n)
    /\ \A e \in alive \cap Endpoint : NodeOf[e] \in alive => Awaited(e)

DelsAreOld == \A t \in Token : Waits(inbox, "del", t) => t \in used /\ t \notin alive

NoneBefore == phase # "running" => \A s \in Session : inbox[s] = <<>>

NodesUsed == \A e \in Endpoint : e \in used => NodeOf[e] \in used

MissInv == Inv /\ Addressed /\ NothingForgotten /\ DelsAreOld /\ NoneBefore /\ NodesUsed

LEMMA WaitsPlace ==
  ASSUME NEW b, NEW op, NEW t
  PROVE  Waits(b, op, t) <=> \E i \in DOMAIN b[SessionOfToken(t)] :
                               b[SessionOfToken(t)][i] = [op |-> op, tok |-> t]
BY DEF Waits, Sent

\* A change sent is one more that waits, while the context runs.
LEMMA SendWaits ==
  ASSUME Inv, NEW t \in Token, NEW op \in Op, Send(t, op), phase = "running"
  PROVE  /\ \A u \in Token, p \in Op : u # t \/ p # op => (Waits(inbox', p, u) <=> Waits(inbox, p, u))
         /\ Waits(inbox', op, t)
<1>1. Added(inbox, inbox', op, t) /\ inbox \in [Session -> Seq(Change)]
  BY DEF Send, Added, Inv, NetworkTypeOK
<1>2. /\ \A u \in Token, p \in Op : u # t \/ p # op => Sent(inbox', p, u) = Sent(inbox, p, u)
      /\ Sent(inbox', op, t) = Sent(inbox, op, t) \cup {Len(inbox[SessionOfToken(t)]) + 1}
  BY <1>1, SendSent
<1> QED BY <1>2 DEF Waits

LEMMA DeclareMissInv == ASSUME MissInv, NEW t \in Token, Declare(t) PROVE MissInv'
<1>1. /\ t \notin used /\ alive' = alive \cup {t} /\ used' = used \cup {t}
      /\ UNCHANGED <<phase, nodes, index>> /\ Send(t, "put") /\ alive \subseteq used
      /\ t \in Endpoint => NodeOf[t] \in alive
  BY DEF Declare, cache, MissInv, Inv, NetworkTypeOK
<1>2. Inv' /\ NodesUsed' /\ Addressed'
  BY <1>1, DeclareInv, SendAddressed, GraphCacheAssumption DEF MissInv, Inv, NodesUsed, Token, Op
<1>3. CASE phase # "running"
  BY <1>1, <1>2, <1>3
     DEF MissInv, Send, NothingForgotten, DelsAreOld, NoneBefore, Waits, Sent
<1>4. CASE phase = "running"
  <2>1. /\ \A u \in Token : u # t => (Waits(inbox', "put", u) <=> Waits(inbox, "put", u))
        /\ \A u \in Token : Waits(inbox', "del", u) <=> Waits(inbox, "del", u)
        /\ Waits(inbox', "put", t)
    BY <1>1, <1>4, SendWaits DEF MissInv, Op
  <2>2. DelsAreOld'
    BY <1>1, <2>1 DEF MissInv, DelsAreOld
  <2>3. \A u \in Token : Awaited(u) => Awaited(u)'
    BY <1>1, <2>1 DEF Awaited
  <2>4. Awaited(t)'
    BY <2>1 DEF Awaited
  <2>5. \A e \in alive \cap Endpoint : NodeOf[e] # t
    BY <1>1 DEF MissInv, NodesUsed
  <2>6. NothingForgotten'
    BY <1>1, <1>4, <2>3, <2>4, <2>5 DEF MissInv, NothingForgotten, Token
  <2> QED BY <1>1, <1>2, <1>4, <2>2, <2>6 DEF MissInv, NoneBefore
<1> QED BY <1>3, <1>4

LEMMA UndeclareMissInv == ASSUME MissInv, NEW t \in Token, Undeclare(t) PROVE MissInv'
<1>1. /\ t \in used /\ alive' = alive \ {t}
      /\ UNCHANGED <<used, phase, nodes, index>> /\ Send(t, "del")
  BY DEF Undeclare, cache, MissInv, Inv, NetworkTypeOK
<1>2. Inv' /\ NodesUsed' /\ Addressed'
  BY <1>1, UndeclareInv, SendAddressed DEF MissInv, Inv, NodesUsed, Op
<1>3. CASE phase # "running"
  BY <1>1, <1>2, <1>3
     DEF MissInv, Send, NothingForgotten, DelsAreOld, NoneBefore, Waits, Sent
<1>4. CASE phase = "running"
  <2>1. /\ \A u \in Token : u # t => (Waits(inbox', "del", u) <=> Waits(inbox, "del", u))
        /\ \A u \in Token : Waits(inbox', "put", u) <=> Waits(inbox, "put", u)
    BY <1>1, <1>4, SendWaits DEF MissInv, Op
  <2>2. DelsAreOld'
    BY <1>1, <2>1 DEF MissInv, DelsAreOld
  <2>3. \A u \in Token : Awaited(u) => Awaited(u)'
    BY <1>1, <2>1 DEF Awaited
  <2>4. NothingForgotten'
    BY <1>1, <1>4, <2>3 DEF MissInv, NothingForgotten, Token
  <2> QED BY <1>1, <1>2, <1>4, <2>2, <2>4 DEF MissInv, NoneBefore
<1> QED BY <1>3, <1>4

\* One change is taken out, the others stay.
LEMMA OneTaken ==
  ASSUME NEW T, NEW q \in Seq(T), NEW i \in 1..Len(q)
  PROVE  LET r == SubSeq(q, 1, i - 1) \o SubSeq(q, i + 1, Len(q))
         IN  /\ \A j \in DOMAIN r : \E k \in DOMAIN q : r[j] = q[k]
             /\ \A k \in DOMAIN q : k # i => \E j \in DOMAIN r : r[j] = q[k]
<1> DEFINE n == Len(q)
           a == SubSeq(q, 1, i - 1)
           b == SubSeq(q, i + 1, Len(q))
           r == a \o b
<1>1. n \in Nat /\ i \in 1..n /\ DOMAIN q = 1..n /\ \A j \in 1..n : q[j] \in T
  OBVIOUS
<1>2. /\ a \in Seq(T) /\ Len(a) = IF 1 <= i - 1 THEN i - 1 - 1 + 1 ELSE 0
      /\ \A j \in 1..(i - 1 - 1 + 1) : a[j] = q[1 + j - 1]
  <2>1. \A j \in 1..(i - 1) : q[j] \in T
    BY <1>1
  <2> QED BY <1>1, <2>1, SubSeqProperties
<1>3. /\ b \in Seq(T) /\ Len(b) = IF i + 1 <= n THEN n - (i + 1) + 1 ELSE 0
      /\ \A j \in 1..(n - (i + 1) + 1) : b[j] = q[(i + 1) + j - 1]
  <2>1. \A j \in (i + 1)..n : q[j] \in T
    BY <1>1
  <2> QED BY <1>1, <2>1, SubSeqProperties
<1>4. r = a \o b
  OBVIOUS
<1> HIDE DEF n, a, b, r
<1>5. Len(a) = i - 1 /\ Len(b) = n - i
  BY <1>1, <1>2, <1>3
<1>6. /\ r \in Seq(T) /\ Len(r) = Len(a) + Len(b)
      /\ \A j \in 1..(Len(a) + Len(b)) : r[j] = IF j <= Len(a) THEN a[j] ELSE b[j - Len(a)]
  <2>1. a \in Seq(T) /\ b \in Seq(T)
    BY <1>2, <1>3
  <2>2. /\ a \o b \in Seq(T) /\ Len(a \o b) = Len(a) + Len(b)
        /\ \A j \in 1..(Len(a) + Len(b)) :
             (a \o b)[j] = IF j <= Len(a) THEN a[j] ELSE b[j - Len(a)]
    BY <2>1, ConcatProperties
  <2> QED BY <1>4, <2>2, Zenon
<1>7. DOMAIN r = 1..(n - 1)
  <2>1. Len(r) = Len(a) + Len(b) /\ r \in Seq(T)
    BY <1>6
  <2>2. Len(r) = n - 1
    BY <1>1, <1>5, <2>1
  <2> QED BY <2>1, <2>2
<1>8. ASSUME NEW j \in 1..(n - 1), j < i PROVE r[j] = q[j]
  <2>1. /\ j \in 1..(i - 1 - 1 + 1) /\ 1 + j - 1 = j
        /\ j \in 1..(Len(a) + Len(b)) /\ j <= Len(a)
    BY <1>1, <1>5, <1>8
  <2> QED BY <1>2, <1>6, <2>1
<1>9. ASSUME NEW j \in 1..(n - 1), j >= i PROVE r[j] = q[j + 1]
  <2>1. /\ j \in 1..(Len(a) + Len(b)) /\ ~(j <= Len(a))
        /\ j - Len(a) \in 1..(n - (i + 1) + 1) /\ (i + 1) + (j - Len(a)) - 1 = j + 1
    BY <1>1, <1>5, <1>9
  <2> QED BY <1>3, <1>6, <2>1
<1>10. ASSUME NEW j \in 1..(n - 1) PROVE \E k \in 1..n : r[j] = q[k]
  <2>1. j \in 1..n /\ j + 1 \in 1..n /\ (j < i \/ j >= i)
    BY <1>1
  <2> QED BY <1>8, <1>9, <2>1
<1>11. ASSUME NEW k \in 1..n, k # i PROVE \E j \in 1..(n - 1) : r[j] = q[k]
  <2>1. CASE k < i
    <3>1. k \in 1..(n - 1)
      BY <1>1, <2>1
    <3> QED BY <1>8, <2>1, <3>1
  <2>2. CASE k > i
    <3>1. k - 1 \in 1..(n - 1) /\ k - 1 >= i /\ (k - 1) + 1 = k
      BY <1>1, <2>2
    <3> QED BY <1>9, <3>1
  <2>3. k < i \/ k > i
    BY <1>1, <1>11
  <2> QED BY <2>1, <2>2, <2>3
<1> QED BY <1>1, <1>7, <1>10, <1>11 DEF n, a, b, r

LEMMA UpdateTakes ==
  ASSUME Inv, NEW s \in Session, NEW i \in DOMAIN inbox[s], UpdateGraphCache(s, i)
  PROVE  /\ \A r \in Session : r # s => inbox'[r] = inbox[r]
         /\ \A j \in DOMAIN inbox'[s] : \E k \in DOMAIN inbox[s] : inbox'[s][j] = inbox[s][k]
         /\ \A k \in DOMAIN inbox[s] : k # i =>
              \E j \in DOMAIN inbox'[s] : inbox'[s][j] = inbox[s][k]
<1>1. inbox[s] \in Seq(Change) /\ i \in 1..Len(inbox[s])
  BY DEF Inv, NetworkTypeOK
<1> DEFINE q == inbox[s]
           r == SubSeq(q, 1, i - 1) \o SubSeq(q, i + 1, Len(q))
<1>2. /\ \A u \in Session : u # s => inbox'[u] = inbox[u]
      /\ inbox'[s] = r
  BY DEF UpdateGraphCache, Inv, NetworkTypeOK
<1>3. q \in Seq(Change) /\ i \in 1..Len(q)
  BY <1>1
<1> HIDE DEF q
<1>4. /\ \A j \in DOMAIN r : \E k \in DOMAIN q : r[j] = q[k]
      /\ \A k \in DOMAIN q : k # i => \E j \in DOMAIN r : r[j] = q[k]
  BY <1>3, OneTaken, Zenon
<1> HIDE DEF r
<1> QED BY <1>2, <1>4 DEF q

\* A change is applied: it waits no more, and the others wait on.
LEMMA TakenWaits ==
  ASSUME Inv, NEW s \in Session, NEW i \in DOMAIN inbox[s], UpdateGraphCache(s, i)
  PROVE  \A u \in Token, p \in Op :
           /\ Waits(inbox', p, u) => Waits(inbox, p, u)
           /\ Waits(inbox, p, u) /\ inbox[s][i] # [op |-> p, tok |-> u] => Waits(inbox', p, u)
<1> SUFFICES ASSUME NEW u \in Token, NEW p \in Op
             PROVE  /\ Waits(inbox', p, u) => Waits(inbox, p, u)
                    /\ Waits(inbox, p, u) /\ inbox[s][i] # [op |-> p, tok |-> u] =>
                         Waits(inbox', p, u)
  OBVIOUS
<1> DEFINE m == [op |-> p, tok |-> u]
           r == SessionOfToken(u)
<1>1. /\ Waits(inbox', p, u) <=> \E j \in DOMAIN inbox'[r] : inbox'[r][j] = m
      /\ Waits(inbox, p, u) <=> \E j \in DOMAIN inbox[r] : inbox[r][j] = m
      /\ r \in Session
  BY WaitsPlace, SessionType
<1> HIDE DEF m, r
<1>2. CASE r # s
  BY <1>1, <1>2, UpdateTakes
<1>3. CASE r = s
  <2>1. /\ \A j \in DOMAIN inbox'[r] : \E k \in DOMAIN inbox[r] : inbox'[r][j] = inbox[r][k]
        /\ \A k \in DOMAIN inbox[r] : k # i =>
             \E j \in DOMAIN inbox'[r] : inbox'[r][j] = inbox[r][k]
    BY <1>3, UpdateTakes
  <2> QED BY <1>1, <1>3, <2>1 DEF m
<1> QED BY <1>2, <1>3

LEMMA TakenAddressed ==
  ASSUME Inv, Addressed, NEW s \in Session, NEW i \in DOMAIN inbox[s], UpdateGraphCache(s, i)
  PROVE  Addressed'
BY UpdateTakes DEF Addressed

LEMMA StartMissInv == ASSUME MissInv, Query \/ Subscribe PROVE MissInv'
<1>1. UNCHANGED <<alive, used>> /\ Inv' /\ NodesUsed'
  BY QueryInv, SubscribeInv DEF MissInv, NodesUsed, Query, Subscribe
<1>2. CASE Query
  BY <1>1, <1>2 DEF MissInv, Query, Addressed, NothingForgotten, DelsAreOld, NoneBefore, Waits, Sent
<1>3. CASE Subscribe
  <2>1. phase' = "running"
    BY <1>3 DEF Subscribe
  <2>2. /\ Addressed'
        /\ \A t \in Token : ~Waits(inbox', "del", t) /\ (Waits(inbox', "put", t) <=> t \in alive)
    BY <1>3, HistorySent DEF MissInv, Waits
  <2>3. NothingForgotten' /\ DelsAreOld'
    BY <1>1, <2>2 DEF NothingForgotten, Awaited, DelsAreOld, Token
  <2> QED BY <1>1, <2>1, <2>2, <2>3 DEF MissInv, NoneBefore
<1> QED BY <1>2, <1>3

\* A deletion takes nothing out of the cache that is alive, with its node.
LEMMA UpdateMissInv ==
  ASSUME MissInv, NEW s \in Session, NEW i \in DOMAIN inbox[s], UpdateGraphCache(s, i)
  PROVE  MissInv'
<1>1. UNCHANGED <<alive, used, phase>>
  BY DEF UpdateGraphCache
<1>2. Inv' /\ NodesUsed' /\ Addressed'
  BY <1>1, UpdateGraphCacheInv, TakenAddressed DEF MissInv, NodesUsed
<1>3. phase = "running"
  BY DEF MissInv, NoneBefore
<1>4. PICK t \in Token, o \in Op : inbox[s][i] = [op |-> o, tok |-> t]
  <2>1. inbox[s] \in Seq(Change)
    BY DEF MissInv, Inv, NetworkTypeOK
  <2>2. inbox[s][i] \in Change
    BY <2>1
  <2> QED BY <2>2 DEF Change, Op
<1>5. \A u \in Token, p \in Op :
        /\ Waits(inbox', p, u) => Waits(inbox, p, u)
        /\ Waits(inbox, p, u) /\ (u # t \/ p # o) => Waits(inbox', p, u)
  <2>1. \A u \in Token, p \in Op : inbox[s][i] = [op |-> p, tok |-> u] <=> t = u /\ o = p
    BY <1>4
  <2> QED BY <2>1, TakenWaits DEF MissInv
<1>6. DelsAreOld'
  BY <1>1, <1>5 DEF MissInv, DelsAreOld, Op
<1>7. CASE o = "put"
  <2>1. AddToCache({t})
    BY <1>4, <1>7 DEF UpdateGraphCache, ParsePut
  <2>2. \A u \in Token : Awaited(u) => Awaited(u)'
    BY <1>5, <2>1 DEF AddToCache, Awaited, Token, Op
  <2> QED BY <1>1, <1>2, <1>3, <1>6, <2>2 DEF MissInv, NothingForgotten, NoneBefore, Token
<1>8. CASE o = "del"
  <2>1. t \notin alive
    <3>1. SessionOfToken(t) = s
      BY <1>4 DEF MissInv, Addressed
    <3>2. Waits(inbox, "del", t)
      BY <1>4, <1>8, <3>1, WaitsPlace
    <3> QED BY <3>2 DEF MissInv, DelsAreOld
  <2>2. \A u \in Token : Waits(inbox, "put", u) => Waits(inbox', "put", u)
    BY <1>5, <1>8 DEF Op
  <2>3. /\ nodes \ {t} \subseteq nodes'
        /\ \A e \in index : e # t /\ NodeOf[e] # t => e \in index'
    <3>1. CASE t \in Endpoint
      BY <1>4, <1>8, <3>1, GraphCacheAssumption DEF UpdateGraphCache, ParseDelEndpoint
    <3>2. CASE t \in Node
      <4>1. ParseDelNode(t) /\ ents[t] \subseteq EndpointsOf(t)
        BY <1>4, <1>8, <3>2, GraphCacheAssumption
           DEF UpdateGraphCache, MissInv, Inv, CacheOK, IndexMatchesNodes
      <4> QED BY <4>1 DEF ParseDelNode, EndpointsOf, cache
    <3> QED BY <3>1, <3>2 DEF Token
  <2>4. \A n \in alive \cap Node : Awaited(n) => Awaited(n)'
    BY <2>1, <2>2, <2>3, GraphCacheAssumption
       DEF Awaited, MissInv, Inv, CacheOK, CacheTypeOK, Token
  <2>5. \A e \in alive \cap Endpoint : NodeOf[e] \in alive /\ Awaited(e) => Awaited(e)'
    BY <2>1, <2>2, <2>3, GraphCacheAssumption
       DEF Awaited, MissInv, Inv, CacheOK, CacheTypeOK, Token
  <2> QED BY <1>1, <1>2, <1>3, <1>6, <2>4, <2>5 DEF MissInv, NothingForgotten, NoneBefore
<1> QED BY <1>7, <1>8 DEF Op

LEMMA InitMissInv == Init => MissInv
<1> SUFFICES ASSUME Init PROVE MissInv
  OBVIOUS
<1>1. Inv
  BY InitInv
<1> QED BY <1>1, SessionType
      DEF Init, MissInv, Addressed, NothingForgotten, DelsAreOld, NoneBefore, NodesUsed, Waits, Sent

LEMMA StepMissInv == MissInv /\ [Next]_vars => MissInv'
<1> SUFFICES ASSUME MissInv, [Next]_vars PROVE MissInv'
  OBVIOUS
<1>1. ASSUME UNCHANGED <<network, nodes, index>>, Inv' PROVE MissInv'
  <2>1. UNCHANGED <<alive, used, phase, inbox, nodes, index>>
    BY <1>1 DEF network
  <2> QED BY <1>1, <2>1
        DEF MissInv, Addressed, NothingForgotten, Awaited, DelsAreOld, NoneBefore, NodesUsed
<1>2. Inv'
  BY StepInv DEF MissInv
<1>3. CASE UNCHANGED vars
  BY <1>1, <1>2, <1>3 DEF vars, cache
<1>4. ASSUME NEW t \in Token, Declare(t) PROVE MissInv'
  BY <1>4, DeclareMissInv
<1>5. ASSUME NEW t \in Token, Undeclare(t) PROVE MissInv'
  BY <1>5, UndeclareMissInv
<1>6. ASSUME NEW e \in Local, SetQosEventCallback(e) PROVE MissInv'
  BY <1>1, <1>2, <1>6 DEF SetQosEventCallback, cache
<1>7. CASE Query \/ Subscribe
  BY <1>7, StartMissInv
<1>8. ASSUME NEW s \in Session, NEW i \in DOMAIN inbox[s], UpdateGraphCache(s, i)
      PROVE  MissInv'
  BY <1>8, UpdateMissInv
<1> QED BY <1>3, <1>4, <1>5, <1>6, <1>7, <1>8 DEF Next

\* Whatever order the changes come in and whatever happens between the query and
\* the subscriber of the constructor, the cache may show too much, but once all
\* changes are in it misses no node that is alive and none of its endpoints.
THEOREM CacheMissesNothing == Spec => []NothingMissed
<1>1. MissInv => NothingMissed
  <2> SUFFICES ASSUME MissInv, Quiet PROVE NothingMissed
    BY DEF NothingMissed
  <2>1. \A t \in Token : ~Waits(inbox, "put", t)
    BY EmptySent DEF Quiet, Waits, Op
  <2>2. nodes \cap Endpoint = {} /\ index \cap Node = {}
    BY GraphCacheAssumption DEF MissInv, Inv, CacheOK, CacheTypeOK
  <2> QED BY <2>1, <2>2 DEF MissInv, NothingForgotten, Awaited, Quiet, NothingMissed, Token
<1> QED BY <1>1, InitMissInv, StepMissInv, PTL DEF Spec
=============================================================================
