-------------------------- MODULE GraphWatch_proofs --------------------------
(***************************************************************************)
(* What a user of the graph is told is true, for any network that delivers *)
(* in order, and a user who waits for the graph guard condition ends with  *)
(* the truth.                                                              *)
(***************************************************************************)
EXTENDS GraphWatch, GraphCache_proofs

LEMMA WatchStepIsStep == [WatchNext]_<<vars, watch>> => [Next]_vars
BY DEF WatchNext, Next, Update, Trigger, Ask, Notice

LEMMA WatchIsSpec == WatchSpec => Spec
<1>1. WatchInit => Init
  BY DEF WatchInit
<1>2. QED BY <1>1, WatchStepIsStep, PTL DEF WatchSpec, Spec

-----------------------------------------------------------------------------
(* The queries, for a cache that is the network *)

CacheIsNetwork ==
  /\ nodes = alive \cap Node
  /\ index = LiveEndpoints
  /\ \A n \in nodes : ents[n] = {e \in LiveEndpoints : NodeOf[e] = n}

LEMMA QuietCache == DeliveryInv /\ Quiet => CacheIsNetwork
<1> SUFFICES ASSUME DeliveryInv, Quiet PROVE CacheIsNetwork
  OBVIOUS
<1>1. \A t \in Token, o \in Op : Sent(inbox, o, t) = {}
  BY EmptySent DEF Quiet
<1>2. alive \subseteq used
  BY DEF DeliveryInv, Inv, NetworkTypeOK
<1>3. \A t \in Token : (Held(t) <=> t \in alive) /\ (Standing(t) <=> t \in alive)
  BY <1>1, <1>2 DEF Standing, Held, Op
<1>4. /\ nodes = {n \in Node : Held(n)}
      /\ index = {e \in Endpoint : Held(e) /\ Held(NodeOf[e])}
  BY <1>3, HeldIsShown DEF Quiet
<1>5. nodes = alive \cap Node
  BY <1>3, <1>4 DEF Token
<1>6. index = LiveEndpoints
  BY <1>3, <1>4, EndpointWithNode DEF LiveEndpoints
<1>7. /\ index = {e \in Endpoint : e \in ents[NodeOf[e]]}
      /\ \A n \in Node : ents[n] \subseteq {e \in Endpoint : NodeOf[e] = n}
  BY DEF DeliveryInv, Inv, CacheOK, IndexMatchesNodes, EndpointsOf
<1>8. \A n \in nodes : ents[n] = {e \in LiveEndpoints : NodeOf[e] = n}
  BY <1>5, <1>6, <1>7
<1>9. QED BY <1>5, <1>6, <1>8 DEF CacheIsNetwork

\* The names and types of the endpoints of S, put in two ways.
LEMMA TypesPut ==
  ASSUME NEW S \in SUBSET Endpoint
  PROVE  TypesByName(S) =
           [t \in {TopicOf[e].name : e \in S} |->
             {ty \in {TopicOf[e].type : e \in S} :
                \E e \in S : TopicOf[e] = [name |-> t, type |-> ty]}]
<1> DEFINE byName(t) == {TopicOf[e].type : e \in {f \in S : TopicOf[f].name = t}}
           byTopic(t) == {ty \in {TopicOf[e].type : e \in S} :
                            \E e \in S : TopicOf[e] = [name |-> t, type |-> ty]}
<1>1. \A e \in S : TopicOf[e] = [name |-> TopicOf[e].name, type |-> TopicOf[e].type]
  BY GraphWatchAssumption
<1>2. ASSUME NEW t PROVE byName(t) = byTopic(t)
  <2>1. ASSUME NEW e \in S, NEW ty
        PROVE  TopicOf[e] = [name |-> t, type |-> ty]
                 <=> TopicOf[e].name = t /\ TopicOf[e].type = ty
    BY <1>1
  <2>2. QED BY <2>1
<1> HIDE DEF byName, byTopic
<1>3. [t \in {TopicOf[e].name : e \in S} |-> byName(t)]
        = [t \in {TopicOf[e].name : e \in S} |-> byTopic(t)]
  BY <1>2
<1>4. QED BY <1>3 DEF byName, byTopic, TypesByName

LEMMA Roles ==
  \A e \in Endpoint : /\ RoleOf[e] \in Role
                      /\ IsTopic(e) <=> RoleOf[e] \in {"pub", "sub"}
                      /\ ~IsTopic(e) <=> RoleOf[e] \in {"service", "client"}
BY GraphCacheAssumption DEF Role, IsTopic

LEMMA TypesTrue ==
  ASSUME NEW roles, NEW n
  PROVE  LiveTypes(roles, n)
           = TypesByName({e \in LiveEndpoints : RoleOf[e] \in roles /\ NodeOf[e] \in n})
<1> DEFINE S == {e \in LiveEndpoints : RoleOf[e] \in roles /\ NodeOf[e] \in n}
<1>1. S \in SUBSET Endpoint
  BY DEF LiveEndpoints
<1> HIDE DEF S
<1>2. TypesByName(S) =
        [t \in {TopicOf[e].name : e \in S} |->
          {ty \in {TopicOf[e].type : e \in S} :
             \E e \in S : TopicOf[e] = [name |-> t, type |-> ty]}]
  BY <1>1, TypesPut
<1>3. QED BY <1>2 DEF LiveTypes, S

LEMMA QueriesTrue ==
  ASSUME CacheIsNetwork, ~due, NEW q \in Question, NEW a \in Answers(q)
  PROVE  True(q, a)
<1> DEFINE asks == {"nodes", "topics", "services", "by node", "info", "servers",
                    "count", "matched", "server"}
<1>1. q.ask \in asks
  BY GraphWatchAssumption
<1>2. /\ LiveEndpoints \subseteq Endpoint /\ index = LiveEndpoints /\ nodes = alive \cap Node
      /\ \A e \in LiveEndpoints : NodeOf[e] \in Node
      /\ \A n \in nodes : ents[n] = {e \in LiveEndpoints : NodeOf[e] = n}
  BY GraphCacheAssumption DEF CacheIsNetwork, LiveEndpoints
<1>3. RacedCount = {}
  BY DEF RacedCount
<1>4. CASE q.ask = "nodes"
  <2>1. a = GetNodeNames
    BY <1>4 DEF Answers
  <2>2. QED BY <1>2, <1>4, <2>1 DEF True, GetNodeNames
<1>5. CASE q.ask = "topics"
  <2>1. a = GetTopicNamesAndTypes
    BY <1>5 DEF Answers
  <2>2. {e \in index : IsTopic(e)}
          = {e \in LiveEndpoints : RoleOf[e] \in {"pub", "sub"} /\ NodeOf[e] \in Node}
    BY <1>2, Roles
  <2>3. a = LiveTypes({"pub", "sub"}, Node)
    BY <2>1, <2>2, TypesTrue DEF GetTopicNamesAndTypes
  <2>4. QED BY <1>5, <2>3 DEF True
<1>6. CASE q.ask = "services"
  <2>1. a = GetServiceNamesAndTypes
    BY <1>6 DEF Answers
  <2>2. {e \in index : ~IsTopic(e)}
          = {e \in LiveEndpoints : RoleOf[e] \in {"service", "client"} /\ NodeOf[e] \in Node}
    BY <1>2, Roles
  <2>3. a = LiveTypes({"service", "client"}, Node)
    BY <2>1, <2>2, TypesTrue DEF GetServiceNamesAndTypes
  <2>4. QED BY <1>6, <2>3 DEF True
<1>7. CASE q.ask = "by node"
  <2> DEFINE named == {n \in nodes : NameOf[n] = q.name}
  <2>1. a \in GetEntityNamesAndTypesByNode(q.role, q.name)
    BY <1>7 DEF Answers
  <2>2. named = {n \in alive \cap Node : NameOf[n] = q.name}
    BY <1>2
  <2>3. CASE named = {}
    <3>1. a = NonExistent
      BY <2>1, <2>3 DEF GetEntityNamesAndTypesByNode
    <3>2. QED BY <1>7, <2>2, <2>3, <3>1 DEF True
  <2>4. CASE named # {}
    <3>1. PICK n \in named : a = TypesByName({e \in ents[n] : RoleOf[e] = q.role})
      BY <2>1, <2>4 DEF GetEntityNamesAndTypesByNode
    <3>2. {e \in ents[n] : RoleOf[e] = q.role}
            = {e \in LiveEndpoints : RoleOf[e] \in {q.role} /\ NodeOf[e] \in {n}}
      BY <1>2
    <3>3. a = LiveTypes({q.role}, {n})
      BY <3>1, <3>2, TypesTrue
    <3>4. QED BY <1>7, <2>2, <2>4, <3>3 DEF True
  <2>5. QED BY <2>3, <2>4
<1>8. \A role \in {"pub", "sub"} : \A name :
        GetEntitiesInfoByTopic(role, name) = LiveOn(role, name)
  BY <1>2, Roles DEF GetEntitiesInfoByTopic, LiveOn
<1>9. \A role \in {"service", "client"} : \A name :
        GetEntitiesInfoByService(role, name) = LiveOn(role, name)
  BY <1>2, Roles DEF GetEntitiesInfoByService, LiveOn
<1>10. CASE q.ask = "info"
  <2>1. q.role \in {"pub", "sub"} /\ a = GetEntitiesInfoByTopic(q.role, q.name)
    BY <1>10, GraphWatchAssumption DEF Answers
  <2>2. QED BY <1>8, <1>10, <2>1 DEF True
<1>11. CASE q.ask = "servers"
  <2>1. q.role \in {"service", "client"} /\ a = GetEntitiesInfoByService(q.role, q.name)
    BY <1>11, GraphWatchAssumption DEF Answers
  <2>2. QED BY <1>9, <1>11, <2>1 DEF True
<1>12. CASE q.ask = "count"
  <2>1. q.role \in Role /\ a = CountEndpoints(q.role, q.name)
    BY <1>12, GraphWatchAssumption DEF Answers
  <2>2. a = Cardinality(LiveOn(q.role, q.name))
    BY <1>8, <1>9, <2>1 DEF CountEndpoints, Role
  <2>3. QED BY <1>12, <2>2 DEF True
<1>13. \A e \in LiveEndpoints : \A t : t = [name |-> t.name, type |-> t.type] =>
         (TopicOf[e] = t <=> TopicOf[e].name = t.name /\ TopicOf[e].type = t.type)
  BY <1>2, GraphWatchAssumption
<1>14. CASE q.ask = "matched"
  <2>1. /\ q.topic = [name |-> q.topic.name, type |-> q.topic.type]
        /\ a = CountMatched(q.role, q.topic)
    BY <1>3, <1>14, GraphWatchAssumption DEF Answers
  <2>2. {e \in index : RoleOf[e] = Opposite[q.role] /\ TopicOf[e] = q.topic}
          = {e \in LiveOn(Opposite[q.role], q.topic.name) : TopicOf[e].type = q.topic.type}
    BY <1>2, <1>13, <2>1 DEF LiveOn
  <2>3. QED BY <1>14, <2>1, <2>2 DEF True, CountMatched
<1>15. CASE q.ask = "server"
  <2>1. /\ q.topic = [name |-> q.topic.name, type |-> q.topic.type]
        /\ a = ServiceServerIsAvailable(q.topic)
    BY <1>15, GraphWatchAssumption DEF Answers
  <2>2. {e \in index : RoleOf[e] = "service" /\ TopicOf[e] = q.topic}
          = {e \in LiveOn("service", q.topic.name) : TopicOf[e].type = q.topic.type}
    BY <1>2, <1>13, <2>1 DEF LiveOn
  <2>3. a <=> {e \in index : RoleOf[e] = "service" /\ TopicOf[e] = q.topic} # {}
    BY <2>1 DEF ServiceServerIsAvailable
  <2>4. QED BY <1>15, <2>2, <2>3 DEF True
<1>16. QED
  BY <1>1, <1>4, <1>5, <1>6, <1>7, <1>10, <1>11, <1>12, <1>14, <1>15

\* Whatever is asked when no change is on its way is answered with what the
\* network is, for every network that delivers in order.
THEOREM AnswersTrue == Ordered /\ CalmStart /\ WatchSpec => []AnswersAreTrue
<1>1. DeliveryInv => AnswersAreTrue
  BY QuietCache, QueriesTrue DEF AnswersAreTrue
<1>2. QED BY <1>1, WatchIsSpec, InitDelivery, StepDelivery, PTL DEF Spec

-----------------------------------------------------------------------------
(* The user *)

\* Between triggers the last answer is one the cache as it is may give.
WatchInv ==
  /\ DeliveryInv
  /\ question \in Question
  /\ phase # "running" => view = Unknown
  /\ ~due /\ ~triggered /\ view # Unknown => view \in Answers(question)

LEMMA AnswersSame ==
  ASSUME UNCHANGED <<nodes, ents, index, due, question>>
  PROVE  Answers(question)' = Answers(question)
BY DEF Answers, GetNodeNames, GetTopicNamesAndTypes, GetServiceNamesAndTypes, TypesByName,
   GetEntityNamesAndTypesByNode, GetEntitiesInfoByTopic, GetEntitiesInfoByService,
   CountEndpoints, CountMatched, ServiceServerIsAvailable, RacedCount

LEMMA InitWatch == WatchInit /\ Ordered /\ CalmStart => WatchInv
BY InitDelivery, GraphWatchAssumption DEF WatchInit, WatchInv

LEMMA StepWatch == WatchInv /\ [WatchNext]_<<vars, watch>> => WatchInv'
<1> SUFFICES ASSUME WatchInv, [WatchNext]_<<vars, watch>> PROVE WatchInv'
  OBVIOUS
<1>1. DeliveryInv'
  BY WatchStepIsStep, StepDelivery DEF WatchInv
<1>2. ASSUME UNCHANGED <<nodes, ents, index, due, triggered, question, view>>,
             phase' = phase
      PROVE  WatchInv'
  <2>1. Answers(question)' = Answers(question)
    BY <1>2, AnswersSame
  <2>2. QED BY <1>1, <1>2, <2>1 DEF WatchInv
<1>3. CASE /\ \/ \E t \in Token : Declare(t) \/ Undeclare(t)
              \/ \E e \in Local : SetQosEventCallback(e)
           /\ UNCHANGED watch
  BY <1>2, <1>3 DEF watch, Declare, Undeclare, SetQosEventCallback, cache, network
<1>4. CASE (Query \/ Subscribe) /\ UNCHANGED watch
  <2>1. view = Unknown
    BY <1>4 DEF WatchInv, Query, Subscribe
  <2>2. QED BY <1>1, <1>4, <2>1 DEF WatchInv, watch
<1>5. ASSUME NEW s \in Session, NEW i \in DOMAIN inbox[s], Update(s, i) PROVE WatchInv'
  BY <1>1, <1>5 DEF WatchInv, Update, UpdateGraphCache
<1>6. CASE Trigger
  BY <1>1, <1>6 DEF WatchInv, Trigger, vars, network
<1>7. CASE Ask
  <2>1. view' \in Answers(question) /\ phase = "running"
        /\ UNCHANGED <<nodes, ents, index, due, question, phase>>
    BY <1>7 DEF Ask, vars, cache, network
  <2>2. Answers(question)' = Answers(question)
    BY <2>1, AnswersSame
  <2>3. QED BY <1>1, <2>1, <2>2 DEF WatchInv
<1>8. CASE Notice
  BY <1>1, <1>8 DEF WatchInv, Notice
<1>9. CASE UNCHANGED <<vars, watch>>
  BY <1>2, <1>9 DEF vars, network, cache, watch
<1>10. QED BY <1>3, <1>4, <1>5, <1>6, <1>7, <1>8, <1>9 DEF WatchNext

\* A user who asks again whenever the graph guard condition is triggered ends
\* with the truth, on every such network and for every question.
THEOREM WatchedIsCurrent == Ordered /\ CalmStart /\ WatchSpec => []WatchedAnswerIsCurrent
<1>1. WatchInv => WatchedAnswerIsCurrent
  BY QuietCache, QueriesTrue DEF WatchInv, WatchedAnswerIsCurrent
<1>2. QED BY <1>1, InitWatch, StepWatch, PTL DEF WatchSpec
=============================================================================
