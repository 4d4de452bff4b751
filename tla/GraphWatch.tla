------------------------------ MODULE GraphWatch ------------------------------
(***************************************************************************)
(* What a user of a context learns of the graph: the queries rmw answers   *)
(* from the graph cache, and the graph guard condition that says when to   *)
(* ask again.                                                              *)
(*                                                                         *)
(* update_graph_cache() changes the cache and then triggers the guard      *)
(* condition.  A query takes the lock of the cache only, so it may run     *)
(* between the two.  The user (rcl's graph listener, not part of this      *)
(* code) asks one question, waits for the guard condition, which clears    *)
(* it, and asks again, as wait_for_service does.                           *)
(*                                                                         *)
(* Here TopicOf[e] is a record of a name and a type.                       *)
(***************************************************************************)
EXTENDS GraphCache

CONSTANTS
  NameOf,       \* the namespace and name of a node: two may have the same
  Question,     \* what may be asked
  Watched,      \* the questions of the user, among them
  NonExistent,  \* RMW_RET_NODE_NAME_NON_EXISTENT
  Unknown       \* no answer

ASSUME GraphWatchAssumption ==
  /\ \A e \in Endpoint :
       TopicOf[e] = [name |-> TopicOf[e].name, type |-> TopicOf[e].type]
  /\ Watched \subseteq Question
  /\ \A q \in Question :
       /\ q.ask \in {"nodes", "topics", "services", "by node", "info", "servers",
                     "count", "matched", "server"}
       /\ q.ask \in {"info", "matched"} => q.role \in {"pub", "sub"}
       /\ q.ask = "servers" => q.role \in {"service", "client"}
       /\ q.ask \in {"by node", "count"} => q.role \in Role
       /\ q.ask \in {"matched", "server"} =>
            q.topic = [name |-> q.topic.name, type |-> q.topic.type]

VARIABLES
  due,          \* the cache was changed, the trigger is still to come
  triggered,    \* has_triggered_ of the graph guard condition
  question,     \* what the user asks
  view          \* the answer it got, Unknown while it is about to ask

watch == <<due, triggered, question, view>>

-----------------------------------------------------------------------------
(* The queries: what each returns for the cache as it is *)

TypesByName(S) ==
  [t \in {TopicOf[e].name : e \in S} |->
    {TopicOf[e].type : e \in {f \in S : TopicOf[f].name = t}}]

\* How many nodes have each of the names.
GetNodeNames ==
  [k \in {NameOf[n] : n \in nodes} |->
    Cardinality({n \in nodes : NameOf[n] = k})]

GetTopicNamesAndTypes == TypesByName({e \in index : IsTopic(e)})
GetServiceNamesAndTypes == TypesByName({e \in index : ~IsTopic(e)})

\* The multimap may return any of the nodes that have the name.
GetEntityNamesAndTypesByNode(role, name) ==
  LET named == {n \in nodes : NameOf[n] = name} IN
  IF named = {} THEN {NonExistent}
  ELSE {TypesByName({e \in ents[n] : RoleOf[e] = role}) : n \in named}

\* The endpoints of every type and every QoS profile.
GetEntitiesInfoByTopic(role, name) ==
  {e \in index : IsTopic(e) /\ RoleOf[e] = role /\ TopicOf[e].name = name}
GetEntitiesInfoByService(role, name) ==
  {e \in index : ~IsTopic(e) /\ RoleOf[e] = role /\ TopicOf[e].name = name}

\* A fault (see below): all the endpoints of a topic are counted.
CountTopic(role, name) == Cardinality({e \in index : TopicOf[e].name = name})

CountEndpoints(role, name) ==
  IF role \in {"pub", "sub"} THEN Cardinality(GetEntitiesInfoByTopic(role, name))
  ELSE Cardinality(GetEntitiesInfoByService(role, name))

\* No QoS profiles are incompatible: a warning does not stop a match.
CountMatched(role, topic) ==
  Cardinality({e \in index : RoleOf[e] = Opposite[role] /\ TopicOf[e] = topic})

ServiceServerIsAvailable(topic) ==
  \E e \in index : RoleOf[e] = "service" /\ TopicOf[e] = topic

\* The matched counts are read without the lock of the cache.  What a thread
\* reads that way while the cache is changed may be anything; it is then read
\* before the trigger that comes with the change.
RacedCount == IF due THEN 0 .. Cardinality(Endpoint) ELSE {}

Answers(q) ==
  CASE q.ask = "nodes"    -> {GetNodeNames}
    [] q.ask = "topics"   -> {GetTopicNamesAndTypes}
    [] q.ask = "services" -> {GetServiceNamesAndTypes}
    [] q.ask = "by node"  -> GetEntityNamesAndTypesByNode(q.role, q.name)
    [] q.ask = "info"     -> {GetEntitiesInfoByTopic(q.role, q.name)}
    [] q.ask = "servers"  -> {GetEntitiesInfoByService(q.role, q.name)}
    [] q.ask = "count"    -> {CountEndpoints(q.role, q.name)}
    [] q.ask = "matched"  -> {CountMatched(q.role, q.topic)} \cup RacedCount
    [] q.ask = "server"   -> {ServiceServerIsAvailable(q.topic)}

-----------------------------------------------------------------------------
(* Faults: see GraphCache *)

\* The guard condition is triggered for new entities only.
UpdateOnPut(s, i) ==
  /\ ~due
  /\ UpdateGraphCache(s, i)
  /\ due' = (inbox[s][i].op = "put")
  /\ UNCHANGED <<triggered, question, view>>

-----------------------------------------------------------------------------
(* The context and its user *)

WatchInit ==
  /\ Init
  /\ due = FALSE /\ triggered = FALSE
  /\ question \in Watched
  /\ view = Unknown

\* update_graph_cache() up to the trigger, under the mutex of the context.
Update(s, i) ==
  /\ ~due
  /\ UpdateGraphCache(s, i)
  /\ due' = TRUE
  /\ UNCHANGED <<triggered, question, view>>

Trigger ==
  /\ due
  /\ due' = FALSE /\ triggered' = TRUE
  /\ UNCHANGED <<vars, question, view>>

\* The context is there for its user once rmw_init() has returned.
Ask ==
  /\ phase = "running" /\ view = Unknown
  /\ view' \in Answers(question)
  /\ UNCHANGED <<vars, due, triggered, question>>

\* rmw_wait() returns with the guard condition, and clears it.
Notice ==
  /\ view # Unknown /\ triggered
  /\ triggered' = FALSE /\ view' = Unknown
  /\ UNCHANGED <<vars, due, question>>

WatchNext ==
  \/ /\ \/ \E t \in Token : Declare(t) \/ Undeclare(t)
        \/ \E e \in Local : SetQosEventCallback(e)
        \/ Query
        \/ Subscribe
     /\ UNCHANGED watch
  \/ \E s \in Session : \E i \in DOMAIN inbox[s] : Update(s, i)
  \/ Trigger
  \/ Ask
  \/ Notice

WatchSpec == WatchInit /\ [][WatchNext]_<<vars, watch>>

-----------------------------------------------------------------------------
(* Properties *)

\* The endpoints of the network, and what each question should be answered.
LiveEndpoints == {e \in alive \cap Endpoint : NodeOf[e] \in alive}
LiveOn(role, name) ==
  {e \in LiveEndpoints : RoleOf[e] = role /\ TopicOf[e].name = name}
LiveTypes(roles, n) ==
  LET S == {e \in LiveEndpoints : RoleOf[e] \in roles /\ NodeOf[e] \in n} IN
  [t \in {TopicOf[e].name : e \in S} |->
    {ty \in {TopicOf[e].type : e \in S} :
       \E e \in S : TopicOf[e] = [name |-> t, type |-> ty]}]

True(q, a) ==
  CASE q.ask = "nodes" ->
         /\ DOMAIN a = {NameOf[n] : n \in alive \cap Node}
         /\ \A k \in DOMAIN a :
              a[k] = Cardinality({n \in alive \cap Node : NameOf[n] = k})
    [] q.ask = "topics" -> a = LiveTypes({"pub", "sub"}, Node)
    [] q.ask = "services" -> a = LiveTypes({"service", "client"}, Node)
    [] q.ask = "by node" ->
         LET named == {n \in alive \cap Node : NameOf[n] = q.name} IN
         IF named = {} THEN a = NonExistent
         ELSE \E n \in named : a = LiveTypes({q.role}, {n})
    [] q.ask \in {"info", "servers"} -> a = LiveOn(q.role, q.name)
    [] q.ask = "count" -> a = Cardinality(LiveOn(q.role, q.name))
    [] q.ask = "matched" ->
         a = Cardinality({e \in LiveOn(Opposite[q.role], q.topic.name) :
                            TopicOf[e].type = q.topic.type})
    [] q.ask = "server" ->
         a <=> {e \in LiveOn("service", q.topic.name) :
                  TopicOf[e].type = q.topic.type} # {}

\* Each of the queries is right: when no change is on its way, whatever is asked
\* is answered with what the network is, by the cache with its two halves.
AnswersAreTrue ==
  Quiet /\ ~due =>
    \A q \in Question : \A a \in Answers(q) : True(q, a)

\* A user who asks again whenever the graph guard condition is triggered ends
\* with the truth: when no change is on its way and the user waits for the
\* next, its last answer, whatever it asked, is what the network is now.
WatchedAnswerIsCurrent ==
  Quiet /\ ~due /\ ~triggered /\ view # Unknown => True(question, view)
=============================================================================
