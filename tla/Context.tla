------------------------------- MODULE Context -------------------------------
(***************************************************************************)
(* The life of a context: rmw_init, rmw_shutdown and rmw_context_fini, the *)
(* nodes and entities that are created in it and destroyed, and the zenoh  *)
(* session they share.                                                     *)
(*                                                                         *)
(* Threads call in at any time; rmw_shutdown() above all comes from a      *)
(* signal handler's thread while others are in the middle of a call.  The  *)
(* data of an entity is held by its node's map, by calls in progress and   *)
(* by the zenoh callback that is running; whoever lets go last destroys    *)
(* it.  The session is held by the context and by every entity's data, and *)
(* is closed by whoever lets go of it last, which waits for the graph      *)
(* callback to end.                                                        *)
(***************************************************************************)
EXTENDS Integers, FiniteSets

CONSTANTS
  Thread, Node,
  Handle,       \* addresses of rmw_publisher_t and the like
  Kinds,        \* of entities: "pub", "sub", "srv", "cli"
  MaxId,        \* bound: identifiers given out
  Failures,     \* a declaration, an undeclaration or an allocation may fail
  None

ASSUME ContextAssumption ==
  /\ Kinds \subseteq {"pub", "sub", "srv", "cli"}
  /\ MaxId \in Nat /\ Failures \in BOOLEAN
  /\ None \notin Thread \cup Node /\ None \notin Nat

VARIABLES
  impl,         \* context->impl: not made yet, there, or finalized
  is_shutdown, session, subscribed, next_entity_id,
  mutex,        \* mutex_ of the context's Data, when held across steps
  nodes,        \* nodes_
  entries,      \* pubs_, subs_, services_ and clients_ of the nodes
  building,     \* the thread in a create_*_data() of a node, which has its mutex
  owned,        \* entities that rcl has a handle of
  tokens,       \* liveliness tokens of the session
  closed,       \* the session is closed
  pc, job,      \* where in a call a thread is, and with what
  callback,     \* what zenoh's thread is running
  orphaned,     \* history: an entity was left behind by a call that failed
  raced,        \* history: calls that were in progress when is_shutdown_ was set
  crashed       \* history: the thread that used a session that was not there

data == <<is_shutdown, session, subscribed, next_entity_id>>
maps == <<nodes, entries, owned>>
past == <<orphaned, raced>>
vars == <<impl, data, mutex, maps, building, tokens, closed, pc, job, callback,
          past, crashed>>

Pc == {"idle", "node", "entity", "session", "make", "declare", "finish",
       "drop", "reset", "close"}
NoJob == [node |-> None, kind |-> None, handle |-> None, id |-> None,
          holds |-> FALSE]
Quiet == [what |-> "idle", id |-> None]

\* Every entity has callbacks that hold its data while they run, except that a
\* publisher's hold its events manager.
HasCallback(k) == k # "pub"

\* The data that somebody has a reference to, given the maps, the calls and
\* the callback.
Data(e, p, j, c) ==
  {x.id : x \in e} \cup {j[t].id : t \in {u \in Thread : p[u] = "drop"}}
    \cup ({c.id} \ {None})
\* Whoever has the session: the context, the data of entities, and calls.
Shared(s, e, p, j, c) ==
  s \/ Data(e, p, j, c) # {} \/ \E t \in Thread : j[t].holds

\* The session goes with the last who has it.
HadByAny == Shared(session, entries, pc, job, callback)
LetsGoLast(s, e, p, j, c) == HadByAny /\ ~Shared(s, e, p, j, c)

\* The tokens of a node and of entities go with their data.
TokensOf(e, p, j, c) == {n.id : n \in nodes'} \cup Data(e, p, j, c)

-----------------------------------------------------------------------------
Init ==
  /\ impl = "none"
  /\ is_shutdown = FALSE /\ session = FALSE /\ subscribed = FALSE
  /\ next_entity_id = 0
  /\ mutex = None
  /\ nodes = {} /\ entries = {} /\ owned = {}
  /\ building = [n \in Node |-> None]
  /\ tokens = {} /\ closed = FALSE
  /\ pc = [t \in Thread |-> "idle"] /\ job = [t \in Thread |-> NoJob]
  /\ callback = Quiet
  /\ orphaned = FALSE /\ raced = {} /\ crashed = None

Free == mutex = None
Calls(t) == crashed = None /\ pc[t] = "idle" /\ impl = "up"
\* A call that will need an identifier stays within the bound.
Room ==
  next_entity_id
    + Cardinality({t \in Thread : pc[t] \in {"node", "entity", "session"}}) <= MaxId
Goto(t, p, j) ==
  /\ pc' = [pc EXCEPT ![t] = p]
  /\ job' = [job EXCEPT ![t] = j]
Crash(t) ==
  /\ crashed' = t
  /\ UNCHANGED <<impl, data, mutex, maps, building, tokens, closed, pc, job,
                 callback, past>>

\* session_ is reset without mutex_: what another thread reads meanwhile may be
\* the session, null, or neither.
Torn == \E u \in Thread : pc[u] = "reset"
NoSession == ~session \/ Torn

\* A call returns and drops what it has.  If it let go of the session last (s:
\* the context's own session_ is left), it closes it first.
Return(t, s) ==
  LET p == [pc EXCEPT ![t] = "idle"]
      j == [job EXCEPT ![t] = NoJob]
  IN /\ job' = j
     /\ pc' = IF LetsGoLast(s, entries, p, j, callback)
              THEN [pc EXCEPT ![t] = "close"] ELSE p

-----------------------------------------------------------------------------
(* Faults: what some definitions below would be with a slip in the code.   *)
(* No specification uses them; each breaks one of the properties.          *)

\* is_shutdown() is not looked at.
CreateEntityUnchecked(t, k) ==
  /\ Calls(t) /\ Room /\ Free /\ k \in Kinds
  /\ \E x \in nodes :
       Goto(t, "entity", [NoJob EXCEPT !.node = x.node, !.kind = k])
  /\ UNCHANGED <<impl, data, mutex, maps, building, tokens, closed, callback,
                 past, crashed>>

\* The identifier of an entity that cannot be declared is given out again.
DeclareReusing(t, k) ==
  LET j == job[t] IN
  /\ pc[t] = "declare" /\ j.kind = k /\ crashed = None
  /\ building' = [building EXCEPT ![j.node] = None]
  /\ \/ /\ entries' = entries \cup {[node |-> j.node, kind |-> j.kind,
                                     handle |-> j.handle, id |-> j.id]}
        /\ tokens' = tokens \cup {j.id}
        /\ Goto(t, "finish", [j EXCEPT !.holds = FALSE])
        /\ UNCHANGED next_entity_id
     \/ /\ Failures
        /\ next_entity_id' = next_entity_id - 1
        /\ UNCHANGED <<entries, tokens>>
        /\ Return(t, session)
  /\ UNCHANGED <<impl, is_shutdown, session, subscribed, mutex, nodes, owned,
                 closed, callback, past, crashed>>

\* rmw_destroy_*() fails when it has taken the data out of the map.
DestroyEntityHalf(t, k) ==
  /\ Calls(t) /\ Free
  /\ \E e \in owned :
       /\ e.kind = k /\ building[e.node] = None
       /\ entries' = entries \ {e}
       /\ Goto(t, "drop", [NoJob EXCEPT !.node = e.node, !.kind = e.kind, !.id = e.id])
  /\ UNCHANGED <<impl, data, mutex, nodes, owned, building, tokens, closed,
                 callback, past, crashed>>

\* The data is let go of without shutdown().
DropOnly(t, k) ==
  /\ pc[t] = "drop" /\ job[t].kind = k /\ crashed = None
  /\ UNCHANGED <<impl, data, mutex, maps, building, tokens, closed, callback,
                 past, crashed>>
  /\ Return(t, session)

\* shutdown() holds mutex_ while it lets go of the session.
ResetSessionLocked(t) ==
  /\ pc[t] = "reset" /\ crashed = None /\ Free
  /\ session' = FALSE
  /\ UNCHANGED <<impl, is_shutdown, subscribed, next_entity_id, maps, building,
                 tokens, closed, callback, past, crashed>>
  /\ Return(t, FALSE)
  /\ mutex' = IF pc'[t] = "close" THEN t ELSE None

\* shutdown() closes the session for everybody.
ResetSessionClosing(t) ==
  /\ pc[t] = "reset" /\ crashed = None /\ callback = Quiet
  /\ session' = FALSE /\ closed' = TRUE /\ tokens' = {}
  /\ Goto(t, "idle", NoJob)
  /\ UNCHANGED <<impl, is_shutdown, subscribed, next_entity_id, mutex, maps,
                 building, callback, past, crashed>>

-----------------------------------------------------------------------------
\* rmw_init().  One that fails leaves nothing behind.
InitContext ==
  /\ impl = "none"
  /\ impl' = "up" /\ session' = TRUE /\ subscribed' = TRUE
  /\ UNCHANGED <<is_shutdown, next_entity_id, mutex, maps, building, tokens,
                 closed, pc, job, callback, past, crashed>>

-----------------------------------------------------------------------------
(* Nodes *)

\* rmw_create_node() finds the context in use, ...
CreateNode(t) ==
  /\ Calls(t) /\ Room /\ Free /\ ~is_shutdown
  /\ \E n \in Node :
       /\ \A x \in nodes : x.node # n
       /\ \A u \in Thread : job[u].node # n
       /\ Goto(t, "node", [NoJob EXCEPT !.node = n])
  /\ UNCHANGED <<impl, data, mutex, maps, building, tokens, closed, callback,
                 past, crashed>>

\* ... and create_node_data() makes the data of the node.
CreateNodeData(t) ==
  /\ pc[t] = "node" /\ crashed = None /\ Free
  /\ \/ NoSession /\ Crash(t)
     \/ /\ session
        /\ next_entity_id' = next_entity_id + 1
        /\ \/ /\ nodes' = nodes \cup {[node |-> job[t].node, id |-> next_entity_id]}
              /\ tokens' = tokens \cup {next_entity_id}
           \/ Failures /\ UNCHANGED <<nodes, tokens>>
        /\ Goto(t, "idle", NoJob)
        /\ UNCHANGED <<impl, is_shutdown, session, subscribed, mutex, entries,
                       owned, building, closed, callback, past, crashed>>

\* rmw_destroy_node(), which rcl calls when it has destroyed the node's
\* entities.  Entities left behind are destroyed here, under mutex_.
DestroyNode(t) ==
  /\ Calls(t) /\ Free
  /\ \E x \in nodes :
       /\ \A e \in owned : e.node # x.node
       /\ \A u \in Thread : job[u].node # x.node
       /\ nodes' = nodes \ {x}
       /\ entries' = {e \in entries : e.node # x.node}
  /\ IF LetsGoLast(session, entries', pc, job, callback)
     THEN pc' = [pc EXCEPT ![t] = "close"] /\ mutex' = t
     ELSE UNCHANGED <<pc, mutex>>
  /\ tokens' = tokens \cap TokensOf(entries', pc, job, callback)
  /\ UNCHANGED <<impl, data, owned, building, closed, job, callback, past, crashed>>

-----------------------------------------------------------------------------
(* Entities *)

\* rmw_create_publisher() and the like find the context in use, ...
CreateEntity(t, k) ==
  /\ Calls(t) /\ Room /\ Free /\ ~is_shutdown /\ k \in Kinds
  /\ \E x \in nodes :
       Goto(t, "entity", [NoJob EXCEPT !.node = x.node, !.kind = k])
  /\ UNCHANGED <<impl, data, mutex, maps, building, tokens, closed, callback,
                 past, crashed>>

CreatePublisher(t) == CreateEntity(t, "pub")
CreateSubscription(t) == CreateEntity(t, "sub")
CreateService(t) == CreateEntity(t, "srv")
CreateClient(t) == CreateEntity(t, "cli")

\* ... and its session valid, allocate the handle, ...
CheckSession(t, k) ==
  /\ pc[t] = "entity" /\ job[t].kind = k /\ crashed = None /\ Free
  /\ \/ NoSession /\ Crash(t)
     \/ /\ session
        /\ \E h \in Handle :
             /\ \A e \in owned : e.handle # h
             /\ \A u \in Thread : job[u].handle # h
             /\ Goto(t, "session", [job[t] EXCEPT !.handle = h])
        /\ UNCHANGED <<impl, data, mutex, maps, building, tokens, closed,
                       callback, past, crashed>>

CheckPublisher(t) == CheckSession(t, "pub")
CheckSubscription(t) == CheckSession(t, "sub")
CheckService(t) == CheckSession(t, "srv")
CheckClient(t) == CheckSession(t, "cli")

\* ... get the session and an identifier, ...
GetSession(t) ==
  /\ pc[t] = "session" /\ crashed = None /\ Free
  /\ \/ Torn /\ Crash(t)
     \/ /\ next_entity_id' = next_entity_id + 1
        /\ Goto(t, "make", [job[t] EXCEPT !.id = next_entity_id, !.holds = session])
        /\ UNCHANGED <<impl, is_shutdown, session, subscribed, mutex, maps,
                       building, tokens, closed, callback, past, crashed>>

\* ... and enter create_*_data() of the node.  A handle at the address of one
\* that was left behind is refused.
CreateData(t, k) ==
  LET j == job[t] IN
  /\ pc[t] = "make" /\ j.kind = k /\ crashed = None /\ building[j.node] = None
  /\ IF \E e \in entries : e.node = j.node /\ e.kind = j.kind /\ e.handle = j.handle
     THEN /\ Return(t, session)
          /\ UNCHANGED <<impl, data, mutex, maps, building, tokens, closed,
                         callback, past, crashed>>
     ELSE IF ~j.holds THEN Crash(t)
     ELSE /\ building' = [building EXCEPT ![j.node] = t]
          /\ pc' = [pc EXCEPT ![t] = "declare"]
          /\ UNCHANGED <<impl, data, mutex, maps, tokens, closed, job, callback,
                         past, crashed>>

CreatePubData(t) == CreateData(t, "pub")
CreateSubData(t) == CreateData(t, "sub")
CreateServiceData(t) == CreateData(t, "srv")
CreateClientData(t) == CreateData(t, "cli")

Entry(j) == [node |-> j.node, kind |-> j.kind, handle |-> j.handle, id |-> j.id]

\* The entity and its token are declared, and its data is put into the map.
DeclareEntity(t, k) ==
  LET j == job[t] IN
  /\ pc[t] = "declare" /\ j.kind = k /\ crashed = None
  /\ building' = [building EXCEPT ![j.node] = None]
  /\ \/ /\ entries' = entries \cup {Entry(j)}
        /\ tokens' = tokens \cup {j.id}
        /\ Goto(t, "finish", [j EXCEPT !.holds = FALSE])
     \/ /\ Failures
        /\ UNCHANGED <<entries, tokens>>
        /\ Return(t, session)
  /\ UNCHANGED <<impl, data, mutex, nodes, owned, closed, callback, past, crashed>>

PublisherMake(t) == DeclareEntity(t, "pub")
ServiceMake(t) == DeclareEntity(t, "srv")

\* A subscription does not use the session it was given: init() asks the
\* context for it again.
SubscriptionMake(t) ==
  /\ Free
  /\ \/ session /\ DeclareEntity(t, "sub")
     \/ /\ pc[t] = "declare" /\ job[t].kind = "sub" /\ crashed = None
        /\ NoSession /\ Crash(t)

\* A client whose token cannot be declared throws, through rmw_create_client():
\* the process goes on if somebody above catches it.
ClientMake(t) == DeclareEntity(t, "cli")

\* The name is copied.  If that fails the handle is freed, and the data of the
\* entity stays in the map.
Finish(t, k) ==
  LET j == job[t] IN
  /\ pc[t] = "finish" /\ j.kind = k /\ crashed = None
  /\ \/ owned' = owned \cup {Entry(j)} /\ UNCHANGED orphaned
     \/ Failures /\ orphaned' = TRUE /\ UNCHANGED owned
  /\ Goto(t, "idle", NoJob)
  /\ UNCHANGED <<impl, data, mutex, nodes, entries, building, tokens, closed,
                 callback, raced, crashed>>

FinishPublisher(t) == Finish(t, "pub")
FinishSubscription(t) == Finish(t, "sub")
FinishService(t) == Finish(t, "srv")
FinishClient(t) == Finish(t, "cli")

\* rmw_destroy_publisher() and the like take the data out of the map ...
DestroyEntity(t, k) ==
  /\ Calls(t) /\ Free
  /\ \E e \in owned :
       /\ e.kind = k /\ building[e.node] = None
       /\ owned' = owned \ {e}
       /\ entries' = entries \ {e}
       /\ Goto(t, "drop", [NoJob EXCEPT !.node = e.node, !.kind = e.kind, !.id = e.id])
  /\ UNCHANGED <<impl, data, mutex, nodes, building, tokens, closed, callback,
                 past, crashed>>

DestroyPublisher(t) == DestroyEntity(t, "pub")
DestroySubscription(t) == DestroyEntity(t, "sub")
DestroyService(t) == DestroyEntity(t, "srv")
DestroyClient(t) == DestroyEntity(t, "cli")

\* ... and let go of it.  Its shutdown(), if nobody else has it, undeclares the
\* token and lets go of the session.  (For services and clients the node's
\* mutex is still held; nothing that shutdown() waits for needs it.)
Drop(t, k) ==
  /\ pc[t] = "drop" /\ job[t].kind = k /\ crashed = None
  /\ UNCHANGED <<impl, data, mutex, maps, building, closed, callback, past, crashed>>
  /\ Return(t, session)
  /\ tokens' = tokens \cap TokensOf(entries, pc', job', callback)

ShutdownPublisher(t) == Drop(t, "pub")
ShutdownSubscription(t) == Drop(t, "sub")
ShutdownService(t) == Drop(t, "srv")
ShutdownClient(t) == Drop(t, "cli")

-----------------------------------------------------------------------------
(* Shutdown *)

\* rmw_shutdown() stops the graph subscriber under mutex_, ...
Shutdown(t) ==
  /\ Calls(t) /\ Free /\ ~is_shutdown
  /\ subscribed' = FALSE
  /\ \/ /\ is_shutdown' = TRUE
        /\ pc' = [pc EXCEPT ![t] = "reset"]
        /\ raced' = {u \in Thread : pc[u] # "idle"}
     \/ Failures /\ UNCHANGED <<is_shutdown, pc, raced>>
  /\ UNCHANGED <<impl, session, next_entity_id, mutex, maps, building, tokens,
                 closed, job, callback, orphaned, crashed>>

\* ... and lets go of the session without it.
ResetSession(t) ==
  /\ pc[t] = "reset" /\ crashed = None
  /\ session' = FALSE
  /\ UNCHANGED <<impl, is_shutdown, subscribed, next_entity_id, mutex, maps,
                 building, tokens, closed, callback, past, crashed>>
  /\ Return(t, FALSE)

\* Whoever let go of the session last waits for the graph callback to end.
Close(t) ==
  /\ pc[t] = "close" /\ crashed = None /\ callback = Quiet
  /\ closed' = TRUE /\ tokens' = {}
  /\ mutex' = IF mutex = t THEN None ELSE mutex
  /\ Goto(t, "idle", NoJob)
  /\ UNCHANGED <<impl, data, maps, building, callback, past, crashed>>

\* rmw_context_fini(), which rcl calls when nothing uses the context.
Fini ==
  /\ impl = "up" /\ crashed = None /\ Free
  /\ is_shutdown
  /\ nodes = {} /\ \A t \in Thread : pc[t] = "idle"
  /\ impl' = "fini"
  /\ UNCHANGED <<data, mutex, maps, building, tokens, closed, pc, job, callback,
                 past, crashed>>

-----------------------------------------------------------------------------
(* Zenoh's thread *)

Starts == crashed = None /\ callback = Quiet /\ ~closed

\* A token is declared or undeclared somewhere: update_graph_cache() ...
TokenArrives ==
  /\ Starts /\ subscribed
  /\ callback' = [what |-> "graph", id |-> None]
  /\ UNCHANGED <<impl, data, mutex, maps, building, tokens, closed, pc, job,
                 past, crashed>>

\* ... waits for mutex_; GraphCache and GraphWatch have what it does then.
UpdateGraph ==
  /\ crashed = None /\ callback.what = "graph" /\ Free
  /\ callback' = Quiet
  /\ UNCHANGED <<impl, data, mutex, maps, building, tokens, closed, pc, job,
                 past, crashed>>

\* A message, request or reply arrives, and the callback gets hold of the data.
SampleArrives ==
  /\ Starts
  /\ \E e \in entries : HasCallback(e.kind) /\ callback' = [what |-> "data", id |-> e.id]
  /\ UNCHANGED <<impl, data, mutex, maps, building, tokens, closed, pc, job,
                 past, crashed>>

\* The callback lets go of the data.  If it was the last to have it, the entity
\* is shut down, and the session perhaps closed, on zenoh's own thread.
SampleDone ==
  /\ crashed = None /\ callback.what = "data"
  /\ callback' = Quiet
  /\ UNCHANGED <<impl, data, mutex, maps, building, pc, job, past, crashed>>
  /\ IF LetsGoLast(session, entries, pc, job, Quiet)
     THEN tokens' = {} /\ closed' = TRUE
     ELSE /\ tokens' = tokens \cap TokensOf(entries, pc, job, Quiet)
          /\ UNCHANGED closed

-----------------------------------------------------------------------------
\* What a thread does once it has called in.
Proceed(t) ==
  \/ CreateNodeData(t) \/ GetSession(t)
  \/ CheckPublisher(t) \/ CheckSubscription(t) \/ CheckService(t) \/ CheckClient(t)
  \/ CreatePubData(t) \/ CreateSubData(t) \/ CreateServiceData(t) \/ CreateClientData(t)
  \/ PublisherMake(t) \/ SubscriptionMake(t) \/ ServiceMake(t) \/ ClientMake(t)
  \/ FinishPublisher(t) \/ FinishSubscription(t) \/ FinishService(t) \/ FinishClient(t)
  \/ ShutdownPublisher(t) \/ ShutdownSubscription(t)
  \/ ShutdownService(t) \/ ShutdownClient(t)
  \/ ResetSession(t) \/ Close(t)

Call(t) ==
  \/ CreateNode(t) \/ DestroyNode(t)
  \/ CreatePublisher(t) \/ CreateSubscription(t) \/ CreateService(t) \/ CreateClient(t)
  \/ DestroyPublisher(t) \/ DestroySubscription(t)
  \/ DestroyService(t) \/ DestroyClient(t)
  \/ Shutdown(t)

Next ==
  \/ InitContext \/ Fini
  \/ \E t \in Thread : Call(t) \/ Proceed(t)
  \/ TokenArrives \/ UpdateGraph \/ SampleArrives \/ SampleDone

\* Threads go on with what they are at, and callbacks end.
Fairness ==
  /\ \A t \in Thread : WF_vars(Proceed(t))
  /\ WF_vars(UpdateGraph) /\ WF_vars(SampleDone)

Spec == Init /\ [][Next]_vars /\ Fairness

-----------------------------------------------------------------------------
(* Properties *)

EntryType == [node : Node, kind : Kinds, handle : Handle, id : Nat]
JobType == [node : Node \cup {None}, kind : Kinds \cup {None},
            handle : Handle \cup {None}, id : Nat \cup {None}, holds : BOOLEAN]

TypeOK ==
  /\ impl \in {"none", "up", "fini"}
  /\ is_shutdown \in BOOLEAN /\ session \in BOOLEAN /\ subscribed \in BOOLEAN
  /\ next_entity_id \in Nat
  /\ mutex \in Thread \cup {None}
  /\ nodes \subseteq [node : Node, id : Nat]
  /\ entries \subseteq EntryType /\ owned \subseteq entries
  /\ building \in [Node -> Thread \cup {None}]
  /\ tokens \subseteq Nat /\ closed \in BOOLEAN
  /\ pc \in [Thread -> Pc] /\ job \in [Thread -> JobType]
  /\ callback \in [what : {"idle", "graph", "data"}, id : Nat \cup {None}]
  /\ orphaned \in BOOLEAN /\ raced \subseteq Thread
  /\ crashed \in Thread \cup {None}

\* No identifier is given to two nodes or entities of the session, whatever
\* fails and however calls interleave: tokens and GIDs rely on it.
IdsUnique ==
  /\ \A x \in nodes : \A e \in entries : x.id # e.id
  /\ \A x, y \in nodes : x.id = y.id => x = y
  /\ \A d, e \in entries : d.id = e.id => d = e
  /\ \A t \in Thread : job[t].id # None /\ pc[t] # "finish" =>
       /\ \A x \in nodes \cup entries : x.id # job[t].id
       /\ \A u \in Thread \ {t} : job[u].id # job[t].id

\* The ROS graph that other processes see is what rcl has: when no call and no
\* callback is in progress, the tokens of the session are those of the nodes
\* and entities in use, unless a call that failed left an entity behind.
GraphShowsWhatIsThere ==
  /\ impl = "up" /\ crashed = None /\ ~orphaned /\ ~closed
  /\ \A t \in Thread : pc[t] = "idle"
  /\ callback = Quiet
  => tokens = {x.id : x \in nodes \cup owned}

\* rmw_shutdown() in one thread does not take the session away from the
\* entities that are still in use in others.
SessionOutlivesEntities ==
  closed => /\ ~session /\ entries = {} /\ callback.what # "data"
            /\ \A t \in Thread : ~job[t].holds

\* "We specifically do *not* hold the mutex_ while tearing down the session":
\* nobody closes the session, and so waits for the graph callback, with the
\* mutex that the callback waits for.
CloseWithoutMutex ==
  ~orphaned => \A t \in Thread : pc[t] = "close" => mutex # t

\* A thread uses a session that is not there only in a call that was in
\* progress when rmw_shutdown() set is_shutdown_; later calls are refused.
NoSessionOnlyInRace == crashed # None => crashed \in raced

\* Every call returns, unless the process crashed or something was left behind.
CallsReturn ==
  \A t \in Thread :
    pc[t] # "idle" ~> pc[t] = "idle" \/ crashed # None \/ orphaned
=============================================================================
