# rmw_zenoh in TLA+

`rmw_zenoh_cpp` is the ROS 2 middleware layer over Zenoh: it turns the calls of
`rmw.h` into Zenoh sessions, publishers, queryables and liveliness tokens. These
modules specify the parts of it whose correctness depends on the order in which
threads, callbacks and messages come, check them with TLC on small instances, and
prove the central properties with TLAPS for every instance.

Paths below are relative to the root of the repository; `detail/` stands for
`rmw_zenoh_cpp/src/detail/`.

## 1. The system

### Components

| Component | State | Operations | What makes it correct |
|---|---|---|---|
| `rmw_wait` and the wait set (`rmw_zenoh.cpp`, `detail/rmw_wait_set_data.hpp`) | `condition_mutex`, `condition_variable`, `triggered` | `rmw_wait`: scan and attach, sleep, detach, report | no lost wakeup, no deadlock, no wakeup without cause, nothing left attached |
| Guard conditions (`detail/guard_condition.*`) | `has_triggered_`, `wait_set_data_` | trigger, attach, detach | a trigger is seen by exactly one wait |
| Events (`detail/event.*`, `rmw_event.cpp`) | status per event type, `unread_count_`, callbacks, the attached wait set | `update_event_status`, `take_event_status`, set/trigger callback, attach, detach, notify | counts are exact, each change is told once, no count is lost between status and callback |
| Graph cache (`detail/graph_cache.*`) | `graph_` (nodes with their endpoints), `graph_topics_`, `graph_services_`, `event_callbacks_`, `unregistered_event_changes_` | `parse_put`, `parse_del`, event registration, queries | the cache converges to the tokens in the network; its halves agree; matched counts are exact |
| Context (`detail/rmw_context_impl_s.*`, `rmw_init.cpp`) | session, graph subscriber, node map, `is_shutdown_`, entity ids | start-up, `update_graph_cache`, create/get/delete node, shutdown | start-up misses nothing, nothing runs after shutdown, ids are unique |
| Node (`detail/rmw_node_data.*`) | maps of publishers, subscriptions, services, clients; liveliness token | create/get/delete of each, shutdown | an entity is found until it is deleted, tokens match entities |
| Publisher (`detail/rmw_publisher_data.*`) | `sequence_number_`, zenoh publisher, token, events | `publish`, `publish_serialized_message`, shutdown | numbers leave in order, buffers are given back |
| Subscription (`detail/rmw_subscription_data.*`) | `message_queue_`, `last_known_published_msg_`, callback, wait set, events | `add_new_message`, take, set callback, attach, detach, shutdown | history QoS, order, exact losses, every message told |
| Service (`detail/rmw_service_data.*`) | `query_queue_`, `sequence_to_query_map_` | `add_new_query`, `take_request`, `send_response`, shutdown | each request is answered at most once, to the client that asked |
| Client (`detail/rmw_client_data.*`) | `sequence_number_`, `reply_queue_` | `send_request`, `add_new_reply`, `take_response`, shutdown | a response carries the number of its request |
| Buffer pool (`detail/zenoh_utils.*`) | `buffers_`, `size_`, `max_size_` | `allocate`, `deallocate` | `size_` is what the pool accounts for, no buffer is lost |
| Shared memory (`detail/zenoh_utils.*`) | provider | allocate, fall back | a failure falls back to the pool |
| Liveliness tokens (`detail/liveliness_utils.*`) | none | entity to key expression and back, mangling | the round trip is the identity |
| QoS (`detail/qos.*`, `rmw_qos.cpp`) | none | best available, adaptation | the chosen profile is compatible with every endpoint |
| Attachments, type support, CDR, hashes, configuration, logging, `rmw_zenohd`, security tools, vendored zenoh | none or read once | conversions, start-up | not about control |

### How they interact

* The executor's threads call `rmw_wait`, then take from the queues and statuses
  that were reported. Zenoh calls back on threads of its own: a subscription's
  sample handler, a queryable, a reply handler, the liveliness subscriber.
* Data goes *up* through `add_new_message` / `add_new_query` / `add_new_reply`,
  which hold the entity's `mutex_`, call the executor's callback, and wake the
  attached wait set under its `condition_mutex`. `rmw_wait` takes these two locks
  in the opposite order. Whether that deadlocks depends on which sources of a wait
  set share a mutex: it does not when no two do, and it does with two events of one
  entity, or with a subscription that comes after one of its events.
* A subscription raises MESSAGE_LOST on its `EventsManager` while it holds
  `mutex_`. The graph cache raises matched events while it holds `graph_mutex_`
  and `events_mutex_`.
* Each context declares a liveliness token per node and endpoint. Every context,
  including the one that declared it, hears of it through its liveliness
  subscriber, and `update_graph_cache` feeds the cache and triggers the graph guard
  condition.
* A publisher numbers its messages in the attachment; the subscription uses the
  numbers to count what is missing.

### What is hard

Lock order inversions between waiters and notifiers; a source that becomes ready in
the middle of a scan; notifications that come late; queues at their depth; graph
changes during start-up, out of order, or twice; counters updated from both ends of
a match; callbacks set while data arrives; shutdown racing with callbacks; early
returns that forget a buffer. `PROJECT.json` lists each of these under `hazards`, at
the line where it bites, with the properties that cover it, or why none does.

## 2. Modules

| Module | Models | Extended by |
|---|---|---|
| `WaitSet` | `rmw_wait` against the threads that raise guard conditions, events and queues | `MCWaitSet`, `WaitSet_proofs` |
| `GraphCache` | liveliness tokens, context start-up, the graph cache and the matched events | `MCGraphCache`, `GraphWatch`, `GraphCache_proofs` |
| `Directory` | abstract: what a graph promises its readers, each entity shown once and no part without its whole | instantiated by `GraphCache` |
| `GraphWatch` | the queries of the graph, the graph guard condition, and a user who asks again whenever it is triggered | `MCGraphWatch`, `GraphWatch_proofs` |
| `QosProfile` | QoS profiles: defaults, adaptation, compatibility, their form in a token | `LivelinessToken` |
| `LivelinessToken` | what an entity's liveliness token says, and what a parser makes of it | `Liveliness_proofs`; instantiated by `MCGraphWatch` |
| `KeepLast` | abstract: a log with a reader's cursor, the promise of the history QoS | instantiated by `PubSub` |
| `PubSub` | publishers with several threads, the network, one subscription | `MCPubSub`, `PubSub_proofs` |
| `AtMostOnceCall` | abstract: what a client of a service is promised of each call | instantiated by `ServiceRpc` |
| `ServiceRpc` | clients with several threads, the network, the servers of one service | `MCServiceRpc`, `ServiceRpc_proofs` |
| `Publish` | `publish()`, the buffer pool, and the memory zenoh holds | `MCPublish`, `Publish_proofs` |
| `Context` | context, nodes and entities from `rmw_init` to `rmw_context_fini`, and the session they share | `MCContext`, `Context_proofs` |

`PROJECT.json` maps every definition to the lines it stands for. Besides the three
abstract modules that are instantiated, `GraphWatch` adds the context's part to
`GraphCache`, and `LivelinessToken` is about what `GraphCache` assumes, that a token
stands for one entity. The others are independent: `WaitSet` takes a queue as a flag
(empty or not), because the wake-up protocol depends on nothing else, and `PubSub`
takes the subscription's operations as atomic, because each is one critical section
of `mutex_`, as `ServiceRpc` does for those of clients and servers; `WaitSet` and `PubSub` agree on
when `add_new_message` raises MESSAGE_LOST (a gap) and when it wakes.

### WaitSet

`ready`, `attached` are the flag and the `wait_set_data_` pointer of each source;
`triggered` is the wait set's. `wpc`/`slot` are where a waiter is in `rmw_wait`, and
`npc`/`src`/`outer` where a notifier is in `trigger`, `add_new_*` or
`notify_event`; `owner` is the notifier inside a source's mutex. One action is one
critical section, or the part of one before a lock that may have to be waited for.

| Action | Code |
|---|---|
| `Begin`, `CheckAndAttach`, `Sleep` | `rmw_wait` up to the condition variable; `condition_mutex` is held (`HoldsConditionMutex`) and a source's mutex is taken and released in each `CheckAndAttach`. A ready source ends the scan |
| `Wake`, `Timeout` | the wait with its predicate `triggered`, its timeout, and the reset of `triggered` |
| `Detach`, `Return` | the loops that detach each source and leave only the ready ones non-null |
| `Enter`, `Fill`, `Signal` | `GuardCondition::trigger`, `add_new_message`, `add_new_query`, `add_new_reply`: mutex of the source, data, then `condition_mutex` if a wait set is attached |
| `UpdateEventStatus`, `EnterNotifyEvent`, `Signal` | `update_event_status`: the status under one mutex, the notification under another critical section |
| `ReportLost` | MESSAGE_LOST raised by `add_new_message` inside `mutex_` |
| `TakeData`, `TakeEvent` | the executor, or another thread, takes |

A wait set is named by the thread that waits on it: rcl forbids two threads in
`rmw_wait` with one wait set. `Slots` has the sources in the order in which `rmw_wait`
checks them: guard conditions, events, subscriptions, services, clients. `MutexOf` gives
all events of one `EventsManager` the one `event_condition_mutex_` that they share, and
every other source a mutex of its own.

### GraphCache

`alive` is the set of tokens declared, `inbox[s]` the changes of session `s` that the
context has not been given yet. `nodes`/`ents` are `graph_`, `index` is
`graph_topics_` and `graph_services_` together (an endpoint determines its place in
them), `total` is `total_nodes_in_graph_`; `delivered` sums what a local endpoint's
event callback was told, `pending` is `unregistered_event_changes_`.
`Query` is the liveliness query of the constructor, `Subscribe` the declaration of the
liveliness subscriber with `history = true`, `UpdateGraphCache` one sample. The history goes
through the inboxes like every later change, in any order within a session and at any time
after `Subscribe`, because `update_graph_cache` does not tell the two apart: a token that the
query has returned is put twice. `Ordered` says whether the changes of a session come in
order, `CalmStart` whether nothing leaves before the subscriber is there (new tokens may
come at any time): the code relies on both. `recounted[e]` is a history that the code does
not keep, of the peers of a local endpoint `e` that were put once more when `e` was matched
with them already.

`Directory` gives each entity a stage (unknown, shown, dropped) and lets it advance only.
`Stage` in `GraphCache` maps the cache and the puts on their way to it: a token is shown
when the cache has it, dropped when it is not there and its put has come. `Whole` maps an
endpoint to its node.

### GraphWatch

`Update` is `UpdateGraphCache` with `due` set, and `Trigger` the trigger that follows it;
nothing else changes the cache in between, because `update_graph_cache` holds the mutex
of the context, but `Ask` takes the lock of the cache only and may come there. `Notice`
is the user's `rmw_wait`, which clears the guard condition. Each query is an operator
over `nodes`, `ents` and `index`, and `Answers` the calls of `rmw.h`. A query by the name
of a node has an answer for every node of that name, because the cache is a multimap and
takes any. The matched counts are read without a lock: while `due` they may be
anything (`RacedCount`).

### QosProfile and LivelinessToken

A name is a sequence of characters, a token a record of its parts, an optional value a
sequence of at most one. `Elide` and `Restore` leave out a value that is the default, and
put it back; `BeforeEmpty` cuts a token at the first empty part, as the code does. `Entity`
is the set of entities that sessions have: rcl lets no name through that is empty or has
a percent sign, the character that stands for a slash in a token. An empty enclave would
cut the token off after the entity's type, and the policy `MANUAL_BY_NODE`, which the
maps do not have, makes `qos_to_keyexpr` throw; `Entity` and `Profile` leave both out.
The GID of an entity is a hash of its token and is taken to be without collisions.

### Publish

A call first finds the publisher in the map of its node (`Find`), which gives it a
`shared_ptr`; `Destroy` takes the publisher out of the map, and whoever drops the last
reference runs the destructor, the only caller of `PublisherData::shutdown()`
(`DropReference`). A thread that has found its publisher goes into `publish()` or into
`publish_serialized_message()`.

In `publish()`, `Begin` takes `mutex_`, `GetShm`, `GetFromPool` and `GetOwn` are the three
sources of memory in the order the code tries them, `Serialize` and `Put` the rest;
`BadAlloc` and `SerializeFails` are its error returns. In `publish_serialized_message()`,
`RefuseSerialized` is the return for a malformed message, before the lock;
`BeginSerialized` takes `mutex_` and a number without a look at `is_shutdown_`, and
`PutSerialized` has both branches, the one that asks `*sess_` for shared memory and the one
that copies to a vector: zenoh owns what either hands over.

`memory` is what malloc has given out, `content` what is written there, `flying` the
payloads zenoh holds, and `Release` is the deleter that zenoh calls whenever it likes.
`AllocateNew`, `Recycle` and `AllocateFails` are `BufferPool::allocate`. The pool goes with
its last reference, of the context or of a deleter. Memory from the shared memory provider
is zenoh's, and is not followed.

### Context

`entries` are the maps of the nodes, `owned` the handles rcl has; the two differ only while
a call is in progress and when one failed. `job` is what a call has got so far, and
`callback` what zenoh's thread runs. A creation goes through

| Action | Code |
|---|---|
| `CreatePublisher` and the like | the checks of `rmw_create_publisher` up to `is_shutdown()` |
| `CheckPublisher` and the like | `session_is_valid()`, and the handle |
| `GetSession` | `session()` and `get_next_entity_id()` |
| `CreatePubData` and the like | `create_pub_data` takes the node's mutex and refuses a handle it has |
| `PublisherMake` and the like | the entity, its token, and the insertion into the map |
| `FinishPublisher` and the like | the name is copied, or the handle freed |

and a destruction through `DestroyPublisher` (the data leaves the map) and
`ShutdownPublisher` (it is let go of). The four kinds share the parametrised actions
`CreateEntity` to `Drop`; they differ where the code does: a subscription asks the context
for the session again, and a publisher's callbacks do not hold its data. `Return` closes
the session when the call was the last to hold it, which takes a step of its own (`Close`),
because it waits for the graph callback. `Shutdown` is `rmw_shutdown` under `mutex_`, and
`ResetSession` what it does after. A thread that finds the session gone, or reads it while
it is being reset, crashes (`crashed`): undefined behaviour is taken as its worst.

What was read but is not told apart: services and clients are destroyed under the node's
mutex, so fewer interleavings are possible than the model has; `ServiceData::shutdown`
leaves its token to the destructor that follows it, because `initialized_` is never set,
while here it goes with the shutdown, so `GraphShowsWhatIsThere` does not see a service's
token that lingers in between;
a client whose token cannot be declared throws through `rmw_create_client`, which the model
takes as a failure.

### PubSub

`Stamp` and `Put` are the two halves of `publish` around which `mutex_` is held; a
put that fails, or is refused because the session is closed, has used its number.
`Lose` drops a message in the network. `AddNewMessage` is the whole of
`add_new_message`: discard, loss detection, `last_known_published_msg_`, queue,
callback. `received`, `lastTaken`, `told` and `lostTaken` are histories that the code
does not keep. The sequence number starts at 1, and 0 stands for "no number yet".

### ServiceRpc

A request is known by the client and the number in its attachment, and is a *call* of
each server of the service, because the querier's target is `ALL_COMPLETE`.

| Action | Code |
|---|---|
| `SendRequest`, `Get` | the two halves of `send_request`: numbering under `mutex_`, then `querier_.get` without it. `sending` is the number a thread has between the two. A client that has been shut down in between has no querier: the call is dropped |
| `LoseQuery`, `LoseReply`, `Timeout` | external: the network, and zenoh's timeout, after which the reply callback is called no more |
| `AddNewQuery`, `TakeRequest`, `SendResponse` | the functions of these names, each one critical section of the server's `mutex_`. `openQueries` is `sequence_to_query_map_`, whose two levels are the two fields of a request |
| `ReplyCallback`, `AddNewReply` | the callback given to `querier_.get`: its look at `is_shutdown_`, and the queueing, in two critical sections. `arriving` holds the replies between the two |
| `TakeResponse` | `take_response` |
| `ShutdownService`, `ShutdownClient` | `shutdown`; queues and map keep what they hold. A server that is shut down still gets requests, because `initialized_` is never set and the queryable stays |

`responded`, `delivered` and `dropped` are histories. `Faults` says what may go wrong;
the disjuncts it guards are the error returns of the code. Wherever the code drops a
request or a response, the action says so by adding the call to `dropped`, and
`OnePlace` checks that nothing disappears otherwise. The map's key is a hash of the
client's gid, taken to be without collisions; zenoh is taken to hand over a query and
a reply at most once.

`AtMostOnceCall` gives each call a stage (new, sent, executed, answered, delivered,
dropped) and lets it advance one stage at a time. `Stage` in `ServiceRpc` maps the
places of a call to stages.

## 3. Runs

| Run | Expected | Question, bounds |
|---|---|---|
| `waitset_executors` | pass | two waiters, one with a guard condition and an event, one with a subscription that may report losses as another event of the same `EventsManager`, two notifiers, all kinds of timeout; other threads take the first event's status too. All safety properties. Two notifiers are what it takes for one to be inside a source's mutex while another raises the source's event |
| `waitset_wakes` | pass | one waiter, two notifiers, a guard condition, a service and an event, each with a mutex of its own, under fairness: the leads-to properties |
| `waitset_two_events` | violation | a subscription and two events of its `EventsManager` in one wait set: deadlock |
| `waitset_late_event` | violation | an event notified after its status has been taken: a wait returns with nothing |
| `graph_ordered` | pass | a local and a remote node of one name, a publisher of the local one, a subscription of its topic and a service of the other; every order of declaring and undeclaring, each token once; a user with one of three questions, about a node, a matched count and a server. Three endpoints are enough for a remote peer to be there at the query, to come again with the history before or after the local publisher is put, and to be matched a second time; with a fourth, and every order of the history, the run does not end in five minutes. `AnswersAreTrue` goes through all questions. The `ASSUME`s of `MCGraphWatch` evaluate tokens and profiles on a few hundred entities |
| `graph_reordered` | violation | the same with the changes of a session out of order |
| `graph_startup` | violation | the same with tokens that leave between query and subscriber |
| `graph_two_qos` | violation | a publisher and subscriptions of two QoS profiles on two nodes of the context, so that no history is in the way |
| `pubsub_keep_last` | pass | two publishers, one used by two threads, 4 and 2 messages, depth 2: enough for a gap, a full queue and two numbers in flight at once. The refinement of `KeepLast` is checked as a property |
| `rpc_calls` | pass | a client used by two threads with two requests, another with one, one server with a queue of 2, reply queues of 1, every fault: enough for two numbers in flight at once, equal numbers of two clients open together, and both queues overflowing. The refinement of `AtMostOnceCall` is checked as a property |
| `publish_pool` | pass | two publishers with a thread each, three addresses, messages of three sizes (the largest goes to shared memory) and a pool of size 4 that cannot hold two large ones: enough for a buffer to be recycled, to grow, and to be refused, for the two threads to meet at the pool, and for a publisher to be destroyed before, between and under its thread's calls of either kind |
| `context_lifecycle` | pass | three threads, one node, two handles, all kinds of entities, three identifiers, every failure: enough for a destruction, a creation and a shutdown at once |

In the `graph_*` runs a token is declared at most once (entity ids are never reused),
so the system may stop and deadlock is not checked; likewise in `rpc_calls`, when every
client has used its numbers, in `publish_pool`, and in `context_lifecycle`, where a context
is initialised once. `waitset_two_events`
is about liveness; the deadlock is meant to be found by the leads-to property. Elsewhere
deadlock is checked.

Bounds: `MaxSeq` bounds the messages of a publisher (`PubSub`, `Publish`) and the
requests of a client, `MaxId` the identifiers of a session. `WaitSet` has no bound: its counters are
positions in a wait set. `GraphCache` is bounded by its tokens.

### Fairness

`FairSpec` in `WaitSet` asks for weak fairness of the steps of a thread that hold no
competition (sleeping, waking, returning, filling, a timeout that has run out), and
strong fairness of those that lock a mutex others lock and unlock over and over. A
thread that has started a critical section finishes it, and `std::mutex` is taken to
be free of starvation. Nothing is asked of the application: nobody has to call
`rmw_wait`, to take, or to raise anything.

`FairSpec` in `ServiceRpc` asks more, because a call needs both applications: zenoh
delivers what it does not lose, and executors keep taking requests and responses and
responding to what they took. Weak fairness is enough, since a step that is enabled
stays so until it is taken or the entity is shut down. Nothing is asked of losses,
timeouts and shutdowns, which may or may not happen.

`Spec` of `Context` has weak fairness of a thread's step in the middle of a call, and of the
end of a callback: nothing else is needed, because no step that waits for `mutex_` or a
callback is disabled and enabled over and over with the session closing but once.

### Properties

* `NoLostWakeup`: a sleeping waiter with a ready source has `triggered` set or a
  notifier on its way. `NothingLeftAttached`: no source refers to a wait set whose
  wait is over. `NoLockCycle`: no set of threads waits in a circle, although the two
  sides lock in opposite orders. `NoEmptyReturn`: `triggered` never survives into a
  later wait.
* `ReadyAfterCheckIsNoticed`, `ReadyWakesSleeper`, `TimedWaitReturns`: under fairness.
  These three and `NoLockCycle` are not true of every wait set that the interface
  allows: they need sources whose mutexes are their own within a wait set, and no
  subscription after one of its events (see `NoDeadlock` below). `waitset_two_events` is
  what happens otherwise; the timeout of a timed wait does not help there, because
  `rmw_wait` hangs before it sleeps.
* `IndexMatchesNodes`: the per-node and the per-topic maps have the same endpoints.
  `Converges`: once all changes are in, the cache is the network.
  `MatchedCountAccounted`: what an endpoint was told of its matches, with what is kept
  for it, is the number of its peers and of those that the history put once more
  (`recounted`). `MatchedCountExact`, without the second summand, is what an application
  expects, and the code does not keep it: when the put of a new local publisher is taken in
  before the one that the history has for a subscription the query has returned already,
  the publisher is told of the subscription twice, and one match stays with it after the
  subscription is gone. `NothingWithheld`: nothing is kept from an
  endpoint with a callback. `NoFlicker`: an entity drops out of the graph only when it
  or its node has left, and what dropped out never comes back, a node no more than an
  endpoint of which something is put late.
* Two more properties of `GraphCache` are stated and proved but belong to no run.
  `ShowsOnce`, the refinement of `Directory`, of which `NoFlicker` is the part a reader
  notices; and `NothingMissed`, the half of `Converges` that holds on every network:
  disorder and a busy start-up leave ghosts in the graph, they never hide what is there.
* `InSequence`, `LossExact`, `EveryMessageTold`, `QueueIsNewest`, `KeepsLast`: order,
  losses, callbacks and history of a subscription.
* `OnePlace`: a call that was sent is in exactly one of the network, the queues, the map
  and the histories, and queues hold nothing twice. `OwnResponse`: what comes back was
  made for that very request and is queued at the client that sent it. `AtMostOnce`: the
  refinement. `NoCallHangs`: under fairness every call is delivered or dropped, or one of
  its ends is shut down.

* `AnswersAreTrue`: when no change is on its way, every query is answered with what the
  network is. `WatchedAnswerIsCurrent`: a user who asks again whenever the guard condition
  is triggered ends with the truth, although a query may run between the change and the
  trigger, and a matched count while the cache changes.
* `PayloadIntact`: zenoh's memory is not freed or written to, whatever is reused.
  `PoolWithinLimit`: all the memory of the pool, wherever it is, is within its limit.
  `NoMemoryLost`: nothing leaks except what the code forgets when a buffer may not grow
  (`refused`) or a serialization or an allocation fails (`failed`); the repository's README
  says that buffers return to the pool, which holds but for these two returns.
  `PublishHoldsSession`: a publisher is not shut down under a call that has found it, so
  `sess_` is not null where `publish_serialized_message()` uses it without a look at
  `is_shutdown_`.
* `IdsUnique`, `GraphShowsWhatIsThere`, `SessionOutlivesEntities`, `CloseWithoutMutex`,
  `NoSessionOnlyInRace`, `CallsReturn`: see the comments in `Context`. The exception
  `orphaned` is an entity left in its node's map when its name could not be copied: it is
  destroyed with the node, under `mutex_`, and if the session goes with it the graph
  callback waits for the thread that waits for it.

### Disagreements with the documentation

1. **Two events of one entity** (`waitset_two_events`). The comment in
   `rmw_wait_set_data.hpp` describes a scan without the lock; `rmw_wait` scans with it. All
   events of an `EventsManager` share `event_condition_mutex_`, and `notify_event` holds it
   while it takes `condition_mutex`. With the first event attached and the second about to
   be checked, each thread holds what the other needs. A subscription that is checked after
   its own MESSAGE_LOST event hangs likewise, because `add_new_message` keeps `mutex_`
   while it raises the event.
2. **A late event** (`waitset_late_event`). `update_event_status` publishes the status
   in one critical section and notifies in another. A wait, take and second wait fit
   in between, and the second, which has no timeout, returns `RMW_RET_TIMEOUT` with every
   slot null (`rmw_zenoh.cpp:2361`).
3. **Tokens out of order** (`graph_reordered`). `graph_cache.cpp` calls a deletion
   before the creation harmless; the creation that follows is kept for good.
4. **A gap at start-up** (`graph_startup`). Between `liveliness_get` and the liveliness
   subscriber a deletion is not seen. The subscriber's history repairs missed
   creations (`CacheMissesNothing`), not missed deletions.
5. **Matched events over several QoS profiles** (`graph_two_qos`). The total is reported
   inside the loop over QoS entries, once per entry, as a running sum.

## 4. Proofs

Every proof is checked by TLAPS without assumptions other than the `ASSUME` of its
module, and those named in the theorem.

### WaitSet_proofs

* `TypeCorrect`: type invariant, with `Raising`, which says what a notifier at each
  point of its code is raising.
* `WakeupsAreNotLost` (assumes `Disjoint`: no source in two wait sets). The
  inductive invariant says, for every slot a waiter has passed in its scan, that the
  source is attached to it and either not ready, or has been noticed, or has a notifier
  on its way. `NoLostWakeup` alone is not inductive: it says nothing before the waiter
  sleeps. `Disjoint` is needed because a second attach replaces the pointer.
* `WaitsDetach`: a source is attached to a wait set only if the waiter has passed it in
  the scan and not yet in the detaching loop.
* `NoDeadlock` (assumes `RankedBy`: the mutexes have ranks such that each wait set checks
  its sources in strictly descending rank, and a subscription does not rank below the
  events of its `EventsManager`). A blocked notifier waits for a waiter that is scanning,
  which has attached the notifier's source and wants a mutex of lower rank; whoever has
  that one is blocked, if at all, with a mutex of no higher rank. So the ranks go down
  along a chain of blocked threads, and it ends. Wait sets may share sources and mutexes,
  and a MESSAGE_LOST event may be waited for, in a wait set without its subscription, or
  after it. Since `rmw_wait` checks events before subscriptions, the wait sets that cannot
  be ranked are those with two events of one entity, those with a subscription that reports
  losses and any of its events, and sets that check sources of one mutex in opposite
  orders. For the first `waitset_two_events` shows the deadlock; that `RankedBy` is the
  weakest condition is not claimed.
* `ReturnsAreNotEmpty` (assumes `OwnGuards`: a guard condition that nobody else takes from
  is in one wait set). `NoEmptyReturn` speaks of a wait that is over. `Kept` follows what
  woke it: a source is ready when `triggered` is seen, it is reported or still to be looked
  at while the loops detach, and only the waiter itself may take it. That it is ready when
  it is signalled is `Filled`, which needs `Holding`, because a notifier works under the
  mutex of its source. Both leave events out, whose status may be taken in between
  (`waitset_late_event`).

### GraphCache_proofs

* `TypeCorrect`, `CacheConsistent`: for any sessions, nodes and endpoints, with or
  without order and with or without a calm start. The invariant adds that the
  endpoints of a node are its own, so that a deleted node leaves nothing behind.
* `NoChangeIsWithheld`, for any network: a status is kept for later only while its endpoint
  has no callback.
* `CacheConverges` (assumes `Ordered` and `CalmStart`; `graph_reordered` and `graph_startup`
  show that neither can be dropped). `Converges` says nothing while changes are on their
  way, so `DeliveryInv` says what they are: a session's changes put a token before they
  delete it (`PutThenDel`) and an endpoint before they delete its node (`NodeFirst`), nothing
  is deleted or on its way before the subscriber is there (`Starting`), and from then on
  (`Foreseen`) the cache has nothing whose deletion has been taken in (`Standing`) and
  everything whose put has been and whose deletion has not (`Held`), except endpoints that
  went with their node. What the query has put and the history will put again is in the
  cache without being `Held`, which is why the two are told apart. `SubscribeHistory` and
  `HistoryOf` say that the history has each token once.
* `MatchedIsAccounted` (assumes `Uniform` too: the endpoints of a topic have one QoS profile
  and one key expression, without which `graph_two_qos` is a counterexample). `Counted`
  relates the statuses to the peers in the cache and to `recounted`; `Fresh` says that an
  endpoint whose put has not been taken in has no status yet, and, of a peer, that it has
  not been counted twice. An endpoint of the context is never put twice, because the context
  has none before it has its subscriber; so what is put again is a peer of another session,
  once (`FirstIsNews`). `CountedOnce` is where one QoS profile is needed: the loop then sums
  one entry.

* `CacheMissesNothing`, for any network. `NothingForgotten` says of what is alive that the
  cache has it or its put is on its way; it is kept because no deletion of it is on its way
  (`DelsAreOld`), tokens being used once, because a node that is deleted takes only its own
  endpoints with it, and because the history has every token: `Histories` are injections
  between finite sets of one size, so onto (`HistoryOf`).
* `ImplementsDirectory` (assumes `Ordered`, without which an endpoint that is put after its
  node was deleted brings the node back, and `CalmStart`, so that every token that is used is
  seen). By `Foreseen` and `PutThenDel` a change touches one stage (`FirstChange`), except a
  node's deletion, which takes the endpoints it has left; those are `Gone` in the sense of
  `Directory`. A put finds its token unknown or, when the query has shown it, shown: it then
  leaves the stages alone.
* `GraphDoesNotFlicker` follows step by step from the refinement: `Show` takes what is
  unknown, `Drop` what is `Gone`, and everything else leaves the stages alone.

### GraphWatch_proofs

* `AnswersTrue`: under the assumptions of `CacheConverges` a cache with nothing on its way is
  the network, node by node and endpoint by endpoint, and each query is evaluated on it.
* `WatchedIsCurrent`: `WatchInv` adds that the user's last answer is what the cache would
  answer now, unless a trigger is due or the guard condition is triggered.

### PubSub_proofs

* `TypeCorrect`, from `Locked`: a thread with a stamped number holds the mutex, and its
  number is below `next`.
* `ReadInSequence`, for any number of threads and publishers. The invariant `InOrder`
  chains what was taken, what is queued, what arrived last, what is in the network and
  what a thread is about to put; `InSequence` alone says nothing of messages still in
  the network.
* `MessagesAreTold`: `EveryMessageTold` is inductive by itself.
* `QueueHoldsNewest`: with the length of the queue against the depth and the log.
* `ImplementsKeepLast`: from that invariant, every step is a step of `KeepLast` or leaves
  its variables alone. The theorem covers KEEP_ALL and every depth, of which the run
  checks one.
* `LossesAreExact`: `NewestKnown` says that `last_known_published_msg_` is the newest that
  arrived of its publisher. By `InOrder` the next one is newer, so the messages that become
  missing are those between the two, none of which was missing before; their number is the
  gap that the code adds.

### ServiceRpc_proofs

* `TypeCorrect`, from lemmas on what `Push` and `Tail` do to a queue.
* `CallsAreAtOnePlace` and `ResponsesAreOwn`, from `IInv`: `Numbers` (a number that a
  thread has taken is below `sequence_number_` and no other thread of the client has it),
  `Injective` and `Addressed` (queues without repetition, replies at their own client),
  `Exclusive` (`OnePlace`, place by place) and `Response`. `OnePlace` alone is not
  inductive: without `Numbers`, a `Get` could send a request that is on its way already.
* `ImplementsAtMostOnce`: under `IInv` before and after, a step moves one call by a stage,
  all calls of one new request together, or none. For a queue that overflows it is the
  oldest entry that moves.

### Liveliness_proofs

* `QosIsRestored`, `AdaptedQosIsComplete`, `EntityIsRead`, `TokensTellApart`: facts about the
  operators, for all names, identifiers and profiles. `EntityIsRead` needs that names are
  not empty (no part is cut off) and have no percent sign (mangling can be undone).

### Publish_proofs

* `TypeCorrect`, `PayloadsAreIntact`: every address in use is in one place: in the pool once,
  with one thread, or with one payload. `PayloadIntact` alone is not inductive: it says
  nothing of the address that a thread will be given.
* `PublishingHoldsSession`: `Referred` says that neither the map nor a call refers to a
  publisher that has been shut down. The half about the map is needed for `Find`, the half
  about calls for the last reference (`DropReference` counts all users).
* `PoolStaysWithinLimit`, `MemoryIsNotLost`: both say what the sizes of a set of buffers
  add up to, and `SizeOf` is a fold over the set, defined by `CHOOSE`. That the fold exists
  and obeys its equation (`FoldSolves`) is shown by the least counterexample: the number of
  elements for which no function solves the equation has a least one (`LeastNumber`), and a
  set on which a fact fails has a smallest subset on which it fails (`LeastSet`), by the
  library's theorems on well-founded relations. From it come the lemmas that are used: a sum
  with one element added, removed or changed, and the sum of a subset. `Ledger` is the
  invariant: `Empty` (a thread that has not asked has no buffer), `Gone` (after the context
  no publisher is left, and no pool once zenoh is done), `Balance` (the buffers of the pool add up to
  at most `size_`, and to exactly that unless something failed) and `NothingLost`.

### Context_proofs

* All six safety properties of `Context` follow from one invariant, the conjunction of the type
  invariant, `Places` (what a call has got by each point), `Counted` (identifiers are below
  the counter), `Ids` (`IdsUnique` for calls in progress too), `Books` (`entries` and `owned`
  differ by calls and what was left behind), `Stopping` (what is true after `is_shutdown_`),
  `Gone` (the session is closed only when nobody has it), `Shown` (tokens against the data
  that is held) and `Before` (nothing happens before `rmw_init`). One lemma per action, and
  lemmas for what moving a thread, a call that returns, or one that crashes leave alone.

### Model-checked only

The leads-to properties (liveness is outside the prover), `NoCallHangs` and `CallsReturn`
among them. Every invariant and refinement of a passing run and `NoFlicker`, the action
property, is a theorem. `Converges`, `NoFlicker`, `MatchedCountAccounted`, `AnswersAreTrue`
and `WatchedAnswerIsCurrent` are proved for ordered networks with a calm start-up, and
`MatchedCountAccounted` for one QoS profile and key expression to a topic; `graph_reordered`,
`graph_startup` and `graph_two_qos` show what becomes of it otherwise.
`NoLostWakeup`, `NoLockCycle` and `NoEmptyReturn` are proved
under the assumptions named above on which sources wait sets and threads share.

## 5. Plan

1. `EventsManager` with `event_set_callback` and its unread events, and the two locks of
   `SubscriptionData::shutdown` and `GraphCache::update_event_counters`.
2. `PubSub` with a transient-local publisher whose missed messages are recovered, once the
   order in which zenoh recovers them can be read off a source.
3. Two type hashes for a topic in an instance of `GraphCache`.
4. An abstract specification of a wait set that `WaitSet` implements, with its proof.

## 6. Not modelled

Serialization, type support and hashes (data without control); configuration and
logging; the router daemon and the vendored library; the security tools (an offline
generator); argument checks and error strings of the `rmw_*` entry points; the byte layout
of attachments and key expressions; loaned messages and network flow endpoints, which
the code refuses; the shared memory provider. A read of `graph_topics_` without its lock
is undefined behaviour and may crash; the model has only the values it may give.
`PROJECT.json` gives the reason for each component.
