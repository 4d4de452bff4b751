----------------------------- MODULE ServiceRpc -----------------------------
(***************************************************************************)
(* Clients and the servers of one service.                                 *)
(*                                                                         *)
(* A thread that sends a request on a ClientData numbers it under mutex_   *)
(* and lets go of mutex_ before it hands it to zenoh, which takes it to    *)
(* every server of the service: one call each.  A ServiceData queues it,   *)
(* discarding the oldest when the queue is full, hands it to the           *)
(* application and keeps it in a map until the application responds.  The  *)
(* reply comes back through a zenoh callback that looks whether the client *)
(* is shut down in one critical section of mutex_ and queues the reply in  *)
(* another.                                                                *)
(***************************************************************************)
EXTENDS Integers, Sequences, Functions

CONSTANTS
  Client,         \* clients of the service
  Service,        \* its servers
  Thread,         \* threads that send requests
  ClientOf,       \* the client a thread uses
  RequestDepth,   \* adapted depth of the servers, at least 1
  ReplyDepth,     \* adapted depth of the clients, at least 1
  KeepAll,        \* RMW_QOS_POLICY_HISTORY_KEEP_ALL
  MaxSeq,         \* bound: requests a client numbers
  Faults          \* what may go wrong

ASSUME ServiceRpcAssumption ==
  /\ ClientOf \in [Thread -> Client]
  /\ RequestDepth \in Nat \ {0} /\ ReplyDepth \in Nat \ {0}
  /\ KeepAll \in BOOLEAN
  /\ MaxSeq \in [Client -> Nat]
  /\ Faults \subseteq {"loss", "error", "unreadable", "timeout", "shutdown"}

Number == UNION {1..MaxSeq[c] : c \in Client}

\* A request is known by what its attachment holds; it is a call of each server.
Request == [client : Client, seq : Number]
Call == Request \X Service

VARIABLES
  sequenceNumber,   \* sequence_number_ of a client
  sending,          \* the number a thread has taken and not handed to zenoh, or 0
  awaiting,         \* requests whose reply callback zenoh still calls
  replyQueue,       \* reply_queue_
  clientShut,       \* is_shutdown_ of a client
  queries,          \* calls in the network, on their way to a server
  replies,          \* calls whose reply is in the network
  arriving,         \* calls whose reply callback has found the client not shut down
  queryQueue,       \* query_queue_
  openQueries,      \* sequence_to_query_map_
  serviceShut,      \* is_shutdown_ of a server
  responded,        \* history: calls that the server's application responded to
  delivered,        \* history: calls whose response the client has taken
  dropped           \* history: calls that were given up somewhere

clientVars == <<sequenceNumber, sending, awaiting, replyQueue, clientShut>>
serviceVars == <<queryQueue, openQueries, serviceShut>>
network == <<queries, replies, arriving>>
history == <<responded, delivered, dropped>>
vars == <<clientVars, serviceVars, network, history>>

\* What a queue discards to make room for one more item, and the queue then.
Overflow(q, depth) == IF KeepAll \/ Len(q) < depth THEN {} ELSE {Head(q)}
Push(q, x, depth) == Append(IF KeepAll \/ Len(q) < depth THEN q ELSE Tail(q), x)

-----------------------------------------------------------------------------
(* Faults: what some definitions below would be with a slip in the code.   *)
(* No specification uses them; each breaks one of the properties.          *)

\* Without mutex_: a second thread reads the number before the first stores
\* the next one.
SendRequestUnlocked(t) ==
  LET c == ClientOf[t]
      racing == {u \in Thread : ClientOf[u] = c /\ sending[u] # 0} IN
  /\ sending[t] = 0 /\ ~clientShut[c]
  /\ sequenceNumber[c] <= MaxSeq[c]
  /\ IF racing = {}
     THEN /\ sending' = [sending EXCEPT ![t] = sequenceNumber[c]]
          /\ sequenceNumber' = [sequenceNumber EXCEPT ![c] = @ + 1]
     ELSE /\ \E u \in racing : sending' = [sending EXCEPT ![t] = sending[u]]
          /\ UNCHANGED sequenceNumber
  /\ UNCHANGED <<awaiting, replyQueue, clientShut, serviceVars, network, history>>

\* The attachment does not get the number.
GetUnnumbered(t) ==
  LET r == [client |-> ClientOf[t], seq |-> 0] IN
  /\ sending[t] # 0 /\ ~clientShut[ClientOf[t]]
  /\ sending' = [sending EXCEPT ![t] = 0]
  /\ queries' = queries \cup ({r} \X Service)
  /\ awaiting' = awaiting \cup {r}
  /\ UNCHANGED <<sequenceNumber, replyQueue, clientShut, serviceVars, replies, arriving, history>>

\* The request is handed over and not kept in the map.
TakeRequestUnmapped(s) ==
  /\ ~serviceShut[s] /\ queryQueue[s] # <<>>
  /\ queryQueue' = [queryQueue EXCEPT ![s] = Tail(@)]
  /\ UNCHANGED <<clientVars, openQueries, serviceShut, network, history>>

\* The entry stays in the map after the response.
SendResponseKeep(s, r) ==
  /\ ~serviceShut[s] /\ r \in openQueries[s]
  /\ responded' = responded \cup {<<r, s>>}
  /\ replies' = replies \cup {<<r, s>>}
  /\ UNCHANGED <<clientVars, serviceVars, queries, arriving, delivered, dropped>>

\* The map is searched by the number alone, without the client's gid.
SendResponseByNumber(s, r) ==
  /\ ~serviceShut[s] /\ r \in openQueries[s]
  /\ responded' = responded \cup {<<r, s>>}
  /\ \E q \in openQueries[s] :
       /\ q.seq = r.seq
       /\ openQueries' = [openQueries EXCEPT ![s] = @ \ {q}]
       /\ replies' = replies \cup {<<q, s>>}
  /\ UNCHANGED <<clientVars, queryQueue, serviceShut, queries, arriving, delivered, dropped>>

-----------------------------------------------------------------------------
Init ==
  /\ sequenceNumber = [c \in Client |-> 1]
  /\ sending = [t \in Thread |-> 0]
  /\ awaiting = {}
  /\ replyQueue = [c \in Client |-> <<>>]
  /\ clientShut = [c \in Client |-> FALSE]
  /\ queries = {} /\ replies = {} /\ arriving = {}
  /\ queryQueue = [s \in Service |-> <<>>]
  /\ openQueries = [s \in Service |-> {}]
  /\ serviceShut = [s \in Service |-> FALSE]
  /\ responded = {} /\ delivered = {} /\ dropped = {}

-----------------------------------------------------------------------------
(* ClientData::send_request() *)

\* With mutex_ held: the request is serialized, then numbered.
SendRequest(t) ==
  LET c == ClientOf[t] IN
  /\ sending[t] = 0 /\ ~clientShut[c]
  /\ sequenceNumber[c] <= MaxSeq[c]
  /\ sending' = [sending EXCEPT ![t] = sequenceNumber[c]]
  /\ sequenceNumber' = [sequenceNumber EXCEPT ![c] = @ + 1]
  /\ UNCHANGED <<awaiting, replyQueue, clientShut, serviceVars, network, history>>

\* querier_.get(), without mutex_: the target ALL_COMPLETE is every server.
\* shutdown() may have taken the querier away in the meantime.
Get(t) ==
  LET r == [client |-> ClientOf[t], seq |-> sending[t]] IN
  /\ sending[t] # 0
  /\ sending' = [sending EXCEPT ![t] = 0]
  /\ \/ /\ ~clientShut[ClientOf[t]]
        /\ queries' = queries \cup ({r} \X Service)
        /\ awaiting' = awaiting \cup {r}
        /\ UNCHANGED dropped
     \/ /\ clientShut[ClientOf[t]] \/ "error" \in Faults
        /\ dropped' = dropped \cup ({r} \X Service)
        /\ UNCHANGED <<queries, awaiting>>
  /\ UNCHANGED <<sequenceNumber, replyQueue, clientShut, serviceVars, replies, arriving, responded, delivered>>

-----------------------------------------------------------------------------
(* The network *)

LoseQuery(k) ==
  /\ "loss" \in Faults
  /\ k \in queries
  /\ queries' = queries \ {k}
  /\ dropped' = dropped \cup {k}
  /\ UNCHANGED <<clientVars, serviceVars, replies, arriving, responded, delivered>>

LoseReply(k) ==
  /\ "loss" \in Faults
  /\ k \in replies
  /\ replies' = replies \ {k}
  /\ dropped' = dropped \cup {k}
  /\ UNCHANGED <<clientVars, serviceVars, queries, arriving, responded, delivered>>

\* After the timeout of a query zenoh calls its reply callback no more.
Timeout(r) ==
  /\ "timeout" \in Faults
  /\ r \in awaiting
  /\ awaiting' = awaiting \ {r}
  /\ UNCHANGED <<sequenceNumber, sending, replyQueue, clientShut, serviceVars, network, history>>

-----------------------------------------------------------------------------
(* ServiceData *)

\* add_new_query(), called by zenoh.
AddNewQuery(k) ==
  LET s == k[2] IN
  /\ k \in queries
  /\ queries' = queries \ {k}
  /\ \/ /\ serviceShut[s]
        /\ dropped' = dropped \cup {k}
        /\ UNCHANGED queryQueue
     \/ /\ ~serviceShut[s]
        /\ queryQueue' = [queryQueue EXCEPT ![s] = Push(@, k[1], RequestDepth)]
        /\ dropped' = dropped \cup (Overflow(queryQueue[s], RequestDepth) \X {s})
  /\ UNCHANGED <<clientVars, openQueries, serviceShut, replies, arriving, responded, delivered>>

\* take_request(): the query leaves the queue first, and is gone when it
\* cannot be decoded or when its number is in the map already.
TakeRequest(s) ==
  LET r == Head(queryQueue[s]) IN
  /\ ~serviceShut[s] /\ queryQueue[s] # <<>>
  /\ queryQueue' = [queryQueue EXCEPT ![s] = Tail(@)]
  /\ \/ /\ r \notin openQueries[s]
        /\ openQueries' = [openQueries EXCEPT ![s] = @ \cup {r}]
        /\ UNCHANGED dropped
     \/ /\ r \in openQueries[s] \/ "unreadable" \in Faults
        /\ dropped' = dropped \cup {<<r, s>>}
        /\ UNCHANGED openQueries
  /\ UNCHANGED <<clientVars, serviceShut, network, responded, delivered>>

\* send_response(), for a request the application was handed.  The entry is
\* used up even when the reply cannot be serialized or sent.  Without an entry
\* (a second response), or when shut down, nothing happens.
SendResponse(s, r) ==
  /\ ~serviceShut[s] /\ r \in openQueries[s]
  /\ openQueries' = [openQueries EXCEPT ![s] = @ \ {r}]
  /\ responded' = responded \cup {<<r, s>>}
  /\ \/ /\ replies' = replies \cup {<<r, s>>}
        /\ UNCHANGED dropped
     \/ /\ "error" \in Faults
        /\ dropped' = dropped \cup {<<r, s>>}
        /\ UNCHANGED replies
  /\ UNCHANGED <<clientVars, queryQueue, serviceShut, queries, arriving, delivered>>

\* shutdown().  The queue and the map stay, and so does the queryable:
\* initialized_ is never set.
ShutdownService(s) ==
  /\ "shutdown" \in Faults
  /\ serviceShut' = [serviceShut EXCEPT ![s] = TRUE]
  /\ UNCHANGED <<clientVars, queryQueue, openQueries, network, history>>

-----------------------------------------------------------------------------
(* ClientData, the replies *)

\* The reply callback looks whether the client is shut down ...
ReplyCallback(k) ==
  /\ k \in replies
  /\ replies' = replies \ {k}
  /\ IF k[1] \in awaiting /\ ~clientShut[k[1].client]
     THEN arriving' = arriving \cup {k} /\ UNCHANGED dropped
     ELSE dropped' = dropped \cup {k} /\ UNCHANGED arriving
  /\ UNCHANGED <<clientVars, serviceVars, queries, responded, delivered>>

\* ... and calls add_new_reply(), which does not look again.
AddNewReply(k) ==
  LET c == k[1].client IN
  /\ k \in arriving
  /\ arriving' = arriving \ {k}
  /\ replyQueue' = [replyQueue EXCEPT ![c] = Push(@, k, ReplyDepth)]
  /\ dropped' = dropped \cup Overflow(replyQueue[c], ReplyDepth)
  /\ UNCHANGED <<sequenceNumber, sending, awaiting, clientShut, serviceVars, queries, replies, responded, delivered>>

\* take_response(): a reply that cannot be decoded is gone.
TakeResponse(c) ==
  LET k == Head(replyQueue[c]) IN
  /\ ~clientShut[c] /\ replyQueue[c] # <<>>
  /\ replyQueue' = [replyQueue EXCEPT ![c] = Tail(@)]
  /\ \/ delivered' = delivered \cup {k} /\ UNCHANGED dropped
     \/ "unreadable" \in Faults /\ dropped' = dropped \cup {k} /\ UNCHANGED delivered
  /\ UNCHANGED <<sequenceNumber, sending, awaiting, clientShut, serviceVars, network, responded>>

ShutdownClient(c) ==
  /\ "shutdown" \in Faults
  /\ clientShut' = [clientShut EXCEPT ![c] = TRUE]
  /\ UNCHANGED <<sequenceNumber, sending, awaiting, replyQueue, serviceVars, network, history>>

-----------------------------------------------------------------------------
Next ==
  \/ \E t \in Thread : SendRequest(t) \/ Get(t)
  \/ \E k \in Call : LoseQuery(k) \/ LoseReply(k) \/ AddNewQuery(k) \/ ReplyCallback(k) \/ AddNewReply(k)
  \/ \E r \in Request : Timeout(r)
  \/ \E s \in Service : TakeRequest(s) \/ ShutdownService(s)
  \/ \E s \in Service, r \in Request : SendResponse(s, r)
  \/ \E c \in Client : TakeResponse(c) \/ ShutdownClient(c)

Spec == Init /\ [][Next]_vars

\* Zenoh delivers, and the applications on both sides keep spinning: they take
\* what there is and respond to it.
Fairness ==
  /\ \A k \in Call : WF_vars(AddNewQuery(k)) /\ WF_vars(ReplyCallback(k)) /\ WF_vars(AddNewReply(k))
  /\ \A s \in Service : WF_vars(TakeRequest(s)) /\ \A r \in Request : WF_vars(SendResponse(s, r))
  /\ \A c \in Client : WF_vars(TakeResponse(c))

FairSpec == Spec /\ Fairness

-----------------------------------------------------------------------------
(* Properties *)

TypeOK ==
  /\ sequenceNumber \in [Client -> Nat \ {0}]
  /\ sending \in [Thread -> Number \cup {0}]
  /\ awaiting \subseteq Request
  /\ replyQueue \in [Client -> Seq(Call)]
  /\ clientShut \in [Client -> BOOLEAN]
  /\ queries \subseteq Call /\ replies \subseteq Call /\ arriving \subseteq Call
  /\ queryQueue \in [Service -> Seq(Request)]
  /\ openQueries \in [Service -> SUBSET Request]
  /\ serviceShut \in [Service -> BOOLEAN]
  /\ responded \subseteq Call /\ delivered \subseteq Call /\ dropped \subseteq Call

\* The places of a call on its way.
IsQueued(k) == k[1] \in Range(queryQueue[k[2]])
IsOpen(k) == k[1] \in openQueries[k[2]]
IsReplied(k) == k \in Range(replyQueue[k[1].client])

\* The request has got its number and is no more with the thread that sends it.
IsSent(r) ==
  /\ r.seq < sequenceNumber[r.client]
  /\ \A t \in Thread : ClientOf[t] = r.client => sending[t] # r.seq

Places(k) ==
  {p \in {"queries", "queue", "map", "replies", "arriving", "reply queue", "delivered", "dropped"} :
     \/ p = "queries" /\ k \in queries
     \/ p = "queue" /\ IsQueued(k)
     \/ p = "map" /\ IsOpen(k)
     \/ p = "replies" /\ k \in replies
     \/ p = "arriving" /\ k \in arriving
     \/ p = "reply queue" /\ IsReplied(k)
     \/ p = "delivered" /\ k \in delivered
     \/ p = "dropped" /\ k \in dropped}

\* However many threads send on a client, and whichever step fails, a request
\* that was sent is at one place for each server, once: it is not lost between
\* the queue, the map and the network, nor answered or delivered twice.  So the
\* "duplicate sequence number" of take_request() cannot come up.
OnePlace ==
  /\ \A k \in Call : IF IsSent(k[1]) THEN \E p \in Places(k) : Places(k) = {p} ELSE Places(k) = {}
  /\ \A s \in Service : IsInjective(queryQueue[s])
  /\ \A c \in Client : IsInjective(replyQueue[c])

\* What comes back to a client is the response to its own request: the server's
\* application responded to that very request, and the reply is in the queue of
\* the client that sent it.
OwnResponse ==
  /\ \A k \in Call : k \in replies \/ k \in arriving \/ IsReplied(k) \/ k \in delivered => k \in responded
  /\ \A c \in Client : \A k \in Range(replyQueue[c]) : k[1].client = c

\* How far a call has come.
Stage(k) ==
  IF ~IsSent(k[1]) THEN "new"
  ELSE IF k \in queries \/ IsQueued(k) THEN "sent"
  ELSE IF k \in replies \/ k \in arriving \/ IsReplied(k) THEN "answered"
  ELSE IF IsOpen(k) THEN "executed"
  ELSE IF k \in delivered THEN "delivered"
  ELSE "dropped"

\* The clients and servers implement the at-most-once call.
Remote == INSTANCE AtMostOnceCall WITH stage <- [k \in Call |-> Stage(k)]

AtMostOnce == Remote!Spec

\* Whatever goes wrong, no call hangs: its response is taken or it is given up,
\* unless the server or the client is shut down with the call inside.
NoCallHangs ==
  \A k \in Call :
    k \in queries ~> k \in delivered \/ k \in dropped \/ serviceShut[k[2]] \/ clientShut[k[1].client]
=============================================================================
