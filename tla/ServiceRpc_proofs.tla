------------------------- MODULE ServiceRpc_proofs -------------------------
(***************************************************************************)
(* Requests and responses are where they should be, and come to their end  *)
(* at most once, for any clients, servers, threads, depths and faults.     *)
(***************************************************************************)
EXTENDS ServiceRpc, SequenceTheorems, TLAPS

-----------------------------------------------------------------------------
(* Queues without repetition *)

\* What Tail leaves is the queue without its head.
LEMMA PopFacts ==
  ASSUME NEW S, NEW q \in Seq(S), q # <<>>, IsInjective(q)
  PROVE  /\ Tail(q) \in Seq(S)
         /\ Head(q) \in S /\ Head(q) \in Range(q)
         /\ IsInjective(Tail(q))
         /\ Range(Tail(q)) = Range(q) \ {Head(q)}
<1>1. /\ Tail(q) \in Seq(S) /\ Len(q) \in Nat \ {0}
      /\ Head(q) = q[1] /\ q[1] \in S
      /\ DOMAIN q = 1..Len(q) /\ DOMAIN Tail(q) = 1..(Len(q) - 1)
      /\ \A i \in 1..(Len(q) - 1) : Tail(q)[i] = q[i + 1]
  BY HeadTailProperties
<1>2. Head(q) \in Range(q)
  BY <1>1 DEF Range
<1>3. IsInjective(Tail(q))
  <2> SUFFICES ASSUME NEW i \in 1..(Len(q) - 1), NEW j \in 1..(Len(q) - 1), Tail(q)[i] = Tail(q)[j]
               PROVE  i = j
    BY <1>1 DEF IsInjective
  <2>1. q[i + 1] = q[j + 1] /\ i + 1 \in DOMAIN q /\ j + 1 \in DOMAIN q
    BY <1>1
  <2>2. i + 1 = j + 1
    BY <2>1 DEF IsInjective
  <2>3. QED BY <1>1, <2>2
<1>4. ASSUME NEW x \in Range(Tail(q))
      PROVE  x \in Range(q) \ {Head(q)}
  <2>1. PICK i \in 1..(Len(q) - 1) : x = Tail(q)[i]
    BY <1>1 DEF Range
  <2>2. x = q[i + 1] /\ i + 1 \in DOMAIN q /\ 1 \in DOMAIN q /\ i + 1 # 1
    BY <1>1, <2>1
  <2>3. q[i + 1] # q[1]
    BY <2>2 DEF IsInjective
  <2>4. QED BY <1>1, <2>2, <2>3 DEF Range
<1>5. ASSUME NEW x \in Range(q), x # Head(q)
      PROVE  x \in Range(Tail(q))
  <2>1. PICK i \in 1..Len(q) : x = q[i]
    BY <1>1 DEF Range
  <2>2. i - 1 \in 1..(Len(q) - 1) /\ (i - 1) + 1 = i
    BY <1>1, <1>5, <2>1
  <2>3. Tail(q)[i - 1] = x
    BY <1>1, <2>1, <2>2
  <2>4. QED BY <1>1, <2>2, <2>3 DEF Range
<1>6. QED BY <1>1, <1>2, <1>3, <1>4, <1>5

\* A new item at the end.
LEMMA AppendNewFacts ==
  ASSUME NEW S, NEW q \in Seq(S), IsInjective(q), NEW x \in S, x \notin Range(q)
  PROVE  /\ Append(q, x) \in Seq(S)
         /\ IsInjective(Append(q, x))
         /\ Range(Append(q, x)) = Range(q) \cup {x}
<1> DEFINE a == Append(q, x)
<1>1. /\ a \in Seq(S) /\ Len(q) \in Nat
      /\ DOMAIN q = 1..Len(q) /\ DOMAIN a = 1..(Len(q) + 1)
      /\ a[Len(q) + 1] = x
      /\ \A i \in 1..Len(q) : a[i] = q[i]
  BY AppendProperties
<1> HIDE DEF a
<1>2. \A i \in 1..Len(q) : a[i] # x /\ a[i] \in Range(q)
  BY <1>1 DEF Range
<1>3. IsInjective(a)
  <2> SUFFICES ASSUME NEW i \in 1..(Len(q) + 1), NEW j \in 1..(Len(q) + 1), a[i] = a[j]
               PROVE  i = j
    BY <1>1 DEF IsInjective
  <2>1. CASE i \in 1..Len(q) /\ j \in 1..Len(q)
    BY <1>1, <2>1 DEF IsInjective
  <2>2. CASE i = Len(q) + 1 /\ j \in 1..Len(q)
    BY <1>1, <1>2, <2>2
  <2>3. CASE j = Len(q) + 1 /\ i \in 1..Len(q)
    BY <1>1, <1>2, <2>3
  <2>4. QED BY <1>1, <2>1, <2>2, <2>3
<1>4. Range(a) \subseteq Range(q) \cup {x}
  <2> SUFFICES ASSUME NEW i \in 1..(Len(q) + 1) PROVE a[i] \in Range(q) \cup {x}
    BY <1>1 DEF Range
  <2>1. QED BY <1>1, <1>2
<1>5. Range(q) \cup {x} \subseteq Range(a)
  <2>1. x \in Range(a)
    BY <1>1 DEF Range
  <2>2. ASSUME NEW i \in 1..Len(q) PROVE q[i] \in Range(a)
    <3>1. i \in 1..(Len(q) + 1) /\ a[i] = q[i]
      BY <1>1
    <3>2. QED BY <1>1, <3>1 DEF Range
  <2>3. QED BY <1>1, <2>1, <2>2 DEF Range
<1>6. QED BY <1>1, <1>3, <1>4, <1>5 DEF a

\* Push takes out what overflows and puts the new item in.
LEMMA PushFacts ==
  ASSUME NEW S, NEW q \in Seq(S), IsInjective(q), NEW x \in S, x \notin Range(q), NEW depth \in Nat \ {0}
  PROVE  /\ Push(q, x, depth) \in Seq(S)
         /\ IsInjective(Push(q, x, depth))
         /\ Range(Push(q, x, depth)) = (Range(q) \ Overflow(q, depth)) \cup {x}
         /\ Overflow(q, depth) \subseteq Range(q)
         /\ Overflow(q, depth) = {} \/ \E y \in Range(q) : y \in S /\ Overflow(q, depth) = {y}
<1>1. CASE KeepAll \/ Len(q) < depth
  <2>1. Push(q, x, depth) = Append(q, x) /\ Overflow(q, depth) = {}
    BY <1>1 DEF Push, Overflow
  <2>2. QED BY <2>1, AppendNewFacts
<1>2. CASE ~(KeepAll \/ Len(q) < depth)
  <2>1. q # <<>>
    BY <1>2
  <2>2. Push(q, x, depth) = Append(Tail(q), x) /\ Overflow(q, depth) = {Head(q)}
    BY <1>2 DEF Push, Overflow
  <2>3. /\ Tail(q) \in Seq(S) /\ Head(q) \in Range(q) /\ Head(q) \in S
        /\ IsInjective(Tail(q)) /\ Range(Tail(q)) = Range(q) \ {Head(q)}
    BY <2>1, PopFacts
  <2>4. x \notin Range(Tail(q))
    BY <2>3
  <2>5. /\ Append(Tail(q), x) \in Seq(S) /\ IsInjective(Append(Tail(q), x))
        /\ Range(Append(Tail(q), x)) = Range(Tail(q)) \cup {x}
    <3> DEFINE p == Tail(q)
    <3>1. p \in Seq(S) /\ IsInjective(p) /\ x \notin Range(p)
      BY <2>3, <2>4
    <3> HIDE DEF p
    <3>2. /\ Append(p, x) \in Seq(S) /\ IsInjective(Append(p, x))
          /\ Range(Append(p, x)) = Range(p) \cup {x}
      BY <3>1, AppendNewFacts
    <3>3. QED BY <3>2 DEF p
  <2>6. QED BY <2>2, <2>3, <2>5
<1>3. QED BY <1>1, <1>2

-----------------------------------------------------------------------------
(* Type correctness *)

LEMMA PushType ==
  ASSUME NEW S, NEW q \in Seq(S), NEW x \in S, NEW depth \in Nat \ {0}
  PROVE  Push(q, x, depth) \in Seq(S) /\ Overflow(q, depth) \subseteq S
<1>1. CASE KeepAll \/ Len(q) < depth
  BY <1>1, AppendProperties DEF Push, Overflow
<1>2. CASE ~(KeepAll \/ Len(q) < depth)
  <2>1. q # <<>>
    BY <1>2
  <2>2. Tail(q) \in Seq(S) /\ Head(q) \in S
    BY <2>1, HeadTailProperties
  <2>3. QED BY <1>2, <2>2, AppendProperties DEF Push, Overflow
<1>3. QED BY <1>1, <1>2

LEMMA NumberType == \A x \in Number : x \in Nat \ {0}
BY ServiceRpcAssumption DEF Number

LEMMA CallType ==
  ASSUME NEW k \in Call
  PROVE  k[1] \in Request /\ k[2] \in Service /\ k = <<k[1], k[2]>> /\ k[1].client \in Client
BY DEF Call, Request

LEMMA InitTyped == Init => TypeOK
<1> SUFFICES ASSUME Init PROVE TypeOK
  OBVIOUS
<1>1. replyQueue \in [Client -> Seq(Call)] /\ queryQueue \in [Service -> Seq(Request)]
  BY DEF Init
<1>2. openQueries \in [Service -> SUBSET Request]
  BY DEF Init
<1>3. QED BY <1>1, <1>2 DEF Init, TypeOK

LEMMA SendRequestTyped == ASSUME TypeOK, NEW t \in Thread, SendRequest(t) PROVE TypeOK'
<1>1. ClientOf[t] \in Client
  BY ServiceRpcAssumption
<1>2. sequenceNumber[ClientOf[t]] \in Number
  BY <1>1, ServiceRpcAssumption DEF TypeOK, SendRequest, Number
<1>3. sending' \in [Thread -> Number \cup {0}] /\ sequenceNumber' \in [Client -> Nat \ {0}]
  BY <1>1, <1>2 DEF TypeOK, SendRequest
<1>4. QED BY <1>3 DEF TypeOK, SendRequest, serviceVars, network, history

LEMMA GetTyped == ASSUME TypeOK, NEW t \in Thread, Get(t) PROVE TypeOK'
<1> DEFINE r == [client |-> ClientOf[t], seq |-> sending[t]]
<1>1. r \in Request
  BY ServiceRpcAssumption DEF TypeOK, Get, Request
<1>2. {r} \X Service \subseteq Call
  BY <1>1 DEF Call
<1> HIDE DEF r
<1>3. /\ queries' \subseteq queries \cup ({r} \X Service)
      /\ awaiting' \subseteq awaiting \cup {r}
      /\ dropped' \subseteq dropped \cup ({r} \X Service)
  BY DEF Get, r
<1>4. sending' \in [Thread -> Number \cup {0}]
  BY DEF TypeOK, Get
<1>5. QED BY <1>1, <1>2, <1>3, <1>4 DEF TypeOK, Get, serviceVars

LEMMA NetworkTyped ==
  ASSUME TypeOK, NEW k \in Call, LoseQuery(k) \/ LoseReply(k) \/ ReplyCallback(k)
  PROVE  TypeOK'
<1>1. /\ queries' \subseteq Call /\ replies' \subseteq Call /\ arriving' \subseteq Call
      /\ dropped' \subseteq Call
  BY DEF TypeOK, LoseQuery, LoseReply, ReplyCallback, clientVars, serviceVars
<1>2. UNCHANGED <<clientVars, serviceVars, responded, delivered>>
  BY DEF LoseQuery, LoseReply, ReplyCallback
<1>3. QED BY <1>1, <1>2 DEF TypeOK, clientVars, serviceVars

LEMMA AddNewQueryTyped == ASSUME TypeOK, NEW k \in Call, AddNewQuery(k) PROVE TypeOK'
<1> DEFINE s == k[2]
           over == Overflow(queryQueue[s], RequestDepth)
<1>1. k[1] \in Request /\ s \in Service /\ queryQueue[s] \in Seq(Request) /\ RequestDepth \in Nat \ {0}
  BY CallType, ServiceRpcAssumption DEF TypeOK
<1>2. Push(queryQueue[s], k[1], RequestDepth) \in Seq(Request) /\ over \subseteq Request
  BY <1>1, PushType
<1>3. over \X {s} \subseteq Call
  BY <1>1, <1>2 DEF Call
<1>4. dropped' \subseteq Call
  BY <1>3 DEF TypeOK, AddNewQuery
<1>5. queryQueue' \in [Service -> Seq(Request)]
  BY <1>1, <1>2 DEF TypeOK, AddNewQuery
<1>6. queries' \subseteq Call
  BY DEF TypeOK, AddNewQuery
<1>7. QED BY <1>4, <1>5, <1>6 DEF TypeOK, AddNewQuery, clientVars

LEMMA AddNewReplyTyped == ASSUME TypeOK, NEW k \in Call, AddNewReply(k) PROVE TypeOK'
<1> DEFINE c == k[1].client
<1>1. c \in Client /\ replyQueue[c] \in Seq(Call) /\ ReplyDepth \in Nat \ {0}
  BY CallType, ServiceRpcAssumption DEF TypeOK
<1>2. Push(replyQueue[c], k, ReplyDepth) \in Seq(Call) /\ Overflow(replyQueue[c], ReplyDepth) \subseteq Call
  BY <1>1, PushType
<1>3. replyQueue' \in [Client -> Seq(Call)]
  BY <1>1, <1>2 DEF TypeOK, AddNewReply
<1>4. dropped' \subseteq Call /\ arriving' \subseteq Call
  BY <1>2 DEF TypeOK, AddNewReply
<1>5. QED BY <1>3, <1>4 DEF TypeOK, AddNewReply, serviceVars

LEMMA TakeRequestTyped == ASSUME TypeOK, NEW s \in Service, TakeRequest(s) PROVE TypeOK'
<1>1. Head(queryQueue[s]) \in Request /\ Tail(queryQueue[s]) \in Seq(Request)
  BY HeadTailProperties DEF TypeOK, TakeRequest
<1>2. queryQueue' \in [Service -> Seq(Request)]
  BY <1>1 DEF TypeOK, TakeRequest
<1>3. <<Head(queryQueue[s]), s>> \in Call
  BY <1>1 DEF Call
<1>4. openQueries' \in [Service -> SUBSET Request]
  <2>1. openQueries[s] \cup {Head(queryQueue[s])} \in SUBSET Request
    BY <1>1 DEF TypeOK
  <2>2. QED BY <2>1 DEF TypeOK, TakeRequest
<1>5. dropped' \subseteq Call
  BY <1>3 DEF TypeOK, TakeRequest
<1>6. QED BY <1>2, <1>4, <1>5 DEF TypeOK, TakeRequest, clientVars, network

LEMMA SendResponseTyped ==
  ASSUME TypeOK, NEW s \in Service, NEW r \in Request, SendResponse(s, r) PROVE TypeOK'
<1>1. <<r, s>> \in Call
  BY DEF Call
<1>2. openQueries' \in [Service -> SUBSET Request]
  <2>1. openQueries[s] \ {r} \in SUBSET Request
    BY DEF TypeOK
  <2>2. QED BY <2>1 DEF TypeOK, SendResponse
<1>3. responded' \subseteq Call /\ replies' \subseteq Call /\ dropped' \subseteq Call
  BY <1>1 DEF TypeOK, SendResponse
<1>4. QED BY <1>2, <1>3 DEF TypeOK, SendResponse, clientVars

LEMMA TakeResponseTyped == ASSUME TypeOK, NEW c \in Client, TakeResponse(c) PROVE TypeOK'
<1>1. Head(replyQueue[c]) \in Call /\ Tail(replyQueue[c]) \in Seq(Call)
  BY HeadTailProperties DEF TypeOK, TakeResponse
<1>2. replyQueue' \in [Client -> Seq(Call)]
  BY <1>1 DEF TypeOK, TakeResponse
<1>3. delivered' \subseteq Call /\ dropped' \subseteq Call
  BY <1>1 DEF TypeOK, TakeResponse
<1>4. QED BY <1>2, <1>3 DEF TypeOK, TakeResponse, serviceVars, network

LEMMA NextTyped == TypeOK /\ [Next]_vars => TypeOK'
<1> SUFFICES ASSUME TypeOK, [Next]_vars PROVE TypeOK'
  OBVIOUS
<1>1. ASSUME NEW t \in Thread, SendRequest(t) \/ Get(t) PROVE TypeOK'
  BY <1>1, SendRequestTyped, GetTyped
<1>2. ASSUME NEW k \in Call, LoseQuery(k) \/ LoseReply(k) \/ AddNewQuery(k) \/ ReplyCallback(k) \/ AddNewReply(k)
      PROVE  TypeOK'
  BY <1>2, NetworkTyped, AddNewQueryTyped, AddNewReplyTyped
<1>3. ASSUME NEW r \in Request, Timeout(r) PROVE TypeOK'
  BY <1>3 DEF TypeOK, Timeout, serviceVars, network, history
<1>4. ASSUME NEW s \in Service, TakeRequest(s) PROVE TypeOK'
  BY <1>4, TakeRequestTyped
<1>5. ASSUME NEW s \in Service, ShutdownService(s) PROVE TypeOK'
  BY <1>5 DEF TypeOK, ShutdownService, clientVars, network, history
<1>6. ASSUME NEW s \in Service, NEW r \in Request, SendResponse(s, r) PROVE TypeOK'
  BY <1>6, SendResponseTyped
<1>7. ASSUME NEW c \in Client, TakeResponse(c) PROVE TypeOK'
  BY <1>7, TakeResponseTyped
<1>8. ASSUME NEW c \in Client, ShutdownClient(c) PROVE TypeOK'
  BY <1>8 DEF TypeOK, ShutdownClient, serviceVars, network, history
<1>9. ASSUME UNCHANGED vars PROVE TypeOK'
  BY <1>9 DEF TypeOK, vars, clientVars, serviceVars, network, history
<1>10. QED BY <1>1, <1>2, <1>3, <1>4, <1>5, <1>6, <1>7, <1>8, <1>9 DEF Next

\* Every variable keeps its type: numbers start at 1, and nothing is in a queue,
\* the map or the network but calls.
THEOREM TypeCorrect == Spec => []TypeOK
BY InitTyped, NextTyped, PTL DEF Spec

-----------------------------------------------------------------------------
(* One place for each call *)

\* A number that a thread has taken is its own.
Numbers ==
  \A t \in Thread : sending[t] # 0 =>
    /\ sending[t] < sequenceNumber[ClientOf[t]]
    /\ \A u \in Thread : u # t /\ ClientOf[u] = ClientOf[t] => sending[u] # sending[t]

Injective ==
  /\ \A s \in Service : IsInjective(queryQueue[s])
  /\ \A c \in Client : IsInjective(replyQueue[c])

\* Replies are in the queue of the client they are for.
Addressed == \A c \in Client : \A k \in Range(replyQueue[c]) : k[1].client = c

\* OnePlace, place by place.
Exclusive(k) ==
  /\ IsSent(k[1]) <=> \/ k \in queries \/ IsQueued(k) \/ IsOpen(k) \/ k \in replies
                      \/ k \in arriving \/ IsReplied(k) \/ k \in delivered \/ k \in dropped
  /\ k \in queries => ~(IsQueued(k) \/ IsOpen(k) \/ k \in replies \/ k \in arriving
                         \/ IsReplied(k) \/ k \in delivered \/ k \in dropped)
  /\ IsQueued(k) => ~(IsOpen(k) \/ k \in replies \/ k \in arriving
                       \/ IsReplied(k) \/ k \in delivered \/ k \in dropped)
  /\ IsOpen(k) => ~(k \in replies \/ k \in arriving \/ IsReplied(k) \/ k \in delivered \/ k \in dropped)
  /\ k \in replies => ~(k \in arriving \/ IsReplied(k) \/ k \in delivered \/ k \in dropped)
  /\ k \in arriving => ~(IsReplied(k) \/ k \in delivered \/ k \in dropped)
  /\ IsReplied(k) => ~(k \in delivered \/ k \in dropped)
  /\ k \in delivered => k \notin dropped

\* Whatever comes back has been responded to.
Response(k) == k \in replies \/ k \in arriving \/ IsReplied(k) \/ k \in delivered => k \in responded

Placed ==
  /\ Numbers /\ Injective /\ Addressed
  /\ \A k \in Call : Exclusive(k) /\ Response(k)

IInv == TypeOK /\ Placed

LEMMA InitPlaced == Init => Placed
<1> SUFFICES ASSUME Init PROVE Placed
  OBVIOUS
<1>1. Numbers
  BY DEF Init, Numbers
<1>2. Injective /\ Addressed
  BY DEF Init, Injective, Addressed, IsInjective, Range
<1>3. ASSUME NEW k \in Call PROVE Exclusive(k) /\ Response(k)
  <2>1. k[2] \in Service /\ k[1] \in Request /\ k[1].client \in Client /\ k[1].seq \in Nat \ {0}
    BY NumberType DEF Call, Request
  <2>2. ~IsSent(k[1])
    BY <2>1 DEF Init, IsSent
  <2>3. ~IsQueued(k) /\ ~IsOpen(k) /\ ~IsReplied(k)
    BY <2>1 DEF Init, IsQueued, IsOpen, IsReplied, Range
  <2>4. QED BY <2>2, <2>3 DEF Init, Exclusive, Response
<1>4. QED BY <1>1, <1>2, <1>3 DEF Placed

\* Numbering a request does not send it.
LEMMA SendRequestSends ==
  ASSUME IInv, NEW t \in Thread, SendRequest(t)
  PROVE  Numbers' /\ \A r \in Request : IsSent(r)' <=> IsSent(r)
<1> DEFINE c == ClientOf[t]
           n == sequenceNumber[c]
<1>1. c \in Client /\ n \in Nat \ {0} /\ sending[t] = 0
  BY ServiceRpcAssumption DEF IInv, TypeOK, SendRequest
<1>2. /\ sending' = [sending EXCEPT ![t] = n] /\ sequenceNumber' = [sequenceNumber EXCEPT ![c] = n + 1]
      /\ UNCHANGED <<awaiting, replyQueue, clientShut, serviceVars, network, history>>
  BY DEF SendRequest
<1>3. sending \in [Thread -> Number \cup {0}] /\ sequenceNumber \in [Client -> Nat \ {0}]
  BY DEF IInv, TypeOK
<1>4. ASSUME NEW u \in Thread PROVE sending[u] \in Nat /\ ClientOf[u] \in Client
  <2>1. sending[u] \in Number \cup {0}
    BY <1>3
  <2>2. sending[u] \in Nat
    BY <2>1, NumberType
  <2>3. QED BY <2>2, ServiceRpcAssumption
<1>5. \A u \in Thread : sending[u] # 0 /\ ClientOf[u] = c => sending[u] < n
  BY <1>1 DEF IInv, Placed, Numbers
<1> HIDE DEF c, n
<1>6. Numbers'
  <2> SUFFICES ASSUME NEW u \in Thread, sending'[u] # 0
               PROVE  /\ sending'[u] < sequenceNumber'[ClientOf[u]]
                      /\ \A v \in Thread : v # u /\ ClientOf[v] = ClientOf[u] => sending'[v] # sending'[u]
    BY DEF Numbers
  <2>1. CASE u = t
    BY <1>1, <1>2, <1>3, <1>4, <1>5, <2>1 DEF c
  <2>2. CASE u # t
    <3>1. sending'[u] = sending[u]
      BY <1>2, <1>3, <2>2
    <3>2. /\ sending[u] < sequenceNumber[ClientOf[u]]
          /\ \A v \in Thread : v # u /\ ClientOf[v] = ClientOf[u] => sending[v] # sending[u]
      BY <3>1 DEF IInv, Placed, Numbers
    <3>3. sending'[u] < sequenceNumber'[ClientOf[u]]
      <4>1. CASE ClientOf[u] = c
        <5>1. sequenceNumber'[ClientOf[u]] = n + 1 /\ sequenceNumber[ClientOf[u]] = n
          BY <1>1, <1>2, <1>3, <4>1 DEF n
        <5>2. QED BY <1>1, <1>4, <3>1, <3>2, <5>1
      <4>2. CASE ClientOf[u] # c
        BY <1>2, <1>3, <1>4, <3>1, <3>2, <4>2
      <4>3. QED BY <4>1, <4>2
    <3>4. ASSUME NEW v \in Thread, v # u, ClientOf[v] = ClientOf[u] PROVE sending'[v] # sending'[u]
      <4>1. CASE v = t
        <5>1. ClientOf[u] = c /\ sending'[v] = n
          BY <1>2, <1>3, <3>4, <4>1 DEF c
        <5>2. QED BY <1>1, <1>4, <1>5, <3>1, <5>1
      <4>2. CASE v # t
        BY <1>2, <1>3, <3>1, <3>2, <3>4, <4>2
      <4>3. QED BY <4>1, <4>2
    <3>5. QED BY <3>3, <3>4
  <2>3. QED BY <2>1, <2>2
<1>7. ASSUME NEW r \in Request PROVE IsSent(r)' <=> IsSent(r)
  <2>1. r.client \in Client /\ r.seq \in Nat \ {0}
    BY NumberType DEF Request
  <2>2. CASE r.client = c
    <3>1. sequenceNumber'[r.client] = n + 1 /\ sequenceNumber[r.client] = n
      BY <1>1, <1>2, <1>3, <2>2 DEF n
    <3>2. /\ ClientOf[t] = r.client /\ sending'[t] = n
          /\ \A u \in Thread : u # t => sending'[u] = sending[u]
      BY <1>2, <1>3, <2>2 DEF c
    <3>3. QED BY <1>1, <2>1, <3>1, <3>2 DEF IsSent
  <2>3. CASE r.client # c
    <3>1. sequenceNumber'[r.client] = sequenceNumber[r.client]
      BY <1>2, <1>3, <2>1, <2>3
    <3>2. \A u \in Thread : ClientOf[u] = r.client => sending'[u] = sending[u]
      BY <1>2, <1>3, <2>3 DEF c
    <3>3. QED BY <3>1, <3>2 DEF IsSent
  <2>4. QED BY <2>2, <2>3
<1>8. QED BY <1>6, <1>7

LEMMA SendRequestPlaced == ASSUME IInv, NEW t \in Thread, SendRequest(t) PROVE Placed'
<1>1. UNCHANGED <<replyQueue, serviceVars, network, history>>
  BY DEF SendRequest
<1>2. Injective' /\ Addressed'
  BY <1>1 DEF IInv, Placed, Injective, Addressed, serviceVars
<1>3. ASSUME NEW k \in Call PROVE Exclusive(k)' /\ Response(k)'
  <2>1. IsSent(k[1])' <=> IsSent(k[1])
    BY SendRequestSends, CallType
  <2>2. (IsQueued(k)' <=> IsQueued(k)) /\ (IsOpen(k)' <=> IsOpen(k)) /\ (IsReplied(k)' <=> IsReplied(k))
    BY <1>1 DEF IsQueued, IsOpen, IsReplied, serviceVars
  <2>3. Exclusive(k) /\ Response(k)
    BY DEF IInv, Placed
  <2>4. QED BY <1>1, <2>1, <2>2, <2>3 DEF Exclusive, Response, network, history
<1>4. QED BY <1>2, <1>3, SendRequestSends DEF Placed

\* A request that goes out was nowhere before: no other thread has its number.
LEMMA GetSends ==
  ASSUME IInv, NEW t \in Thread, Get(t),
         NEW q, q = [client |-> ClientOf[t], seq |-> sending[t]]
  PROVE  /\ q \in Request /\ ~IsSent(q)
         /\ \A r \in Request : IsSent(r)' <=> IsSent(r) \/ r = q
         /\ Numbers'
<1>1. /\ sending \in [Thread -> Number \cup {0}] /\ sequenceNumber \in [Client -> Nat \ {0}]
      /\ ClientOf \in [Thread -> Client]
  BY ServiceRpcAssumption DEF IInv, TypeOK
<1>2. sending[t] # 0 /\ sending' = [sending EXCEPT ![t] = 0] /\ sequenceNumber' = sequenceNumber
  BY DEF Get
<1>3. q \in Request /\ q.client = ClientOf[t] /\ q.seq = sending[t] /\ q.seq \in Nat \ {0}
  BY <1>1, <1>2, NumberType DEF Request
<1>4. ~IsSent(q)
  BY <1>3 DEF IsSent
<1>5. Numbers
  BY DEF IInv, Placed
<1>6. ASSUME NEW r \in Request PROVE IsSent(r)' <=> IsSent(r) \/ r = q
  <2>1. r.client \in Client /\ r.seq \in Nat \ {0} /\ r = [client |-> r.client, seq |-> r.seq]
    BY NumberType DEF Request
  <2>2. \A u \in Thread : sending'[u] = IF u = t THEN 0 ELSE sending[u]
    BY <1>1, <1>2
  <2>3. CASE r = q
    <3>1. r.seq < sequenceNumber[r.client]
      BY <1>2, <1>3, <1>5, <2>3 DEF Numbers
    <3>2. \A u \in Thread : ClientOf[u] = r.client => sending'[u] # r.seq
      BY <1>2, <1>3, <1>5, <2>2, <2>3 DEF Numbers
    <3>3. QED BY <1>2, <2>3, <3>1, <3>2 DEF IsSent
  <2>4. CASE r # q
    <3>1. ClientOf[t] = r.client => sending[t] # r.seq
      BY <1>3, <2>1, <2>4
    <3>2. QED BY <1>2, <2>1, <2>2, <2>4, <3>1 DEF IsSent
  <2>5. QED BY <2>3, <2>4
<1>7. Numbers'
  <2> SUFFICES ASSUME NEW u \in Thread, sending'[u] # 0
               PROVE  /\ sending'[u] < sequenceNumber'[ClientOf[u]]
                      /\ \A v \in Thread : v # u /\ ClientOf[v] = ClientOf[u] => sending'[v] # sending'[u]
    BY DEF Numbers
  <2>1. \A v \in Thread : sending'[v] = IF v = t THEN 0 ELSE sending[v]
    BY <1>1, <1>2
  <2>2. QED BY <1>2, <1>5, <2>1 DEF Numbers
<1>8. QED BY <1>3, <1>4, <1>6, <1>7

LEMMA GetPlaced == ASSUME IInv, NEW t \in Thread, Get(t) PROVE Placed'
<1>1. PICK q : q = [client |-> ClientOf[t], seq |-> sending[t]]
  OBVIOUS
<1>2. /\ q \in Request /\ ~IsSent(q) /\ Numbers'
      /\ \A r \in Request : IsSent(r)' <=> IsSent(r) \/ r = q
  BY <1>1, GetSends
<1>3. /\ UNCHANGED <<replyQueue, serviceVars, replies, arriving, responded, delivered>>
      /\ \/ queries' = queries \cup ({q} \X Service) /\ UNCHANGED dropped
         \/ dropped' = dropped \cup ({q} \X Service) /\ UNCHANGED queries
  BY <1>1 DEF Get
<1>4. Injective' /\ Addressed'
  BY <1>3 DEF IInv, Placed, Injective, Addressed, serviceVars
<1>5. ASSUME NEW k \in Call PROVE Exclusive(k)' /\ Response(k)'
  <2>1. k \in {q} \X Service <=> k[1] = q
    BY CallType
  <2>2. IsSent(k[1])' <=> IsSent(k[1]) \/ k[1] = q
    BY <1>2, CallType
  <2>3. /\ (IsQueued(k)' <=> IsQueued(k)) /\ (IsOpen(k)' <=> IsOpen(k)) /\ (IsReplied(k)' <=> IsReplied(k))
    BY <1>3 DEF IsQueued, IsOpen, IsReplied, serviceVars
  <2>4. Exclusive(k) /\ Response(k)
    BY DEF IInv, Placed
  <2>5. k[1] = q => ~IsSent(k[1])
    BY <1>2
  <2>6. QED BY <1>3, <2>1, <2>2, <2>3, <2>4, <2>5 DEF Exclusive, Response
<1>6. QED BY <1>2, <1>4, <1>5 DEF Placed

\* What no step other than those two changes.
LEMMA SentKept ==
  ASSUME IInv, UNCHANGED <<sequenceNumber, sending>>
  PROVE  Numbers' /\ \A k \in Call : IsSent(k[1])' <=> IsSent(k[1])
BY DEF IInv, Placed, Numbers, IsSent

\* A call that is in the network, or whose reply is, stays there, moves on to
\* where its reply is queued, or is given up.
LEMMA NetworkPlaced ==
  ASSUME IInv, NEW k \in Call, LoseQuery(k) \/ LoseReply(k) \/ ReplyCallback(k)
  PROVE  Placed'
<1>1. UNCHANGED <<clientVars, serviceVars, responded, delivered>>
  BY DEF LoseQuery, LoseReply, ReplyCallback
<1>2. \/ /\ k \in queries /\ queries' = queries \ {k} /\ dropped' = dropped \cup {k}
         /\ UNCHANGED <<replies, arriving>>
      \/ /\ k \in replies /\ replies' = replies \ {k} /\ dropped' = dropped \cup {k}
         /\ UNCHANGED <<queries, arriving>>
      \/ /\ k \in replies /\ replies' = replies \ {k} /\ arriving' = arriving \cup {k}
         /\ UNCHANGED <<queries, dropped>>
  BY DEF LoseQuery, LoseReply, ReplyCallback
<1>3. Numbers' /\ \A m \in Call : IsSent(m[1])' <=> IsSent(m[1])
  BY <1>1, SentKept DEF clientVars
<1>4. Injective' /\ Addressed'
  BY <1>1 DEF IInv, Placed, Injective, Addressed, clientVars, serviceVars
<1>5. ASSUME NEW m \in Call PROVE Exclusive(m)' /\ Response(m)'
  <2>1. (IsQueued(m)' <=> IsQueued(m)) /\ (IsOpen(m)' <=> IsOpen(m)) /\ (IsReplied(m)' <=> IsReplied(m))
    BY <1>1 DEF IsQueued, IsOpen, IsReplied, clientVars, serviceVars
  <2>2. Exclusive(m) /\ Response(m)
    BY DEF IInv, Placed
  <2>3. IsSent(m[1])' <=> IsSent(m[1])
    BY <1>3
  <2>4. CASE m = k
    BY <1>1, <1>2, <2>1, <2>2, <2>3, <2>4 DEF Exclusive, Response
  <2>5. CASE m # k
    <3>1. /\ (m \in queries' <=> m \in queries) /\ (m \in replies' <=> m \in replies)
          /\ (m \in arriving' <=> m \in arriving) /\ (m \in dropped' <=> m \in dropped)
      BY <1>2, <2>5
    <3>2. QED BY <1>1, <2>1, <2>2, <2>3, <3>1 DEF Exclusive, Response
  <2>6. QED BY <2>4, <2>5
<1>6. QED BY <1>3, <1>4, <1>5 DEF Placed

LEMMA AddNewQueryPlaced == ASSUME IInv, NEW k \in Call, AddNewQuery(k) PROVE Placed'
<1>1. PICK s \in Service : s = k[2]
  BY CallType
<1>2. k[1] \in Request /\ k = <<k[1], s>> /\ queryQueue[s] \in Seq(Request) /\ RequestDepth \in Nat \ {0}
  BY <1>1, CallType, ServiceRpcAssumption DEF IInv, TypeOK
<1>3. /\ k \in queries /\ queries' = queries \ {k}
      /\ UNCHANGED <<clientVars, openQueries, replies, arriving, responded, delivered>>
  BY DEF AddNewQuery
<1>4. Numbers' /\ \A m \in Call : IsSent(m[1])' <=> IsSent(m[1])
  BY <1>3, SentKept DEF clientVars
<1>5. IsInjective(queryQueue[s]) /\ k[1] \notin Range(queryQueue[s])
  BY <1>1, <1>3 DEF IInv, Placed, Injective, Exclusive, IsQueued
<1>6. Addressed' /\ \A c \in Client : IsInjective(replyQueue[c])'
  BY <1>3 DEF IInv, Placed, Injective, Addressed, clientVars
<1>7. CASE dropped' = dropped \cup {k} /\ queryQueue' = queryQueue
  <2>1. Injective'
    BY <1>6, <1>7 DEF IInv, Placed, Injective
  <2>2. ASSUME NEW m \in Call PROVE Exclusive(m)' /\ Response(m)'
    <3>1. (IsQueued(m)' <=> IsQueued(m)) /\ (IsOpen(m)' <=> IsOpen(m)) /\ (IsReplied(m)' <=> IsReplied(m))
      BY <1>3, <1>7 DEF IsQueued, IsOpen, IsReplied, clientVars
    <3>2. Exclusive(m) /\ Response(m) /\ (IsSent(m[1])' <=> IsSent(m[1]))
      BY <1>4 DEF IInv, Placed
    <3>3. CASE m = k
      BY <1>3, <1>7, <3>1, <3>2, <3>3 DEF Exclusive, Response
    <3>4. CASE m # k
      BY <1>3, <1>7, <3>1, <3>2, <3>4 DEF Exclusive, Response
    <3>5. QED BY <3>3, <3>4
  <2>3. QED BY <1>4, <1>6, <2>1, <2>2 DEF Placed
<1>8. CASE /\ queryQueue' = [queryQueue EXCEPT ![s] = Push(@, k[1], RequestDepth)]
           /\ dropped' = dropped \cup (Overflow(queryQueue[s], RequestDepth) \X {s})
  <2> DEFINE over == Overflow(queryQueue[s], RequestDepth)
  <2>1. /\ IsInjective(queryQueue'[s]) /\ over \subseteq Range(queryQueue[s])
        /\ Range(queryQueue'[s]) = (Range(queryQueue[s]) \ over) \cup {k[1]}
    <3>1. queryQueue'[s] = Push(queryQueue[s], k[1], RequestDepth)
      BY <1>8 DEF IInv, TypeOK
    <3>2. QED BY <1>2, <1>5, <3>1, PushFacts
  <2> HIDE DEF over
  <2>2. \A u \in Service : u # s => queryQueue'[u] = queryQueue[u]
    BY <1>8 DEF IInv, TypeOK
  <2>3. Injective'
    BY <1>6, <2>1, <2>2 DEF IInv, Placed, Injective
  <2>4. ASSUME NEW m \in Call PROVE Exclusive(m)' /\ Response(m)'
    <3>1. m[2] \in Service /\ m = <<m[1], m[2]>>
      BY CallType
    <3>2. m \in over \X {s} <=> m[2] = s /\ m[1] \in over
      BY <3>1
    <3>3. m = k <=> m[2] = s /\ m[1] = k[1]
      BY <1>2, <3>1
    <3>4. (IsOpen(m)' <=> IsOpen(m)) /\ (IsReplied(m)' <=> IsReplied(m))
      BY <1>3 DEF IsOpen, IsReplied, clientVars
    <3>5. IsQueued(m)' <=> (IsQueued(m) /\ m \notin over \X {s}) \/ m = k
      BY <2>1, <2>2, <3>1, <3>2, <3>3 DEF IsQueued
    <3>6. m \in over \X {s} => IsQueued(m)
      BY <2>1, <3>2 DEF IsQueued
    <3>7. m \in dropped' <=> m \in dropped \/ m \in over \X {s}
      BY <1>8 DEF over
    <3>8. Exclusive(m) /\ Response(m) /\ (IsSent(m[1])' <=> IsSent(m[1]))
      BY <1>4 DEF IInv, Placed
    <3>9. m \in queries' <=> m \in queries /\ m # k
      BY <1>3
    <3>10. QED BY <1>3, <3>4, <3>5, <3>6, <3>7, <3>8, <3>9 DEF Exclusive, Response
  <2>5. QED BY <1>4, <1>6, <2>3, <2>4 DEF Placed
<1>9. QED BY <1>1, <1>7, <1>8 DEF AddNewQuery

LEMMA TakeRequestPlaced == ASSUME IInv, NEW s \in Service, TakeRequest(s) PROVE Placed'
<1>1. PICK r : r = Head(queryQueue[s])
  OBVIOUS
<1>2. /\ r \in Request /\ r \in Range(queryQueue[s])
      /\ IsInjective(Tail(queryQueue[s])) /\ Range(Tail(queryQueue[s])) = Range(queryQueue[s]) \ {r}
  BY <1>1, PopFacts DEF IInv, TypeOK, Placed, Injective, TakeRequest
<1>3. <<r, s>> \in Call
  BY <1>2 DEF Call
<1>4. /\ UNCHANGED <<clientVars, queries, replies, arriving, responded, delivered>>
      /\ queryQueue'[s] = Tail(queryQueue[s])
      /\ \A u \in Service : u # s => queryQueue'[u] = queryQueue[u]
  BY DEF TakeRequest, network, IInv, TypeOK
<1>5. \/ dropped' = dropped /\ openQueries' = [openQueries EXCEPT ![s] = @ \cup {r}]
      \/ dropped' = dropped \cup {<<r, s>>} /\ openQueries' = openQueries
  BY <1>1 DEF TakeRequest
<1>6. Numbers' /\ \A m \in Call : IsSent(m[1])' <=> IsSent(m[1])
  BY <1>4, SentKept DEF clientVars
<1>7. Injective' /\ Addressed'
  BY <1>2, <1>4 DEF IInv, Placed, Injective, Addressed, clientVars
<1>8. ASSUME NEW m \in Call PROVE Exclusive(m)' /\ Response(m)'
  <2>1. m[2] \in Service /\ (m = <<r, s>> <=> m[1] = r /\ m[2] = s)
    BY CallType
  <2>2. IsReplied(m)' <=> IsReplied(m)
    BY <1>4 DEF IsReplied, clientVars
  <2>3. IsQueued(m)' <=> IsQueued(m) /\ m # <<r, s>>
    BY <1>2, <1>4, <2>1 DEF IsQueued
  <2>4. m = <<r, s>> => IsQueued(m)
    BY <1>2, <2>1 DEF IsQueued
  <2>5. \/ (m \in dropped' <=> m \in dropped) /\ (IsOpen(m)' <=> IsOpen(m) \/ m = <<r, s>>)
        \/ (m \in dropped' <=> m \in dropped \/ m = <<r, s>>) /\ (IsOpen(m)' <=> IsOpen(m))
    BY <1>5, <2>1 DEF IsOpen, IInv, TypeOK
  <2>6. Exclusive(m) /\ Response(m) /\ (IsSent(m[1])' <=> IsSent(m[1]))
    BY <1>6 DEF IInv, Placed
  <2>7. QED BY <1>4, <2>2, <2>3, <2>4, <2>5, <2>6 DEF Exclusive, Response
<1>9. QED BY <1>6, <1>7, <1>8 DEF Placed

LEMMA SendResponsePlaced ==
  ASSUME IInv, NEW s \in Service, NEW r \in Request, SendResponse(s, r) PROVE Placed'
<1>1. /\ UNCHANGED <<clientVars, queryQueue, queries, arriving, delivered>>
      /\ responded' = responded \cup {<<r, s>>}
      /\ r \in openQueries[s] /\ openQueries' = [openQueries EXCEPT ![s] = @ \ {r}]
      /\ \/ replies' = replies \cup {<<r, s>>} /\ dropped' = dropped
         \/ dropped' = dropped \cup {<<r, s>>} /\ replies' = replies
  BY DEF SendResponse
<1>2. Numbers' /\ \A m \in Call : IsSent(m[1])' <=> IsSent(m[1])
  BY <1>1, SentKept DEF clientVars
<1>3. Injective' /\ Addressed'
  BY <1>1 DEF IInv, Placed, Injective, Addressed, clientVars
<1>4. ASSUME NEW m \in Call PROVE Exclusive(m)' /\ Response(m)'
  <2>1. m[2] \in Service /\ (m = <<r, s>> <=> m[1] = r /\ m[2] = s)
    BY CallType
  <2>2. (IsReplied(m)' <=> IsReplied(m)) /\ (IsQueued(m)' <=> IsQueued(m))
    BY <1>1 DEF IsReplied, IsQueued, clientVars
  <2>3. (IsOpen(m)' <=> IsOpen(m) /\ m # <<r, s>>) /\ (m = <<r, s>> => IsOpen(m))
    BY <1>1, <2>1 DEF IsOpen, IInv, TypeOK
  <2>4. Exclusive(m) /\ Response(m) /\ (IsSent(m[1])' <=> IsSent(m[1]))
    BY <1>2 DEF IInv, Placed
  <2>5. /\ m \in responded' <=> m \in responded \/ m = <<r, s>>
        /\ \/ (m \in replies' <=> m \in replies \/ m = <<r, s>>) /\ (m \in dropped' <=> m \in dropped)
           \/ (m \in dropped' <=> m \in dropped \/ m = <<r, s>>) /\ (m \in replies' <=> m \in replies)
    BY <1>1
  <2>6. QED BY <1>1, <2>2, <2>3, <2>4, <2>5 DEF Exclusive, Response
<1>5. QED BY <1>2, <1>3, <1>4 DEF Placed

LEMMA AddNewReplyPlaced == ASSUME IInv, NEW k \in Call, AddNewReply(k) PROVE Placed'
<1>1. PICK c \in Client : c = k[1].client
  BY CallType
<1>2. replyQueue[c] \in Seq(Call) /\ ReplyDepth \in Nat \ {0}
  BY ServiceRpcAssumption DEF IInv, TypeOK
<1>3. /\ k \in arriving /\ arriving' = arriving \ {k}
      /\ replyQueue' = [replyQueue EXCEPT ![c] = Push(@, k, ReplyDepth)]
      /\ dropped' = dropped \cup Overflow(replyQueue[c], ReplyDepth)
      /\ UNCHANGED <<sequenceNumber, sending, serviceVars, queries, replies, responded, delivered>>
  BY <1>1 DEF AddNewReply
<1>4. Numbers' /\ \A m \in Call : IsSent(m[1])' <=> IsSent(m[1])
  BY <1>3, SentKept
<1>5. IsInjective(replyQueue[c]) /\ k \notin Range(replyQueue[c])
  BY <1>1, <1>3 DEF IInv, Placed, Injective, Exclusive, IsReplied
<1> DEFINE over == Overflow(replyQueue[c], ReplyDepth)
<1>6. /\ IsInjective(replyQueue'[c]) /\ over \subseteq Range(replyQueue[c])
      /\ Range(replyQueue'[c]) = (Range(replyQueue[c]) \ over) \cup {k}
  <2>1. replyQueue'[c] = Push(replyQueue[c], k, ReplyDepth)
    BY <1>3 DEF IInv, TypeOK
  <2>2. QED BY <1>2, <1>5, <2>1, PushFacts
<1>7. dropped' = dropped \cup over
  BY <1>3
<1> HIDE DEF over
<1>8. \A d \in Client : d # c => replyQueue'[d] = replyQueue[d]
  BY <1>3 DEF IInv, TypeOK
<1>9. Injective'
  BY <1>3, <1>6, <1>8 DEF IInv, Placed, Injective, serviceVars
<1>10. Addressed'
  BY <1>1, <1>6, <1>8 DEF IInv, Placed, Addressed
<1>11. ASSUME NEW m \in Call PROVE Exclusive(m)' /\ Response(m)'
  <2>1. m[1].client \in Client
    BY CallType
  <2>2. (IsQueued(m)' <=> IsQueued(m)) /\ (IsOpen(m)' <=> IsOpen(m))
    BY <1>3 DEF IsQueued, IsOpen, serviceVars
  <2>3. m \in over => m[1].client = c /\ IsReplied(m)
    BY <1>6 DEF IInv, Placed, Addressed, IsReplied
  <2>4. IsReplied(m)' <=> (IsReplied(m) /\ m \notin over) \/ m = k
    BY <1>1, <1>6, <1>8, <2>1, <2>3 DEF IsReplied
  <2>5. Exclusive(m) /\ Response(m) /\ (IsSent(m[1])' <=> IsSent(m[1]))
    BY <1>4 DEF IInv, Placed
  <2>6. (m \in arriving' <=> m \in arriving /\ m # k) /\ (m \in dropped' <=> m \in dropped \/ m \in over)
    BY <1>3, <1>7
  <2>7. QED BY <1>3, <2>2, <2>3, <2>4, <2>5, <2>6 DEF Exclusive, Response
<1>12. QED BY <1>4, <1>9, <1>10, <1>11 DEF Placed

LEMMA TakeResponsePlaced == ASSUME IInv, NEW c \in Client, TakeResponse(c) PROVE Placed'
<1>1. PICK k : k = Head(replyQueue[c])
  OBVIOUS
<1>2. /\ k \in Call /\ k \in Range(replyQueue[c])
      /\ IsInjective(Tail(replyQueue[c])) /\ Range(Tail(replyQueue[c])) = Range(replyQueue[c]) \ {k}
  BY <1>1, PopFacts DEF IInv, TypeOK, Placed, Injective, TakeResponse
<1>3. /\ UNCHANGED <<sequenceNumber, sending, serviceVars, network, responded>>
      /\ replyQueue'[c] = Tail(replyQueue[c])
      /\ \A d \in Client : d # c => replyQueue'[d] = replyQueue[d]
      /\ \/ delivered' = delivered \cup {k} /\ dropped' = dropped
         \/ dropped' = dropped \cup {k} /\ delivered' = delivered
  BY <1>1 DEF TakeResponse, IInv, TypeOK
<1>4. Numbers' /\ \A m \in Call : IsSent(m[1])' <=> IsSent(m[1])
  BY <1>3, SentKept
<1>5. Injective' /\ Addressed'
  BY <1>2, <1>3 DEF IInv, Placed, Injective, Addressed, serviceVars
<1>6. k[1].client = c
  BY <1>2 DEF IInv, Placed, Addressed
<1>7. ASSUME NEW m \in Call PROVE Exclusive(m)' /\ Response(m)'
  <2>1. m[1].client \in Client
    BY CallType
  <2>2. (IsQueued(m)' <=> IsQueued(m)) /\ (IsOpen(m)' <=> IsOpen(m))
    BY <1>3 DEF IsQueued, IsOpen, serviceVars
  <2>3. (IsReplied(m)' <=> IsReplied(m) /\ m # k) /\ (m = k => IsReplied(m))
    BY <1>2, <1>3, <1>6, <2>1 DEF IsReplied
  <2>4. Exclusive(m) /\ Response(m) /\ (IsSent(m[1])' <=> IsSent(m[1]))
    BY <1>4 DEF IInv, Placed
  <2>5. \/ (m \in delivered' <=> m \in delivered \/ m = k) /\ (m \in dropped' <=> m \in dropped)
        \/ (m \in dropped' <=> m \in dropped \/ m = k) /\ (m \in delivered' <=> m \in delivered)
    BY <1>3
  <2>6. QED BY <1>3, <2>2, <2>3, <2>4, <2>5 DEF Exclusive, Response, network
<1>8. QED BY <1>4, <1>5, <1>7 DEF Placed

\* A timeout and a shutdown move no call.
LEMMA RestPlaced ==
  ASSUME IInv, UNCHANGED <<sequenceNumber, sending, replyQueue, queryQueue, openQueries, network, history>>
  PROVE  Placed'
<1>1. Numbers' /\ \A m \in Call : IsSent(m[1])' <=> IsSent(m[1])
  BY SentKept
<1>2. Injective' /\ Addressed'
  BY DEF IInv, Placed, Injective, Addressed
<1>3. ASSUME NEW m \in Call PROVE Exclusive(m)' /\ Response(m)'
  <2>1. (IsQueued(m)' <=> IsQueued(m)) /\ (IsOpen(m)' <=> IsOpen(m)) /\ (IsReplied(m)' <=> IsReplied(m))
    BY DEF IsQueued, IsOpen, IsReplied
  <2>2. Exclusive(m) /\ Response(m) /\ (IsSent(m[1])' <=> IsSent(m[1]))
    BY <1>1 DEF IInv, Placed
  <2>3. QED BY <2>1, <2>2 DEF Exclusive, Response, network, history
<1>4. QED BY <1>1, <1>2, <1>3 DEF Placed

LEMMA NextPlaced == IInv /\ [Next]_vars => IInv'
<1> SUFFICES ASSUME IInv, [Next]_vars PROVE IInv'
  OBVIOUS
<1>1. ASSUME NEW t \in Thread, SendRequest(t) \/ Get(t) PROVE Placed'
  BY <1>1, SendRequestPlaced, GetPlaced
<1>2. ASSUME NEW k \in Call, LoseQuery(k) \/ LoseReply(k) \/ AddNewQuery(k) \/ ReplyCallback(k) \/ AddNewReply(k)
      PROVE  Placed'
  BY <1>2, NetworkPlaced, AddNewQueryPlaced, AddNewReplyPlaced
<1>3. ASSUME NEW r \in Request, Timeout(r) PROVE Placed'
  BY <1>3, RestPlaced DEF Timeout, serviceVars
<1>4. ASSUME NEW s \in Service, TakeRequest(s) PROVE Placed'
  BY <1>4, TakeRequestPlaced
<1>5. ASSUME NEW s \in Service, ShutdownService(s) PROVE Placed'
  BY <1>5, RestPlaced DEF ShutdownService, clientVars
<1>6. ASSUME NEW s \in Service, NEW r \in Request, SendResponse(s, r) PROVE Placed'
  BY <1>6, SendResponsePlaced
<1>7. ASSUME NEW c \in Client, TakeResponse(c) PROVE Placed'
  BY <1>7, TakeResponsePlaced
<1>8. ASSUME NEW c \in Client, ShutdownClient(c) PROVE Placed'
  BY <1>8, RestPlaced DEF ShutdownClient, serviceVars
<1>9. ASSUME UNCHANGED vars PROVE Placed'
  BY <1>9, RestPlaced DEF vars, clientVars, serviceVars
<1>10. Placed'
  BY <1>1, <1>2, <1>3, <1>4, <1>5, <1>6, <1>7, <1>8, <1>9 DEF Next
<1>11. QED BY <1>10, NextTyped DEF IInv

LEMMA InvariantHolds == Spec => []IInv
<1>1. Init => IInv
  BY InitTyped, InitPlaced DEF IInv
<1>2. QED BY <1>1, NextPlaced, PTL DEF Spec

LEMMA PlacedIsOnePlace == IInv => OnePlace
<1> SUFFICES ASSUME IInv PROVE OnePlace
  OBVIOUS
<1>1. ASSUME NEW k \in Call
      PROVE  IF IsSent(k[1]) THEN \E p \in Places(k) : Places(k) = {p} ELSE Places(k) = {}
  <2>1. Exclusive(k)
    BY DEF IInv, Placed
  <2>2. CASE ~IsSent(k[1])
    BY <2>1, <2>2 DEF Exclusive, Places
  <2>3. CASE IsSent(k[1])
    <3>1. ASSUME NEW p, Places(k) = {p} PROVE \E q \in Places(k) : Places(k) = {q}
      BY <3>1
    <3>2. CASE k \in queries
      <4>1. Places(k) = {"queries"}
        BY <2>1, <3>2 DEF Exclusive, Places
      <4>2. QED BY <2>3, <3>1, <4>1
    <3>3. CASE IsQueued(k)
      <4>1. Places(k) = {"queue"}
        BY <2>1, <3>3 DEF Exclusive, Places
      <4>2. QED BY <2>3, <3>1, <4>1
    <3>4. CASE IsOpen(k)
      <4>1. Places(k) = {"map"}
        BY <2>1, <3>4 DEF Exclusive, Places
      <4>2. QED BY <2>3, <3>1, <4>1
    <3>5. CASE k \in replies
      <4>1. Places(k) = {"replies"}
        BY <2>1, <3>5 DEF Exclusive, Places
      <4>2. QED BY <2>3, <3>1, <4>1
    <3>6. CASE k \in arriving
      <4>1. Places(k) = {"arriving"}
        BY <2>1, <3>6 DEF Exclusive, Places
      <4>2. QED BY <2>3, <3>1, <4>1
    <3>7. CASE IsReplied(k)
      <4>1. Places(k) = {"reply queue"}
        BY <2>1, <3>7 DEF Exclusive, Places
      <4>2. QED BY <2>3, <3>1, <4>1
    <3>8. CASE k \in delivered
      <4>1. Places(k) = {"delivered"}
        BY <2>1, <3>8 DEF Exclusive, Places
      <4>2. QED BY <2>3, <3>1, <4>1
    <3>9. CASE k \in dropped
      <4>1. Places(k) = {"dropped"}
        BY <2>1, <3>9 DEF Exclusive, Places
      <4>2. QED BY <2>3, <3>1, <4>1
    <3>10. QED BY <2>1, <2>3, <3>2, <3>3, <3>4, <3>5, <3>6, <3>7, <3>8, <3>9 DEF Exclusive
  <2>4. QED BY <2>2, <2>3
<1>2. QED BY <1>1 DEF OnePlace, IInv, Placed, Injective

\* However many threads send on however many clients, and whichever steps fail,
\* a request that was sent is at one place for each server, once.
THEOREM CallsAreAtOnePlace == Spec => []OnePlace
BY InvariantHolds, PlacedIsOnePlace, PTL

\* A response that comes back was made for that very request, and is queued at
\* the client that sent it.
THEOREM ResponsesAreOwn == Spec => []OwnResponse
<1>1. IInv => OwnResponse
  BY DEF IInv, Placed, Response, Addressed, OwnResponse
<1>2. QED BY <1>1, InvariantHolds, PTL

-----------------------------------------------------------------------------
(* The at-most-once call *)

\* A call that no part of the state has moved is at the stage it was at.
Kept(m) ==
  /\ IsSent(m[1])' <=> IsSent(m[1])
  /\ IsQueued(m)' <=> IsQueued(m)
  /\ IsOpen(m)' <=> IsOpen(m)
  /\ IsReplied(m)' <=> IsReplied(m)
  /\ m \in queries' <=> m \in queries
  /\ m \in replies' <=> m \in replies
  /\ m \in arriving' <=> m \in arriving
  /\ m \in delivered' <=> m \in delivered

LEMMA KeptStage == ASSUME NEW m, Kept(m) PROVE Stage(m)' = Stage(m)
BY DEF Kept, Stage

LEMMA StageFacts ==
  ASSUME IInv, IInv', NEW k \in Call
  PROVE  /\ ~IsSent(k[1]) => Stage(k) = "new"
         /\ k \in queries \/ IsQueued(k) => Stage(k) = "sent"
         /\ IsOpen(k) => Stage(k) = "executed"
         /\ k \in replies \/ k \in arriving \/ IsReplied(k) => Stage(k) = "answered"
         /\ (k \in queries \/ IsQueued(k) => Stage(k) = "sent")'
         /\ (IsOpen(k) => Stage(k) = "executed")'
         /\ (k \in replies \/ k \in arriving \/ IsReplied(k) => Stage(k) = "answered")'
         /\ (k \in delivered => Stage(k) = "delivered")'
         /\ (k \in dropped => Stage(k) = "dropped")'
<1>1. Exclusive(k) /\ Exclusive(k)'
  BY DEF IInv, Placed
<1>2. QED BY <1>1 DEF Exclusive, Stage

\* When one call moves, the map of stages changes there.
LEMMA OneMoves ==
  ASSUME NEW x \in Call, \A m \in Call : m # x => Stage(m)' = Stage(m),
         \/ Stage(x)' = Stage(x)
         \/ Stage(x) = "sent" /\ Stage(x)' = "executed"
         \/ Stage(x) = "executed" /\ Stage(x)' = "answered"
         \/ Stage(x) = "answered" /\ Stage(x)' = "delivered"
         \/ Stage(x) \in {"sent", "executed", "answered"} /\ Stage(x)' = "dropped"
  PROVE  [Remote!Next]_([k \in Call |-> Stage(k)])
<1> DEFINE stage == [k \in Call |-> Stage(k)]
<1>1. stage' = [stage EXCEPT ![x] = Stage(x)']
  OBVIOUS
<1>2. stage[x] = Stage(x) /\ x \in Remote!Call
  BY DEF Remote!Call, Call
<1>3. CASE Stage(x)' = Stage(x)
  <2>1. stage' = stage
    BY <1>3
  <2>2. QED BY <2>1
<1>4. CASE Stage(x) = "sent" /\ Stage(x)' = "executed"
  <2>1. Remote!Execute(x)
    BY <1>1, <1>2, <1>4 DEF Remote!Execute, Remote!Advance
  <2>2. QED BY <1>2, <2>1 DEF Remote!Next
<1>5. CASE Stage(x) = "executed" /\ Stage(x)' = "answered"
  <2>1. Remote!Answer(x)
    BY <1>1, <1>2, <1>5 DEF Remote!Answer, Remote!Advance
  <2>2. QED BY <1>2, <2>1 DEF Remote!Next
<1>6. CASE Stage(x) = "answered" /\ Stage(x)' = "delivered"
  <2>1. Remote!Deliver(x)
    BY <1>1, <1>2, <1>6 DEF Remote!Deliver, Remote!Advance
  <2>2. QED BY <1>2, <2>1 DEF Remote!Next
<1>7. CASE Stage(x) \in {"sent", "executed", "answered"} /\ Stage(x)' = "dropped"
  <2>1. Remote!Drop(x)
    BY <1>1, <1>2, <1>7 DEF Remote!Drop, Remote!Advance
  <2>2. QED BY <1>2, <2>1 DEF Remote!Next
<1>8. QED BY <1>3, <1>4, <1>5, <1>6, <1>7

LEMMA NoneMoves ==
  ASSUME \A m \in Call : Stage(m)' = Stage(m)
  PROVE  [Remote!Next]_([k \in Call |-> Stage(k)])
<1>1. [k \in Call |-> Stage(k)]' = [k \in Call |-> Stage(k)]
  OBVIOUS
<1>2. QED BY <1>1

\* Numbering a request moves no call.
LEMMA SendRequestRefines ==
  ASSUME IInv, NEW t \in Thread, SendRequest(t) PROVE [Remote!Next]_([k \in Call |-> Stage(k)])
<1>1. ASSUME NEW m \in Call PROVE Kept(m)
  <2>1. IsSent(m[1])' <=> IsSent(m[1])
    BY SendRequestSends, CallType
  <2>2. UNCHANGED <<replyQueue, serviceVars, network, history>>
    BY DEF SendRequest
  <2>3. QED BY <2>1, <2>2 DEF Kept, IsQueued, IsOpen, IsReplied, serviceVars, network, history
<1>2. QED BY <1>1, KeptStage, NoneMoves

\* Handing a request to zenoh sends its calls to all the servers, or to none.
LEMMA GetRefines ==
  ASSUME IInv, IInv', NEW t \in Thread, Get(t) PROVE [Remote!Next]_([k \in Call |-> Stage(k)])
<1> DEFINE stage == [k \in Call |-> Stage(k)]
<1>1. PICK q : q = [client |-> ClientOf[t], seq |-> sending[t]]
  OBVIOUS
<1>2. /\ q \in Request /\ ~IsSent(q)
      /\ \A r \in Request : IsSent(r)' <=> IsSent(r) \/ r = q
  BY <1>1, GetSends
<1>3. /\ UNCHANGED <<replyQueue, serviceVars, replies, arriving, responded, delivered>>
      /\ \/ queries' = queries \cup ({q} \X Service) /\ UNCHANGED dropped
         \/ dropped' = dropped \cup ({q} \X Service) /\ UNCHANGED queries
  BY <1>1 DEF Get
<1>4. ASSUME NEW m \in Call, m[1] # q PROVE Stage(m)' = Stage(m)
  <2>1. IsSent(m[1])' <=> IsSent(m[1])
    BY <1>2, <1>4, CallType
  <2>2. m \in queries' <=> m \in queries
    BY <1>3, <1>4, CallType
  <2>3. Kept(m)
    BY <1>3, <2>1, <2>2 DEF Kept, IsQueued, IsOpen, IsReplied, serviceVars
  <2>4. QED BY <2>3, KeptStage
<1>5. ASSUME NEW m \in Call, m[1] = q PROVE Stage(m) = "new" /\ m \in {q} \X Service
  BY <1>2, <1>5, CallType, StageFacts
<1>6. ASSUME NEW s \in Service PROVE stage[<<q, s>>] = "new"
  BY <1>2, <1>5 DEF Call
<1>7. PICK to \in {"sent", "dropped"} : \A m \in Call : m[1] = q => Stage(m)' = to
  <2>1. CASE queries' = queries \cup ({q} \X Service)
    BY <1>5, <2>1, StageFacts
  <2>2. CASE dropped' = dropped \cup ({q} \X Service)
    BY <1>5, <2>2, StageFacts
  <2>3. QED BY <1>3, <2>1, <2>2
<1>8. stage' = [k \in Call |-> IF k[1] = q THEN to ELSE stage[k]]
  BY <1>4, <1>7
<1>9. Remote!Send(q)
  BY <1>6, <1>8 DEF Remote!Send, Remote!Call, Call
<1>10. QED BY <1>2, <1>9 DEF Remote!Next

\* A query that is lost, a reply that is lost, comes too late or is let in.
LEMMA NetworkRefines ==
  ASSUME IInv, IInv', NEW k \in Call, LoseQuery(k) \/ LoseReply(k) \/ ReplyCallback(k)
  PROVE  [Remote!Next]_([m \in Call |-> Stage(m)])
<1>1. UNCHANGED <<clientVars, serviceVars, responded, delivered>>
  BY DEF LoseQuery, LoseReply, ReplyCallback
<1>2. \/ /\ k \in queries /\ queries' = queries \ {k} /\ dropped' = dropped \cup {k}
         /\ UNCHANGED <<replies, arriving>>
      \/ /\ k \in replies /\ replies' = replies \ {k} /\ dropped' = dropped \cup {k}
         /\ UNCHANGED <<queries, arriving>>
      \/ /\ k \in replies /\ replies' = replies \ {k} /\ arriving' = arriving \cup {k}
         /\ UNCHANGED <<queries, dropped>>
  BY DEF LoseQuery, LoseReply, ReplyCallback
<1>3. ASSUME NEW m \in Call, m # k PROVE Stage(m)' = Stage(m)
  <2>1. IsSent(m[1])' <=> IsSent(m[1])
    BY <1>1, SentKept DEF clientVars
  <2>2. Kept(m)
    BY <1>1, <1>2, <1>3, <2>1 DEF Kept, IsQueued, IsOpen, IsReplied, clientVars, serviceVars
  <2>3. QED BY <2>2, KeptStage
<1>4. \/ Stage(k) \in {"sent", "answered"} /\ Stage(k)' = "dropped"
      \/ Stage(k)' = Stage(k)
  BY <1>2, StageFacts
<1>5. QED BY <1>3, <1>4, OneMoves

\* A query reaches its server: one call at most is given up, the query or what
\* it pushes out of the queue.
LEMMA AddNewQueryRefines ==
  ASSUME IInv, IInv', NEW k \in Call, AddNewQuery(k) PROVE [Remote!Next]_([m \in Call |-> Stage(m)])
<1>1. PICK s \in Service : s = k[2]
  BY CallType
<1>2. k[1] \in Request /\ k = <<k[1], s>> /\ queryQueue[s] \in Seq(Request) /\ RequestDepth \in Nat \ {0}
  BY <1>1, CallType, ServiceRpcAssumption DEF IInv, TypeOK
<1>3. /\ k \in queries /\ queries' = queries \ {k}
      /\ UNCHANGED <<clientVars, openQueries, replies, arriving, responded, delivered>>
  BY DEF AddNewQuery
<1>4. ASSUME NEW m \in Call
      PROVE  (IsSent(m[1])' <=> IsSent(m[1])) /\ (IsOpen(m)' <=> IsOpen(m)) /\ (IsReplied(m)' <=> IsReplied(m))
  BY <1>3, SentKept DEF clientVars, IsOpen, IsReplied
<1>5. CASE dropped' = dropped \cup {k} /\ queryQueue' = queryQueue
  <2>1. ASSUME NEW m \in Call, m # k PROVE Stage(m)' = Stage(m)
    <3>1. Kept(m)
      BY <1>3, <1>4, <1>5, <2>1 DEF Kept, IsQueued
    <3>2. QED BY <3>1, KeptStage
  <2>2. Stage(k) = "sent" /\ Stage(k)' = "dropped"
    BY <1>3, <1>5, StageFacts
  <2>3. QED BY <2>1, <2>2, OneMoves
<1>6. CASE /\ queryQueue' = [queryQueue EXCEPT ![s] = Push(@, k[1], RequestDepth)]
           /\ dropped' = dropped \cup (Overflow(queryQueue[s], RequestDepth) \X {s})
  <2> DEFINE over == Overflow(queryQueue[s], RequestDepth)
  <2>1. IsInjective(queryQueue[s]) /\ k[1] \notin Range(queryQueue[s])
    BY <1>1, <1>3 DEF IInv, Placed, Injective, Exclusive, IsQueued
  <2>2. /\ over \subseteq Range(queryQueue[s])
        /\ Range(queryQueue'[s]) = (Range(queryQueue[s]) \ over) \cup {k[1]}
        /\ over = {} \/ \E y \in Range(queryQueue[s]) : y \in Request /\ over = {y}
    <3>1. queryQueue'[s] = Push(queryQueue[s], k[1], RequestDepth)
      BY <1>6 DEF IInv, TypeOK
    <3>2. QED BY <1>2, <2>1, <3>1, PushFacts
  <2>3. dropped' = dropped \cup (over \X {s})
    BY <1>6
  <2> HIDE DEF over
  <2>4. \A u \in Service : u # s => queryQueue'[u] = queryQueue[u]
    BY <1>6 DEF IInv, TypeOK
  <2>5. Stage(k)' = Stage(k)
    <3>1. IsQueued(k)'
      BY <1>1, <2>2 DEF IsQueued
    <3>2. QED BY <1>3, <3>1, StageFacts
  <2>6. ASSUME NEW m \in Call, m # k, m \notin over \X {s} PROVE Stage(m)' = Stage(m)
    <3>1. m[2] \in Service /\ m = <<m[1], m[2]>>
      BY CallType
    <3>2. IsQueued(m)' <=> IsQueued(m)
      BY <1>2, <2>2, <2>4, <2>6, <3>1 DEF IsQueued
    <3>3. Kept(m)
      BY <1>3, <1>4, <2>6, <3>2 DEF Kept
    <3>4. QED BY <3>3, KeptStage
  <2>7. CASE over = {}
    BY <2>5, <2>6, <2>7, NoneMoves
  <2>8. ASSUME NEW y \in Range(queryQueue[s]), y \in Request, over = {y}
        PROVE  [Remote!Next]_([m \in Call |-> Stage(m)])
    <3>1. <<y, s>> \in Call /\ IsQueued(<<y, s>>)
      BY <2>8 DEF Call, IsQueued
    <3>2. <<y, s>> \in dropped'
      BY <2>3, <2>8
    <3>3. Stage(<<y, s>>) = "sent" /\ Stage(<<y, s>>)' = "dropped"
      BY <3>1, <3>2, StageFacts
    <3>4. ASSUME NEW m \in Call, m # <<y, s>> PROVE Stage(m)' = Stage(m)
      <4>1. m \notin over \X {s}
        BY <2>8, <3>4
      <4>2. QED BY <2>5, <2>6, <4>1
    <3>5. QED BY <3>1, <3>3, <3>4, OneMoves
  <2>9. QED BY <2>2, <2>7, <2>8
<1>7. QED BY <1>1, <1>5, <1>6 DEF AddNewQuery

\* A request is handed to the application, or gone.
LEMMA TakeRequestRefines ==
  ASSUME IInv, IInv', NEW s \in Service, TakeRequest(s) PROVE [Remote!Next]_([k \in Call |-> Stage(k)])
<1>1. PICK r : r = Head(queryQueue[s])
  OBVIOUS
<1>2. /\ r \in Request /\ r \in Range(queryQueue[s])
      /\ Range(Tail(queryQueue[s])) = Range(queryQueue[s]) \ {r}
  BY <1>1, PopFacts DEF IInv, TypeOK, Placed, Injective, TakeRequest
<1>3. <<r, s>> \in Call /\ IsQueued(<<r, s>>)
  BY <1>2 DEF Call, IsQueued
<1>4. /\ UNCHANGED <<clientVars, queries, replies, arriving, responded, delivered>>
      /\ queryQueue'[s] = Tail(queryQueue[s])
      /\ \A u \in Service : u # s => queryQueue'[u] = queryQueue[u]
  BY DEF TakeRequest, network, IInv, TypeOK
<1>5. \/ openQueries' = [openQueries EXCEPT ![s] = @ \cup {r}]
      \/ dropped' = dropped \cup {<<r, s>>} /\ openQueries' = openQueries
  BY <1>1 DEF TakeRequest
<1>6. ASSUME NEW m \in Call, m # <<r, s>> PROVE Stage(m)' = Stage(m)
  <2>1. m[2] \in Service /\ (m[2] = s => m[1] # r)
    BY <1>6, CallType
  <2>2. (IsSent(m[1])' <=> IsSent(m[1])) /\ (IsReplied(m)' <=> IsReplied(m))
    BY <1>4, SentKept DEF clientVars, IsReplied
  <2>3. IsQueued(m)' <=> IsQueued(m)
    BY <1>2, <1>4, <2>1 DEF IsQueued
  <2>4. IsOpen(m)' <=> IsOpen(m)
    BY <1>5, <2>1 DEF IsOpen, IInv, TypeOK
  <2>5. Kept(m)
    BY <1>4, <2>2, <2>3, <2>4 DEF Kept
  <2>6. QED BY <2>5, KeptStage
<1>7. Stage(<<r, s>>) = "sent" /\ Stage(<<r, s>>)' \in {"executed", "dropped"}
  <2>1. CASE openQueries' = [openQueries EXCEPT ![s] = @ \cup {r}]
    <3>1. IsOpen(<<r, s>>)'
      BY <2>1 DEF IsOpen, IInv, TypeOK
    <3>2. QED BY <1>3, <3>1, StageFacts
  <2>2. CASE dropped' = dropped \cup {<<r, s>>}
    BY <1>3, <2>2, StageFacts
  <2>3. QED BY <1>5, <2>1, <2>2
<1>8. QED BY <1>3, <1>6, <1>7, OneMoves

\* A response is sent, or gone with its entry.
LEMMA SendResponseRefines ==
  ASSUME IInv, IInv', NEW s \in Service, NEW r \in Request, SendResponse(s, r)
  PROVE  [Remote!Next]_([k \in Call |-> Stage(k)])
<1>1. /\ UNCHANGED <<clientVars, queryQueue, queries, arriving, delivered>>
      /\ r \in openQueries[s] /\ openQueries' = [openQueries EXCEPT ![s] = @ \ {r}]
      /\ \/ replies' = replies \cup {<<r, s>>}
         \/ dropped' = dropped \cup {<<r, s>>} /\ replies' = replies
  BY DEF SendResponse
<1>2. <<r, s>> \in Call /\ IsOpen(<<r, s>>)
  BY <1>1 DEF Call, IsOpen
<1>3. ASSUME NEW m \in Call, m # <<r, s>> PROVE Stage(m)' = Stage(m)
  <2>1. m[2] \in Service /\ (m[2] = s => m[1] # r)
    BY <1>3, CallType
  <2>2. (IsSent(m[1])' <=> IsSent(m[1])) /\ (IsReplied(m)' <=> IsReplied(m)) /\ (IsQueued(m)' <=> IsQueued(m))
    BY <1>1, SentKept DEF clientVars, IsReplied, IsQueued
  <2>3. IsOpen(m)' <=> IsOpen(m)
    BY <1>1, <2>1 DEF IsOpen, IInv, TypeOK
  <2>4. Kept(m)
    BY <1>1, <1>3, <2>2, <2>3 DEF Kept
  <2>5. QED BY <2>4, KeptStage
<1>4. Stage(<<r, s>>) = "executed" /\ Stage(<<r, s>>)' \in {"answered", "dropped"}
  <2>1. CASE replies' = replies \cup {<<r, s>>}
    BY <1>2, <2>1, StageFacts
  <2>2. CASE dropped' = dropped \cup {<<r, s>>}
    BY <1>2, <2>2, StageFacts
  <2>3. QED BY <1>1, <2>1, <2>2
<1>5. QED BY <1>2, <1>3, <1>4, OneMoves

\* A reply is queued: it is still to be delivered, and one call at most is
\* given up, the one it pushes out.
LEMMA AddNewReplyRefines ==
  ASSUME IInv, IInv', NEW k \in Call, AddNewReply(k) PROVE [Remote!Next]_([m \in Call |-> Stage(m)])
<1>1. PICK c \in Client : c = k[1].client
  BY CallType
<1>2. replyQueue[c] \in Seq(Call) /\ ReplyDepth \in Nat \ {0}
  BY ServiceRpcAssumption DEF IInv, TypeOK
<1> DEFINE over == Overflow(replyQueue[c], ReplyDepth)
<1>3. /\ k \in arriving /\ arriving' = arriving \ {k}
      /\ dropped' = dropped \cup over
      /\ replyQueue' = [replyQueue EXCEPT ![c] = Push(@, k, ReplyDepth)]
      /\ UNCHANGED <<sequenceNumber, sending, serviceVars, queries, replies, responded, delivered>>
  BY <1>1 DEF AddNewReply
<1>4. IsInjective(replyQueue[c]) /\ k \notin Range(replyQueue[c])
  BY <1>1, <1>3 DEF IInv, Placed, Injective, Exclusive, IsReplied
<1>5. /\ over \subseteq Range(replyQueue[c])
      /\ Range(replyQueue'[c]) = (Range(replyQueue[c]) \ over) \cup {k}
      /\ over = {} \/ \E y \in Range(replyQueue[c]) : y \in Call /\ over = {y}
  <2>1. replyQueue'[c] = Push(replyQueue[c], k, ReplyDepth)
    BY <1>3 DEF IInv, TypeOK
  <2>2. QED BY <1>2, <1>4, <2>1, PushFacts
<1> HIDE DEF over
<1>6. \A d \in Client : d # c => replyQueue'[d] = replyQueue[d]
  BY <1>3 DEF IInv, TypeOK
<1>7. Stage(k)' = Stage(k)
  <2>1. IsReplied(k)'
    BY <1>1, <1>5 DEF IsReplied
  <2>2. QED BY <1>3, <2>1, StageFacts
<1>8. ASSUME NEW m \in Call, m # k, m \notin over PROVE Stage(m)' = Stage(m)
  <2>1. m[1].client \in Client
    BY CallType
  <2>2. IsReplied(m)' <=> IsReplied(m)
    BY <1>5, <1>6, <1>8, <2>1 DEF IsReplied
  <2>3. (IsSent(m[1])' <=> IsSent(m[1])) /\ (IsQueued(m)' <=> IsQueued(m)) /\ (IsOpen(m)' <=> IsOpen(m))
    BY <1>3, SentKept DEF IsQueued, IsOpen, serviceVars
  <2>4. Kept(m)
    BY <1>3, <1>8, <2>2, <2>3 DEF Kept
  <2>5. QED BY <2>4, KeptStage
<1>9. CASE over = {}
  BY <1>7, <1>8, <1>9, NoneMoves
<1>10. ASSUME NEW y \in Range(replyQueue[c]), y \in Call, over = {y}
       PROVE  [Remote!Next]_([m \in Call |-> Stage(m)])
  <2>1. IsReplied(y) /\ y \in dropped'
    BY <1>3, <1>10 DEF IsReplied, IInv, Placed, Addressed
  <2>2. Stage(y) = "answered" /\ Stage(y)' = "dropped"
    BY <1>10, <2>1, StageFacts
  <2>3. \A m \in Call : m # y => Stage(m)' = Stage(m)
    BY <1>7, <1>8, <1>10
  <2>4. QED BY <1>10, <2>2, <2>3, OneMoves
<1>11. QED BY <1>5, <1>9, <1>10

\* A response is taken, or gone.
LEMMA TakeResponseRefines ==
  ASSUME IInv, IInv', NEW c \in Client, TakeResponse(c) PROVE [Remote!Next]_([k \in Call |-> Stage(k)])
<1>1. PICK k : k = Head(replyQueue[c])
  OBVIOUS
<1>2. /\ k \in Call /\ k \in Range(replyQueue[c])
      /\ Range(Tail(replyQueue[c])) = Range(replyQueue[c]) \ {k}
  BY <1>1, PopFacts DEF IInv, TypeOK, Placed, Injective, TakeResponse
<1>3. /\ UNCHANGED <<sequenceNumber, sending, serviceVars, network, responded>>
      /\ replyQueue'[c] = Tail(replyQueue[c])
      /\ \A d \in Client : d # c => replyQueue'[d] = replyQueue[d]
      /\ \/ delivered' = delivered \cup {k}
         \/ dropped' = dropped \cup {k} /\ delivered' = delivered
  BY <1>1 DEF TakeResponse, IInv, TypeOK
<1>4. IsReplied(k)
  BY <1>2 DEF IsReplied, IInv, Placed, Addressed
<1>5. ASSUME NEW m \in Call, m # k PROVE Stage(m)' = Stage(m)
  <2>1. IsReplied(m)' <=> IsReplied(m)
    BY <1>2, <1>3, <1>5, CallType DEF IsReplied
  <2>2. (IsSent(m[1])' <=> IsSent(m[1])) /\ (IsQueued(m)' <=> IsQueued(m)) /\ (IsOpen(m)' <=> IsOpen(m))
    BY <1>3, SentKept DEF IsQueued, IsOpen, serviceVars
  <2>3. Kept(m)
    BY <1>3, <1>5, <2>1, <2>2 DEF Kept, network
  <2>4. QED BY <2>3, KeptStage
<1>6. Stage(k) = "answered" /\ Stage(k)' \in {"delivered", "dropped"}
  BY <1>2, <1>3, <1>4, StageFacts
<1>7. QED BY <1>2, <1>5, <1>6, OneMoves

\* A timeout and a shutdown move no call.
LEMMA RestRefines ==
  ASSUME IInv, UNCHANGED <<sequenceNumber, sending, replyQueue, queryQueue, openQueries, network, history>>
  PROVE  [Remote!Next]_([k \in Call |-> Stage(k)])
<1>1. ASSUME NEW m \in Call PROVE Kept(m)
  BY SentKept DEF Kept, IsQueued, IsOpen, IsReplied, network, history
<1>2. QED BY <1>1, KeptStage, NoneMoves

LEMMA NextRefines == IInv /\ IInv' /\ [Next]_vars => [Remote!Next]_([k \in Call |-> Stage(k)])
<1> DEFINE Step == [Remote!Next]_([k \in Call |-> Stage(k)])
<1> SUFFICES ASSUME IInv, IInv', [Next]_vars PROVE Step
  OBVIOUS
<1>1. ASSUME NEW t \in Thread, SendRequest(t) \/ Get(t) PROVE Step
  BY <1>1, SendRequestRefines, GetRefines
<1>2. ASSUME NEW k \in Call, LoseQuery(k) \/ LoseReply(k) \/ AddNewQuery(k) \/ ReplyCallback(k) \/ AddNewReply(k)
      PROVE  Step
  BY <1>2, NetworkRefines, AddNewQueryRefines, AddNewReplyRefines
<1>3. ASSUME NEW r \in Request, Timeout(r) PROVE Step
  BY <1>3, RestRefines DEF Timeout, serviceVars
<1>4. ASSUME NEW s \in Service, TakeRequest(s) PROVE Step
  BY <1>4, TakeRequestRefines
<1>5. ASSUME NEW s \in Service, ShutdownService(s) PROVE Step
  BY <1>5, RestRefines DEF ShutdownService, clientVars
<1>6. ASSUME NEW s \in Service, NEW r \in Request, SendResponse(s, r) PROVE Step
  BY <1>6, SendResponseRefines
<1>7. ASSUME NEW c \in Client, TakeResponse(c) PROVE Step
  BY <1>7, TakeResponseRefines
<1>8. ASSUME NEW c \in Client, ShutdownClient(c) PROVE Step
  BY <1>8, RestRefines DEF ShutdownClient, serviceVars
<1>9. ASSUME UNCHANGED vars PROVE Step
  BY <1>9, RestRefines DEF vars, clientVars, serviceVars
<1> HIDE DEF Step
<1>10. QED BY <1>1, <1>2, <1>3, <1>4, <1>5, <1>6, <1>7, <1>8, <1>9 DEF Next

LEMMA InitRefines == Init => Remote!Init
<1> SUFFICES ASSUME Init PROVE Remote!Init
  OBVIOUS
<1>1. ASSUME NEW k \in Call PROVE Stage(k) = "new"
  <2>1. k[1] \in Request /\ k[1].client \in Client /\ k[1].seq \in Nat \ {0}
    BY NumberType DEF Call, Request
  <2>2. ~IsSent(k[1])
    BY <2>1 DEF Init, IsSent
  <2>3. QED BY <2>2 DEF Stage
<1>2. QED BY <1>1 DEF Remote!Init, Remote!Call, Call

\* The clients and servers implement the at-most-once call: whatever is lost,
\* times out or fails, and however the threads interleave, a server executes a
\* request once, answers it once, and the answer is delivered once.
THEOREM ImplementsAtMostOnce == Spec => AtMostOnce
BY InitRefines, NextRefines, InvariantHolds, PTL DEF Spec, AtMostOnce, Remote!Spec

=============================================================================
