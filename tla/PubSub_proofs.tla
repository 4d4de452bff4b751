--------------------------- MODULE PubSub_proofs ---------------------------
(***************************************************************************)
(* The order of messages, the executor's count of them, and the queue as a *)
(* window of what arrived, for any publishers, threads and depth.          *)
(***************************************************************************)
EXTENDS PubSub, SequenceTheorems, FunctionTheorems, FiniteSetTheorems, TLAPS

-----------------------------------------------------------------------------
(* Sequences *)

LEMMA TailFacts ==
  ASSUME NEW S, NEW s \in Seq(S), s # <<>>
  PROVE  /\ Tail(s) \in Seq(S)
         /\ Len(Tail(s)) = Len(s) - 1
         /\ Len(s) \in Nat \ {0}
         /\ Head(s) = s[1] /\ s[1] \in S
         /\ \A i \in 1..Len(Tail(s)) : Tail(s)[i] = s[i + 1]
BY HeadTailProperties

LEMMA AppendFacts ==
  ASSUME NEW S, NEW s \in Seq(S), NEW e \in S
  PROVE  /\ Append(s, e) \in Seq(S)
         /\ Len(Append(s, e)) = Len(s) + 1
         /\ Len(s) \in Nat
         /\ Append(s, e)[Len(s) + 1] = e
         /\ \A i \in 1..Len(s) : Append(s, e)[i] = s[i]
BY AppendProperties

\* What is left when one element is removed keeps its order.
LEMMA RemoveFacts ==
  ASSUME NEW S, NEW s \in Seq(S), NEW k \in 1..Len(s)
  PROVE  LET r == SubSeq(s, 1, k - 1) \o SubSeq(s, k + 1, Len(s)) IN
         /\ r \in Seq(S)
         /\ Len(r) = Len(s) - 1
         /\ \A i \in 1..Len(r) : r[i] = IF i < k THEN s[i] ELSE s[i + 1]
<1> DEFINE a == SubSeq(s, 1, k - 1)
           b == SubSeq(s, k + 1, Len(s))
<1>1. \A i \in 1..Len(s) : s[i] \in S
  OBVIOUS
<1>2. /\ a \in Seq(S) /\ Len(a) = k - 1
      /\ \A i \in 1..(k - 1) : a[i] = s[i]
  <2>1. /\ a \in Seq(S)
        /\ Len(a) = IF 1 <= k - 1 THEN (k - 1) - 1 + 1 ELSE 0
        /\ \A i \in 1 .. (k - 1) - 1 + 1 : a[i] = s[1 + i - 1]
    BY <1>1, SubSeqProperties
  <2>2. QED BY <2>1
<1>3. /\ b \in Seq(S) /\ Len(b) = Len(s) - k
      /\ \A i \in 1..(Len(s) - k) : b[i] = s[i + k]
  <2>1. /\ b \in Seq(S)
        /\ Len(b) = IF k + 1 <= Len(s) THEN Len(s) - (k + 1) + 1 ELSE 0
        /\ \A i \in 1 .. Len(s) - (k + 1) + 1 : b[i] = s[(k + 1) + i - 1]
    BY <1>1, SubSeqProperties
  <2>2. QED BY <2>1
<1>0. k \in Nat \ {0} /\ Len(s) \in Nat /\ k <= Len(s)
  OBVIOUS
<1> HIDE DEF a, b
<1>4. /\ a \o b \in Seq(S)
      /\ Len(a \o b) = Len(a) + Len(b)
      /\ \A i \in 1..(Len(a) + Len(b)) :
           (a \o b)[i] = IF i <= Len(a) THEN a[i] ELSE b[i - Len(a)]
  BY <1>2, <1>3, ConcatProperties
<1>5. Len(a \o b) = Len(s) - 1
  BY <1>0, <1>2, <1>3, <1>4
<1>6. ASSUME NEW i \in 1..(Len(s) - 1)
      PROVE  (a \o b)[i] = IF i < k THEN s[i] ELSE s[i + 1]
  <2>1. i \in 1..(Len(a) + Len(b)) /\ i \in Nat
    BY <1>0, <1>2, <1>3
  <2>2. CASE i < k
    BY <1>0, <1>2, <1>4, <2>1, <2>2
  <2>3. CASE ~(i < k)
    <3>1. (a \o b)[i] = b[i - (k - 1)]
      BY <1>0, <1>2, <1>4, <2>1, <2>3
    <3>2. i - (k - 1) \in 1..(Len(s) - k) /\ (i - (k - 1)) + k = i + 1
      BY <1>0, <2>1, <2>3
    <3>3. QED BY <1>3, <2>3, <3>1, <3>2
  <2>4. QED BY <2>2, <2>3
<1>7. QED BY <1>4, <1>5, <1>6 DEF a, b

LEMMA NumberType == Number \subseteq Nat \ {0}
BY PubSubAssumption DEF Number

-----------------------------------------------------------------------------
(* Type correctness *)

\* The mutex of a publisher is held by the thread that has stamped a message.
Locked ==
  \A t \in Thread : stamped[t] # 0 => holder[PublisherOf[t]] = t /\ stamped[t] < next[PublisherOf[t]]

Typed == TypeOK /\ Locked

LEMMA InitTyped == Init => Typed
<1> SUFFICES ASSUME Init PROVE Typed
  OBVIOUS
<1>1. wire \in [Publisher -> Seq(Number)]
  BY DEF Init
<1>2. queue \in Seq(Message) /\ received \in Seq(Message)
  BY DEF Init
<1>3. TypeOK
  <2>1. holder \in [Publisher -> Thread \cup {None}] /\ next \in [Publisher -> Nat \ {0}]
    BY DEF Init
  <2>2. stamped \in [Thread -> Number \cup {0}]
    BY DEF Init
  <2>3. lastKnown \in [Publisher -> Nat] /\ lastTaken \in [Publisher -> Nat]
    BY DEF Init
  <2>4. lost \in [total : Nat, change : Nat]
    BY DEF Init
  <2>5. callback \in BOOLEAN /\ shut \in BOOLEAN
    BY DEF Init
  <2>6. unread \in Nat /\ told \in Nat /\ lostTaken \in Nat
    BY DEF Init
  <2>7. QED BY <1>1, <1>2, <2>1, <2>2, <2>3, <2>4, <2>5, <2>6 DEF TypeOK
<1>4. Locked
  BY DEF Init, Locked
<1>5. QED BY <1>3, <1>4 DEF Typed

LEMMA StampTyped == ASSUME Typed, NEW t \in Thread, Stamp(t) PROVE Typed'
<1>1. PublisherOf[t] \in Publisher /\ None \notin Thread
  BY PubSubAssumption
<1>2. next[PublisherOf[t]] \in Number
  BY <1>1, PubSubAssumption DEF Typed, TypeOK, Stamp, Number
<1>3. TypeOK'
  BY <1>1, <1>2 DEF Typed, TypeOK, Stamp, subVars, history
<1>4. ASSUME NEW u \in Thread, stamped'[u] # 0
      PROVE  holder'[PublisherOf[u]] = u /\ stamped'[u] < next'[PublisherOf[u]]
  <2>1. next[PublisherOf[t]] \in Nat
    BY <1>2, NumberType
  <2>2. CASE u = t
    BY <1>1, <2>1, <2>2 DEF Typed, TypeOK, Stamp
  <2>3. CASE u # t
    <3>1. holder[PublisherOf[u]] = u /\ stamped[u] < next[PublisherOf[u]]
      BY <1>4, <2>3 DEF Typed, TypeOK, Locked, Stamp
    <3>2. PublisherOf[u] # PublisherOf[t]
      BY <1>1, <3>1 DEF Stamp
    <3>3. QED BY <1>1, <2>3, <3>1, <3>2 DEF Typed, TypeOK, Stamp
  <2>4. QED BY <2>2, <2>3
<1>5. QED BY <1>3, <1>4 DEF Typed, Locked

LEMMA PutTyped == ASSUME Typed, NEW t \in Thread, Put(t) PROVE Typed'
<1>1. PublisherOf[t] \in Publisher
  BY PubSubAssumption
<1>2. stamped[t] \in Number
  BY DEF Typed, TypeOK, Put
<1>3. Append(wire[PublisherOf[t]], stamped[t]) \in Seq(Number)
  BY <1>1, <1>2, AppendFacts DEF Typed, TypeOK
<1>4. wire' \in [Publisher -> Seq(Number)]
  BY <1>1, <1>3 DEF Typed, TypeOK, Put
<1>5. TypeOK'
  BY <1>1, <1>4 DEF Typed, TypeOK, Put, subVars, history
<1>6. Locked'
  BY <1>1 DEF Typed, TypeOK, Put, Locked
<1>7. QED BY <1>5, <1>6 DEF Typed

LEMMA LoseTyped == ASSUME Typed, NEW p \in Publisher, Lose(p) PROVE Typed'
<1>1. PICK k \in DOMAIN wire[p] : wire' = [wire EXCEPT ![p] =
        SubSeq(wire[p], 1, k - 1) \o SubSeq(wire[p], k + 1, Len(wire[p]))]
  BY DEF Lose
<1>2. wire[p] \in Seq(Number) /\ k \in 1..Len(wire[p])
  <2>1. wire[p] \in Seq(Number)
    BY DEF Typed, TypeOK
  <2>2. QED BY <2>1
<1>3. wire' \in [Publisher -> Seq(Number)]
  <2>1. SubSeq(wire[p], 1, k - 1) \o SubSeq(wire[p], k + 1, Len(wire[p])) \in Seq(Number)
    BY <1>2, RemoveFacts
  <2>2. QED BY <1>1, <2>1 DEF Typed, TypeOK
<1>4. QED
  BY <1>3 DEF Typed, TypeOK, Locked, Lose, pubVars, subVars, history

\* What Discard leaves: all of the queue, or all but its head.
LEMMA DiscardFacts ==
  ASSUME NEW q \in Seq(Message)
  PROVE  /\ Discard(q) \in Seq(Message)
         /\ \/ /\ Discard(q) = q
               /\ KeepAll \/ Len(q) < Depth
            \/ /\ Discard(q) = Tail(q) /\ q # <<>>
               /\ ~KeepAll /\ Len(q) >= Depth
<1>1. Len(q) \in Nat /\ Depth \in Nat \ {0} /\ (q = <<>> => Len(q) = 0)
  BY PubSubAssumption
<1>2. CASE KeepAll \/ Len(q) < Depth
  BY <1>2 DEF Discard
<1>3. CASE ~(KeepAll \/ Len(q) < Depth)
  <2>1. q # <<>> /\ Len(q) >= Depth
    BY <1>1, <1>3
  <2>2. Discard(q) = Tail(q)
    BY <1>3, <2>1 DEF Discard
  <2>3. QED BY <1>3, <2>1, <2>2, TailFacts
<1>4. QED BY <1>2, <1>3

LEMMA GapType ==
  ASSUME Typed, NEW p \in Publisher, NEW k \in Nat
  PROVE  Gap(p, k) \in Nat
BY DEF Typed, TypeOK, Gap

\* The message add_new_message() is called with.
Arriving(p) == [pub |-> p, seq |-> Head(wire[p])]

\* add_new_message() of a subscription that is not shut down.
Accepts(p) ==
  /\ queue' = Append(Discard(queue), Arriving(p))
  /\ lost' = [total |-> lost.total + Gap(p, Head(wire[p])),
              change |-> lost.change + Gap(p, Head(wire[p]))]
  /\ lastKnown' = [lastKnown EXCEPT ![p] = Head(wire[p])]
  /\ TriggerCallback
  /\ received' = Append(received, Arriving(p))
  /\ UNCHANGED <<shut, lastTaken, lostTaken>>

LEMMA AddNewMessageCases ==
  ASSUME NEW p \in Publisher, AddNewMessage(p)
  PROVE  /\ wire[p] # <<>>
         /\ wire' = [wire EXCEPT ![p] = Tail(@)]
         /\ UNCHANGED <<holder, next, stamped>>
         /\ \/ shut /\ UNCHANGED <<subVars, history>>
            \/ ~shut /\ Accepts(p)
BY DEF AddNewMessage, Accepts, Arriving, pubVars

LEMMA ArrivingType ==
  ASSUME Typed, NEW p \in Publisher, wire[p] # <<>>
  PROVE  /\ Head(wire[p]) \in Number /\ Head(wire[p]) \in Nat \ {0}
         /\ Head(wire[p]) = wire[p][1]
         /\ Tail(wire[p]) \in Seq(Number)
         /\ Arriving(p) \in Message
<1>1. wire[p] \in Seq(Number)
  BY DEF Typed, TypeOK
<1>2. QED BY <1>1, TailFacts, NumberType DEF Arriving, Message

LEMMA AddNewMessageTyped == ASSUME Typed, NEW p \in Publisher, AddNewMessage(p) PROVE Typed'
<1>1. /\ wire[p] # <<>>
      /\ wire' = [wire EXCEPT ![p] = Tail(@)]
      /\ UNCHANGED <<holder, next, stamped>>
  BY AddNewMessageCases
<1>2. wire' \in [Publisher -> Seq(Number)]
  BY <1>1, ArrivingType DEF Typed, TypeOK
<1>3. CASE shut /\ UNCHANGED <<subVars, history>>
  BY <1>1, <1>2, <1>3 DEF Typed, TypeOK, Locked, subVars, history
<1>4. CASE ~shut /\ Accepts(p)
  <2>1. Discard(queue) \in Seq(Message) /\ Arriving(p) \in Message
    BY <1>1, DiscardFacts, ArrivingType DEF Typed, TypeOK
  <2>2. queue' \in Seq(Message)
    BY <1>4, <2>1, AppendFacts DEF Accepts
  <2>3. received' \in Seq(Message)
    BY <1>4, <2>1, AppendFacts DEF Accepts, Typed, TypeOK
  <2>4. Head(wire[p]) \in Nat
    BY <1>1, ArrivingType
  <2>5. Gap(p, Head(wire[p])) \in Nat
    BY <2>4, GapType
  <2>6. lost' \in [total : Nat, change : Nat]
    BY <1>4, <2>5 DEF Accepts, Typed, TypeOK
  <2>7. lastKnown' \in [Publisher -> Nat]
    BY <1>4, <2>4 DEF Accepts, Typed, TypeOK
  <2>8. callback' \in BOOLEAN /\ unread' \in Nat /\ told' \in Nat
    BY <1>4 DEF Accepts, TriggerCallback, Typed, TypeOK
  <2>9. QED
    BY <1>1, <1>2, <1>4, <2>2, <2>3, <2>6, <2>7, <2>8 DEF Accepts, Typed, TypeOK, Locked
<1>5. QED BY <1>3, <1>4, AddNewMessageCases

LEMMA TakeOneMessageTyped == ASSUME Typed, TakeOneMessage PROVE Typed'
<1>1. /\ queue' = Tail(queue) /\ queue # <<>>
      /\ lastTaken' = [lastTaken EXCEPT ![Head(queue).pub] = Head(queue).seq]
  BY DEF TakeOneMessage
<1>2. Tail(queue) \in Seq(Message) /\ Head(queue) \in Message
  BY <1>1, TailFacts DEF Typed, TypeOK
<1>3. Head(queue).seq \in Nat
  BY <1>2, NumberType DEF Message
<1>4. queue' \in Seq(Message) /\ lastTaken' \in [Publisher -> Nat]
  BY <1>1, <1>2, <1>3 DEF Message, Typed, TypeOK
<1>5. QED
  BY <1>4 DEF TakeOneMessage, Typed, TypeOK, Locked, pubVars

LEMMA NextTyped == Typed /\ [Next]_vars => Typed'
<1> SUFFICES ASSUME Typed, [Next]_vars PROVE Typed'
  OBVIOUS
<1>1. ASSUME NEW t \in Thread, Stamp(t) \/ Put(t) PROVE Typed'
  BY <1>1, StampTyped, PutTyped
<1>2. ASSUME NEW p \in Publisher, Lose(p) \/ AddNewMessage(p) PROVE Typed'
  BY <1>2, LoseTyped, AddNewMessageTyped
<1>3. CASE TakeOneMessage
  BY <1>3, TakeOneMessageTyped
<1>4. CASE SetCallback
  BY <1>4 DEF SetCallback, Typed, TypeOK, Locked, pubVars
<1>5. CASE UnsetCallback
  BY <1>5 DEF UnsetCallback, Typed, TypeOK, Locked, pubVars, history
<1>6. CASE TakeEventStatus
  <2>1. lost \in [total : Nat, change : Nat] /\ lost.change \in Nat /\ lostTaken \in Nat
    BY DEF Typed, TypeOK
  <2>2. lost' \in [total : Nat, change : Nat]
    BY <1>6, <2>1 DEF TakeEventStatus
  <2>3. lostTaken' \in Nat
    BY <1>6, <2>1 DEF TakeEventStatus
  <2>4. QED BY <1>6, <2>2, <2>3 DEF TakeEventStatus, Typed, TypeOK, Locked, pubVars
<1>7. CASE Shutdown
  BY <1>7 DEF Shutdown, Typed, TypeOK, Locked, pubVars, history
<1>8. CASE UNCHANGED vars
  BY <1>8 DEF vars, pubVars, subVars, history, Typed, TypeOK, Locked
<1>9. QED BY <1>1, <1>2, <1>3, <1>4, <1>5, <1>6, <1>7, <1>8 DEF Next

LEMMA TypedHolds == Spec => []Typed
BY InitTyped, NextTyped, PTL DEF Spec

\* Every variable keeps its type: in particular the loss count never goes
\* down, and a message that is queued or in the network has been stamped.
THEOREM TypeCorrect == Spec => []TypeOK
<1>1. Typed => TypeOK
  BY DEF Typed
<1>2. QED BY <1>1, TypedHolds, PTL

-----------------------------------------------------------------------------
(* The executor's count *)

LEMMA ToldStep == Typed /\ EveryMessageTold /\ [Next]_vars => EveryMessageTold'
<1> SUFFICES ASSUME Typed, EveryMessageTold, [Next]_vars PROVE EveryMessageTold'
  OBVIOUS
<1>1. told \in Nat /\ unread \in Nat /\ received \in Seq(Message) /\ callback \in BOOLEAN
  BY DEF Typed, TypeOK
<1>2. ASSUME NEW t \in Thread, Stamp(t) \/ Put(t) PROVE EveryMessageTold'
  BY <1>2 DEF Stamp, Put, subVars, history, EveryMessageTold
<1>3. ASSUME NEW p \in Publisher, Lose(p) PROVE EveryMessageTold'
  BY <1>3 DEF Lose, subVars, history, EveryMessageTold
<1>4. ASSUME NEW p \in Publisher, AddNewMessage(p) PROVE EveryMessageTold'
  <2>1. CASE shut /\ UNCHANGED <<subVars, history>>
    BY <2>1 DEF subVars, history, EveryMessageTold
  <2>2. CASE ~shut /\ Accepts(p)
    <3>1. Len(received') = Len(received) + 1 /\ Len(received) \in Nat
      BY <1>1, <1>4, <2>2, AddNewMessageCases, ArrivingType, AppendFacts DEF Accepts
    <3>2. CASE callback
      BY <1>1, <2>2, <3>1, <3>2 DEF Accepts, TriggerCallback, EveryMessageTold
    <3>3. CASE ~callback
      BY <1>1, <2>2, <3>1, <3>3 DEF Accepts, TriggerCallback, EveryMessageTold
    <3>4. QED BY <3>2, <3>3
  <2>3. QED BY <1>4, <2>1, <2>2, AddNewMessageCases
<1>5. CASE TakeOneMessage
  BY <1>5 DEF TakeOneMessage, EveryMessageTold
<1>6. CASE SetCallback
  BY <1>1, <1>6 DEF SetCallback, EveryMessageTold
<1>7. CASE UnsetCallback
  BY <1>7 DEF UnsetCallback, history, EveryMessageTold
<1>8. CASE TakeEventStatus
  BY <1>8 DEF TakeEventStatus, EveryMessageTold
<1>9. CASE Shutdown
  BY <1>9 DEF Shutdown, history, EveryMessageTold
<1>10. CASE UNCHANGED vars
  BY <1>10 DEF vars, subVars, history, EveryMessageTold
<1>11. QED BY <1>2, <1>3, <1>4, <1>5, <1>6, <1>7, <1>8, <1>9, <1>10 DEF Next

\* The executor's callback is told of each message exactly once, however it
\* is set and unset while messages arrive.
THEOREM MessagesAreTold == Spec => []EveryMessageTold
<1>1. Init => EveryMessageTold
  BY DEF Init, EveryMessageTold
<1>2. QED BY <1>1, ToldStep, TypedHolds, PTL DEF Spec

-----------------------------------------------------------------------------
(* The queue is the window of what arrived that KeepLast promises *)

\* The strengthening: the window is as long as the queue, and within Depth.
Windowed ==
  /\ QueueIsNewest
  /\ Len(queue) <= Len(received)
  /\ KeepAll \/ Len(queue) <= Depth

LEMMA AcceptLengths ==
  ASSUME Typed, Windowed, NEW p \in Publisher, AddNewMessage(p), ~shut
  PROVE  /\ Len(received') = Len(received) + 1
         /\ received' = Append(received, Arriving(p))
         /\ Arriving(p) \in Message
         /\ \/ /\ KeepAll \/ Len(queue) < Depth
               /\ Len(queue') = Len(queue) + 1
               /\ queue' = Append(queue, Arriving(p))
            \/ /\ ~KeepAll /\ Len(queue) = Depth
               /\ Len(queue') = Len(queue)
               /\ queue # <<>>
               /\ queue' = Append(Tail(queue), Arriving(p))
<1>1. wire[p] # <<>> /\ Accepts(p)
  BY AddNewMessageCases
<1>2. queue \in Seq(Message) /\ received \in Seq(Message) /\ Arriving(p) \in Message
  BY <1>1, ArrivingType DEF Typed, TypeOK
<1>3. Len(received') = Len(received) + 1 /\ received' = Append(received, Arriving(p))
  BY <1>1, <1>2, AppendFacts DEF Accepts
<1>4. Len(queue) \in Nat /\ Depth \in Nat \ {0}
  BY <1>2, PubSubAssumption
<1>5. CASE Discard(queue) = queue /\ (KeepAll \/ Len(queue) < Depth)
  BY <1>1, <1>2, <1>3, <1>5, AppendFacts DEF Accepts
<1>6. CASE Discard(queue) = Tail(queue) /\ queue # <<>> /\ ~KeepAll /\ Len(queue) >= Depth
  <2>1. Tail(queue) \in Seq(Message) /\ Len(Tail(queue)) = Len(queue) - 1
    BY <1>2, <1>6, TailFacts
  <2>2. queue' = Append(Tail(queue), Arriving(p))
    BY <1>1, <1>6 DEF Accepts
  <2>3. Len(queue') = Len(Tail(queue)) + 1
    BY <1>2, <2>1, <2>2, AppendFacts
  <2>4. Len(queue) = Depth
    BY <1>4, <1>6 DEF Windowed
  <2>5. QED BY <1>2, <1>3, <1>4, <1>6, <2>1, <2>2, <2>3, <2>4
<1>7. QED BY <1>2, <1>5, <1>6, DiscardFacts

LEMMA WindowedStep == Typed /\ Windowed /\ [Next]_vars => Windowed'
<1> SUFFICES ASSUME Typed, Windowed, [Next]_vars PROVE Windowed'
  OBVIOUS
<1>1. /\ queue \in Seq(Message) /\ received \in Seq(Message)
      /\ Len(queue) \in Nat /\ Len(received) \in Nat /\ Depth \in Nat \ {0}
  BY PubSubAssumption DEF Typed, TypeOK
<1>2. ASSUME UNCHANGED <<queue, received>> PROVE Windowed'
  BY <1>2 DEF Windowed, QueueIsNewest
<1>3. ASSUME NEW p \in Publisher, AddNewMessage(p), ~shut PROVE Windowed'
  <2>1. \A i \in 1..Len(received) : received'[i] = received[i]
    BY <1>1, <1>3, AcceptLengths, AppendFacts
  <2>2. received'[Len(received) + 1] = Arriving(p) /\ Len(received') = Len(received) + 1
    BY <1>1, <1>3, AcceptLengths, AppendFacts
  <2>3. CASE /\ Len(queue') = Len(queue) + 1
             /\ queue' = Append(queue, Arriving(p))
             /\ KeepAll \/ Len(queue) < Depth
    <3>1. /\ queue'[Len(queue) + 1] = Arriving(p)
          /\ \A i \in 1..Len(queue) : queue'[i] = queue[i]
      BY <1>1, <1>3, <2>3, AcceptLengths, AppendFacts
    <3>2. ASSUME NEW i \in 1..(Len(queue) + 1)
          PROVE  queue'[i] = received'[Len(received) - Len(queue) + i]
      <4>1. CASE i = Len(queue) + 1
        BY <1>1, <2>2, <3>1, <4>1
      <4>2. CASE i \in 1..Len(queue)
        <5>1. Len(received) - Len(queue) + i \in 1..Len(received)
          BY <1>1, <4>2 DEF Windowed
        <5>2. queue[i] = received[Len(received) - Len(queue) + i]
          BY <1>1, <4>2 DEF Windowed, QueueIsNewest
        <5>3. QED BY <2>1, <3>1, <4>2, <5>1, <5>2
      <4>3. QED BY <1>1, <4>1, <4>2
    <3>3. queue' \in Seq(Message)
      BY <1>1, <1>3, <2>3, AcceptLengths, AppendFacts
    <3>4. \A i \in DOMAIN queue' : queue'[i] = received'[Len(received') - Len(queue') + i]
      BY <1>1, <2>2, <2>3, <3>2, <3>3
    <3>5. QED BY <1>1, <2>2, <2>3, <3>4 DEF Windowed, QueueIsNewest
  <2>4. CASE /\ Len(queue') = Len(queue)
             /\ queue # <<>>
             /\ queue' = Append(Tail(queue), Arriving(p))
             /\ ~KeepAll /\ Len(queue) = Depth
    <3>1. /\ Tail(queue) \in Seq(Message) /\ Len(Tail(queue)) = Len(queue) - 1
          /\ \A i \in 1..(Len(queue) - 1) : Tail(queue)[i] = queue[i + 1]
      BY <1>1, <2>4, TailFacts
    <3>2. /\ queue'[Len(queue)] = Arriving(p)
          /\ \A i \in 1..(Len(queue) - 1) : queue'[i] = queue[i + 1]
          /\ queue' \in Seq(Message)
      BY <1>1, <1>3, <2>4, <3>1, AcceptLengths, AppendFacts
    <3>3. ASSUME NEW i \in 1..Len(queue)
          PROVE  queue'[i] = received'[Len(received) + 1 - Len(queue) + i]
      <4>1. CASE i = Len(queue)
        BY <1>1, <2>2, <3>2, <4>1
      <4>2. CASE i \in 1..(Len(queue) - 1)
        <5>1. i + 1 \in 1..Len(queue)
          BY <1>1, <4>2
        <5>2. queue[i + 1] = received[Len(received) - Len(queue) + (i + 1)]
          BY <1>1, <5>1 DEF Windowed, QueueIsNewest
        <5>3. /\ Len(received) - Len(queue) + (i + 1) \in 1..Len(received)
              /\ Len(received) - Len(queue) + (i + 1) = Len(received) + 1 - Len(queue) + i
          BY <1>1, <4>2 DEF Windowed
        <5>4. QED BY <2>1, <3>2, <4>2, <5>2, <5>3
      <4>3. QED BY <1>1, <4>1, <4>2
    <3>4. \A i \in DOMAIN queue' : queue'[i] = received'[Len(received') - Len(queue') + i]
      BY <1>1, <2>2, <2>4, <3>2, <3>3
    <3>5. QED BY <1>1, <2>2, <2>4, <3>4 DEF Windowed, QueueIsNewest
  <2>5. QED BY <1>3, <2>3, <2>4, AcceptLengths
<1>4. CASE TakeOneMessage
  <2>1. queue' = Tail(queue) /\ received' = received /\ queue # <<>>
    BY <1>4 DEF TakeOneMessage
  <2>2. /\ queue' \in Seq(Message) /\ Len(queue') = Len(queue) - 1
        /\ \A i \in 1..(Len(queue) - 1) : queue'[i] = queue[i + 1]
    BY <1>1, <2>1, TailFacts
  <2>3. ASSUME NEW i \in 1..(Len(queue) - 1)
        PROVE  queue'[i] = received'[Len(received) - (Len(queue) - 1) + i]
    <3>1. i + 1 \in 1..Len(queue)
      BY <1>1
    <3>2. queue[i + 1] = received[Len(received) - Len(queue) + (i + 1)]
      BY <1>1, <3>1 DEF Windowed, QueueIsNewest
    <3>3. Len(received) - Len(queue) + (i + 1) = Len(received) - (Len(queue) - 1) + i
      BY <1>1
    <3>4. QED BY <2>1, <2>2, <3>2, <3>3
  <2>4. \A i \in DOMAIN queue' : queue'[i] = received'[Len(received') - Len(queue') + i]
    BY <2>1, <2>2, <2>3
  <2>5. QED BY <1>1, <2>1, <2>2, <2>4 DEF Windowed, QueueIsNewest
<1>5. ASSUME NEW p \in Publisher, AddNewMessage(p), shut PROVE Windowed'
  BY <1>2, <1>5, AddNewMessageCases DEF subVars, history
<1>6. ASSUME ~TakeOneMessage, \A p \in Publisher : ~AddNewMessage(p) PROVE UNCHANGED <<queue, received>>
  BY <1>6 DEF Next, Stamp, Put, Lose, SetCallback, UnsetCallback, TakeEventStatus, Shutdown,
              vars, subVars, history
<1>7. QED BY <1>2, <1>3, <1>4, <1>5, <1>6

LEMMA WindowedHolds == Spec => []Windowed
<1>1. Init => Windowed
  BY PubSubAssumption DEF Init, Windowed, QueueIsNewest
<1>2. QED BY <1>1, WindowedStep, TypedHolds, PTL DEF Spec

\* The queue holds the newest of the messages that arrived, in their order,
\* and nothing else.
THEOREM QueueHoldsNewest == Spec => []QueueIsNewest
<1>1. Windowed => QueueIsNewest
  BY DEF Windowed
<1>2. QED BY <1>1, WindowedHolds, PTL

LEMMA InitRefines == Init => Window!Init
BY DEF Init, Window!Init

LEMMA StepRefines ==
  ASSUME Typed, Windowed, [Next]_vars
  PROVE  [Window!Next]_(Window!logVars)
<1>1. /\ queue \in Seq(Message) /\ received \in Seq(Message)
      /\ Len(queue) \in Nat /\ Len(received) \in Nat /\ Depth \in Nat \ {0}
  BY PubSubAssumption DEF Typed, TypeOK
<1>2. ASSUME UNCHANGED <<queue, received, shut>> PROVE UNCHANGED Window!logVars
  BY <1>2 DEF Window!logVars
<1>3. ASSUME NEW p \in Publisher, AddNewMessage(p), ~shut PROVE Window!Arrive(Arriving(p))
  <2>1. UNCHANGED shut
    BY <1>3, AddNewMessageCases DEF Accepts
  <2>2. Len(received') - Len(queue') =
          IF ~KeepAll /\ Len(received') - Depth > Len(received) - Len(queue)
          THEN Len(received') - Depth ELSE Len(received) - Len(queue)
    <3>1. Len(received') = Len(received) + 1
      BY <1>3, AcceptLengths
    <3>2. CASE (KeepAll \/ Len(queue) < Depth) /\ Len(queue') = Len(queue) + 1
      BY <1>1, <3>1, <3>2
    <3>3. CASE ~KeepAll /\ Len(queue) = Depth /\ Len(queue') = Len(queue)
      BY <1>1, <3>1, <3>3
    <3>4. QED BY <1>3, <3>2, <3>3, AcceptLengths
  <2>3. received' = Append(received, Arriving(p))
    BY <1>3, AcceptLengths
  <2>4. QED BY <1>3, <2>1, <2>2, <2>3 DEF Window!Arrive
<1>4. ASSUME NEW p \in Publisher, AddNewMessage(p) PROVE [Window!Next]_(Window!logVars)
  <2>1. CASE shut
    BY <1>2, <1>4, <2>1, AddNewMessageCases DEF subVars, history
  <2>2. CASE ~shut
    BY <1>3, <1>4, <2>2, AcceptLengths DEF Window!Next
  <2>3. QED BY <2>1, <2>2
<1>5. CASE TakeOneMessage
  <2>1. queue' = Tail(queue) /\ queue # <<>> /\ ~shut /\ UNCHANGED <<received, shut>>
    BY <1>5 DEF TakeOneMessage
  <2>2. Len(queue') = Len(queue) - 1 /\ Len(queue) > 0
    BY <1>1, <2>1, TailFacts
  <2>3. Len(received') - Len(queue') = (Len(received) - Len(queue)) + 1
    BY <1>1, <2>1, <2>2
  <2>4. Len(received) - Len(queue) < Len(received)
    BY <1>1, <2>2
  <2>5. Window!Read
    BY <2>1, <2>3, <2>4 DEF Window!Read
  <2>6. QED BY <2>5 DEF Window!Next
<1>6. CASE Shutdown
  BY <1>6 DEF Shutdown, history, Window!Next, Window!Close
<1>7. ASSUME ~TakeOneMessage, ~Shutdown, \A p \in Publisher : ~AddNewMessage(p)
      PROVE  UNCHANGED <<queue, received, shut>>
  BY <1>7 DEF Next, Stamp, Put, Lose, SetCallback, UnsetCallback, TakeEventStatus,
              vars, subVars, history
<1>8. QED BY <1>2, <1>4, <1>5, <1>6, <1>7

\* The subscription's queue implements the history QoS: whatever the depth
\* and however messages arrive and are taken, the reader sees every message
\* that arrived but those more than Depth behind.
THEOREM ImplementsKeepLast == Spec => KeepsLast
<1>1. Typed /\ Windowed /\ [Next]_vars => [Window!Next]_(Window!logVars)
  BY StepRefines
<1>2. QED BY <1>1, InitRefines, TypedHolds, WindowedHolds, PTL DEF Spec, KeepsLast, Window!Spec

-----------------------------------------------------------------------------
(* The order of a publisher's messages *)

\* Messages in the network are in order, after the last that arrived, and
\* before the one that the thread with the mutex of the publisher will put.
WireOrdered ==
  \A p \in Publisher :
    /\ lastTaken[p] <= lastKnown[p] /\ lastKnown[p] < next[p]
    /\ \A i \in DOMAIN wire[p] : lastKnown[p] < wire[p][i] /\ wire[p][i] < next[p]
    /\ \A i, j \in DOMAIN wire[p] : i < j => wire[p][i] < wire[p][j]

StampedLast ==
  \A t \in Thread : stamped[t] # 0 =>
    /\ lastKnown[PublisherOf[t]] < stamped[t]
    /\ \A i \in DOMAIN wire[PublisherOf[t]] : wire[PublisherOf[t]][i] < stamped[t]

QueueOrdered ==
  /\ InSequence
  /\ \A i \in DOMAIN queue : queue[i].seq <= lastKnown[queue[i].pub]

InOrder == WireOrdered /\ StampedLast /\ QueueOrdered

LEMMA WireElements ==
  ASSUME Typed, NEW p \in Publisher
  PROVE  /\ wire[p] \in Seq(Number) /\ DOMAIN wire[p] = 1..Len(wire[p]) /\ Len(wire[p]) \in Nat
         /\ \A i \in DOMAIN wire[p] : wire[p][i] \in Number /\ wire[p][i] \in Nat
<1>1. wire[p] \in Seq(Number)
  BY DEF Typed, TypeOK
<1>2. DOMAIN wire[p] = 1..Len(wire[p]) /\ Len(wire[p]) \in Nat
  BY <1>1
<1>3. ASSUME NEW i \in DOMAIN wire[p] PROVE wire[p][i] \in Number
  BY <1>1, <1>2
<1>4. QED BY <1>1, <1>2, <1>3, NumberType

LEMMA InitInOrder == Init => InOrder
BY PubSubAssumption DEF Init, InOrder, WireOrdered, StampedLast, QueueOrdered, InSequence

LEMMA StampInOrder == ASSUME Typed, InOrder, NEW t \in Thread, Stamp(t) PROVE InOrder'
<1>1. /\ PublisherOf \in [Thread -> Publisher]
      /\ next \in [Publisher -> Nat \ {0}] /\ lastKnown \in [Publisher -> Nat]
      /\ wire \in [Publisher -> Seq(Number)] /\ stamped \in [Thread -> Number \cup {0}]
  BY PubSubAssumption DEF Typed, TypeOK
<1>2. /\ stamped' = [stamped EXCEPT ![t] = next[PublisherOf[t]]]
      /\ next' = [next EXCEPT ![PublisherOf[t]] = @ + 1]
      /\ UNCHANGED <<wire, queue, lastKnown, lastTaken>>
  BY DEF Stamp, subVars, history
<1>3. \A p \in Publisher : next[p] \in Nat /\ next'[p] \in Nat /\ next[p] <= next'[p]
  BY <1>1, <1>2
<1>4. \A p \in Publisher : \A i \in DOMAIN wire[p] : wire[p][i] \in Nat
  BY WireElements
<1>5. WireOrdered'
  BY <1>1, <1>2, <1>3, <1>4 DEF InOrder, WireOrdered
<1>6. StampedLast'
  BY <1>1, <1>2 DEF InOrder, WireOrdered, StampedLast
<1>7. QueueOrdered'
  BY <1>2 DEF InOrder, QueueOrdered, InSequence
<1>8. QED BY <1>5, <1>6, <1>7 DEF InOrder

LEMMA PutInOrder == ASSUME Typed, InOrder, NEW t \in Thread, Put(t) PROVE InOrder'
<1> DEFINE P == PublisherOf[t]
           w == Append(wire[P], stamped[t])
<1>1. /\ PublisherOf \in [Thread -> Publisher] /\ P \in Publisher
      /\ next \in [Publisher -> Nat \ {0}] /\ lastKnown \in [Publisher -> Nat]
      /\ wire \in [Publisher -> Seq(Number)] /\ stamped \in [Thread -> Number \cup {0}]
  BY PubSubAssumption DEF Typed, TypeOK
<1>2. /\ stamped[t] # 0 /\ stamped' = [stamped EXCEPT ![t] = 0]
      /\ wire' \in {wire, [wire EXCEPT ![P] = w]}
      /\ UNCHANGED <<next, queue, lastKnown, lastTaken>>
  BY DEF Put, subVars, history
<1>3. /\ stamped[t] \in Number /\ stamped[t] < next[P] /\ lastKnown[P] < stamped[t]
      /\ \A i \in DOMAIN wire[P] : wire[P][i] < stamped[t]
  BY <1>1, <1>2 DEF Typed, Locked, InOrder, StampedLast
<1>4. /\ w \in Seq(Number) /\ Len(w) = Len(wire[P]) + 1 /\ Len(wire[P]) \in Nat
      /\ w[Len(wire[P]) + 1] = stamped[t]
      /\ \A i \in 1..Len(wire[P]) : w[i] = wire[P][i]
  BY <1>1, <1>3, AppendFacts
<1> HIDE DEF w
<1>5. /\ \A i \in DOMAIN w : lastKnown[P] < w[i] /\ w[i] < next[P]
      /\ \A i, j \in DOMAIN w : i < j => w[i] < w[j]
  <2>1. DOMAIN w = 1..(Len(wire[P]) + 1) /\ DOMAIN wire[P] = 1..Len(wire[P])
    BY <1>1, <1>4
  <2>2. ASSUME NEW i \in DOMAIN w PROVE lastKnown[P] < w[i] /\ w[i] < next[P]
    <3>1. CASE i = Len(wire[P]) + 1
      BY <1>3, <1>4, <3>1
    <3>2. CASE i \in 1..Len(wire[P])
      <4>1. w[i] = wire[P][i] /\ i \in DOMAIN wire[P]
        BY <1>4, <2>1, <3>2
      <4>2. QED BY <1>1, <4>1 DEF InOrder, WireOrdered
    <3>3. QED BY <1>4, <2>1, <3>1, <3>2
  <2>3. ASSUME NEW i \in DOMAIN w, NEW j \in DOMAIN w, i < j PROVE w[i] < w[j]
    <3>1. i \in 1..Len(wire[P])
      BY <1>4, <2>1, <2>3
    <3>2. CASE j = Len(wire[P]) + 1
      BY <1>3, <1>4, <2>1, <3>1, <3>2
    <3>3. CASE j \in 1..Len(wire[P])
      BY <1>1, <1>4, <2>1, <2>3, <3>1, <3>3 DEF InOrder, WireOrdered
    <3>4. QED BY <1>4, <2>1, <3>2, <3>3
  <2>4. QED BY <2>2, <2>3
<1>6. WireOrdered'
  BY <1>1, <1>2, <1>5 DEF InOrder, WireOrdered
<1>7. ASSUME NEW u \in Thread, stamped'[u] # 0
      PROVE  /\ lastKnown'[PublisherOf[u]] < stamped'[u]
             /\ \A i \in DOMAIN wire'[PublisherOf[u]] : wire'[PublisherOf[u]][i] < stamped'[u]
  <2>1. u # t /\ stamped'[u] = stamped[u] /\ stamped[u] # 0
    BY <1>1, <1>2, <1>7
  <2>2. PublisherOf[u] # P
    BY <1>2, <2>1 DEF Typed, Locked
  <2>3. wire'[PublisherOf[u]] = wire[PublisherOf[u]]
    BY <1>1, <1>2, <2>2
  <2>4. QED BY <1>2, <2>1, <2>3 DEF InOrder, StampedLast
<1>8. StampedLast'
  BY <1>7 DEF StampedLast
<1>9. QueueOrdered'
  BY <1>2 DEF InOrder, QueueOrdered, InSequence
<1>10. QED BY <1>6, <1>8, <1>9 DEF InOrder

LEMMA LoseInOrder == ASSUME Typed, InOrder, NEW p \in Publisher, Lose(p) PROVE InOrder'
<1>1. PICK k \in DOMAIN wire[p] : wire' = [wire EXCEPT ![p] =
        SubSeq(wire[p], 1, k - 1) \o SubSeq(wire[p], k + 1, Len(wire[p]))]
  BY DEF Lose
<1> DEFINE r == SubSeq(wire[p], 1, k - 1) \o SubSeq(wire[p], k + 1, Len(wire[p]))
<1>2. /\ wire \in [Publisher -> Seq(Number)] /\ wire[p] \in Seq(Number)
      /\ k \in 1..Len(wire[p]) /\ Len(wire[p]) \in Nat
      /\ PublisherOf \in [Thread -> Publisher]
  <2>1. wire \in [Publisher -> Seq(Number)]
    BY DEF Typed, TypeOK
  <2>2. QED BY <1>1, <2>1, WireElements, PubSubAssumption
<1>3. /\ r \in Seq(Number) /\ Len(r) = Len(wire[p]) - 1
      /\ \A i \in 1..Len(r) : r[i] = IF i < k THEN wire[p][i] ELSE wire[p][i + 1]
  BY <1>2, RemoveFacts
<1>4. wire' = [wire EXCEPT ![p] = r] /\ UNCHANGED <<stamped, next, queue, lastKnown, lastTaken>>
  BY <1>1 DEF Lose, pubVars, subVars, history
<1> HIDE DEF r
<1>5. /\ \A i \in DOMAIN r : \E j \in DOMAIN wire[p] : r[i] = wire[p][j]
      /\ \A i, j \in DOMAIN r : i < j => r[i] < r[j]
  <2>1. DOMAIN r = 1..(Len(wire[p]) - 1) /\ DOMAIN wire[p] = 1..Len(wire[p])
    BY <1>2, <1>3
  <2>2. ASSUME NEW i \in DOMAIN r PROVE \E j \in DOMAIN wire[p] : r[i] = wire[p][j]
    <3>1. i \in 1..Len(wire[p]) /\ i + 1 \in 1..Len(wire[p])
      BY <1>2, <2>1
    <3>2. QED BY <1>3, <2>1, <3>1
  <2>3. ASSUME NEW i \in DOMAIN r, NEW j \in DOMAIN r, i < j PROVE r[i] < r[j]
    <3>1. i \in 1..Len(wire[p]) /\ i + 1 \in 1..Len(wire[p])
      BY <1>2, <2>1
    <3>2. j \in 1..Len(wire[p]) /\ j + 1 \in 1..Len(wire[p])
      BY <1>2, <2>1
    <3>3. \A x, y \in 1..Len(wire[p]) : x < y => wire[p][x] < wire[p][y]
      BY <2>1 DEF InOrder, WireOrdered
    <3>4. DEFINE at(x) == IF x < k THEN x ELSE x + 1
    <3>5. r[i] = wire[p][at(i)] /\ r[j] = wire[p][at(j)]
      BY <1>2, <1>3, <2>1
    <3>6. at(i) \in 1..Len(wire[p]) /\ at(j) \in 1..Len(wire[p])
      BY <3>1, <3>2
    <3>7. at(i) < at(j)
      BY <1>2, <2>1, <2>3
    <3>8. QED BY <3>3, <3>5, <3>6, <3>7
  <2>4. QED BY <2>2, <2>3
<1>6. WireOrdered'
  BY <1>2, <1>4, <1>5 DEF InOrder, WireOrdered
<1>7. StampedLast'
  BY <1>2, <1>4, <1>5 DEF InOrder, StampedLast
<1>8. QueueOrdered'
  BY <1>4 DEF InOrder, QueueOrdered, InSequence
<1>9. QED BY <1>6, <1>7, <1>8 DEF InOrder


LEMMA QueueElements ==
  ASSUME Typed
  PROVE  /\ queue \in Seq(Message) /\ DOMAIN queue = 1..Len(queue) /\ Len(queue) \in Nat
         /\ \A i \in DOMAIN queue : queue[i].pub \in Publisher /\ queue[i].seq \in Nat
<1>1. queue \in Seq(Message)
  BY DEF Typed, TypeOK
<1>2. DOMAIN queue = 1..Len(queue) /\ Len(queue) \in Nat
  BY <1>1
<1>3. ASSUME NEW i \in DOMAIN queue PROVE queue[i] \in Message
  BY <1>1, <1>2
<1>4. QED BY <1>1, <1>2, <1>3, NumberType DEF Message

LEMMA ArriveInOrder == ASSUME Typed, InOrder, NEW p \in Publisher, AddNewMessage(p) PROVE InOrder'
<1> DEFINE h == Head(wire[p])
<1>1. /\ wire[p] # <<>> /\ wire' = [wire EXCEPT ![p] = Tail(@)]
      /\ UNCHANGED <<holder, next, stamped>>
  BY AddNewMessageCases
<1>2. /\ wire \in [Publisher -> Seq(Number)] /\ wire[p] \in Seq(Number)
      /\ PublisherOf \in [Thread -> Publisher]
      /\ lastKnown \in [Publisher -> Nat] /\ lastTaken \in [Publisher -> Nat]
      /\ next \in [Publisher -> Nat \ {0}]
  BY PubSubAssumption DEF Typed, TypeOK
<1>3. /\ h = wire[p][1] /\ h \in Nat /\ h \in Number
      /\ Tail(wire[p]) \in Seq(Number) /\ Len(Tail(wire[p])) = Len(wire[p]) - 1
      /\ \A i \in 1..(Len(wire[p]) - 1) : Tail(wire[p])[i] = wire[p][i + 1]
      /\ Len(wire[p]) \in Nat \ {0}
  BY <1>1, <1>2, TailFacts, ArrivingType
<1>4. \A i \in DOMAIN Tail(wire[p]) : i + 1 \in DOMAIN wire[p] /\ Tail(wire[p])[i] = wire[p][i + 1]
  BY <1>2, <1>3
<1>5. /\ lastKnown[p] < h /\ h < next[p] /\ lastTaken[p] <= lastKnown[p]
      /\ \A i \in DOMAIN Tail(wire[p]) : h < Tail(wire[p])[i] /\ Tail(wire[p])[i] < next[p]
      /\ \A i, j \in DOMAIN Tail(wire[p]) : i < j => Tail(wire[p])[i] < Tail(wire[p])[j]
  <2>1. 1 \in DOMAIN wire[p] /\ lastKnown[p] < wire[p][1] /\ wire[p][1] < next[p]
    BY <1>2, <1>3 DEF InOrder, WireOrdered
  <2>2. ASSUME NEW i \in DOMAIN Tail(wire[p]) PROVE h < Tail(wire[p])[i] /\ Tail(wire[p])[i] < next[p]
    <3>1. 1 < i + 1
      BY <1>3
    <3>2. QED BY <1>3, <1>4, <2>1, <3>1 DEF InOrder, WireOrdered
  <2>3. ASSUME NEW i \in DOMAIN Tail(wire[p]), NEW j \in DOMAIN Tail(wire[p]), i < j
        PROVE  Tail(wire[p])[i] < Tail(wire[p])[j]
    <3>1. i + 1 < j + 1
      BY <1>3, <2>3
    <3>2. QED BY <1>4, <3>1 DEF InOrder, WireOrdered
  <2>4. QED BY <1>3, <2>1, <2>2, <2>3 DEF InOrder, WireOrdered
<1>6. \A t \in Thread : stamped[t] # 0 /\ PublisherOf[t] = p =>
        /\ h < stamped[t]
        /\ \A i \in DOMAIN Tail(wire[p]) : Tail(wire[p])[i] < stamped[t]
  <2>1. 1 \in DOMAIN wire[p]
    BY <1>2, <1>3
  <2>2. SUFFICES ASSUME NEW t \in Thread, stamped[t] # 0, PublisherOf[t] = p
                 PROVE  /\ h < stamped[t]
                        /\ \A i \in DOMAIN Tail(wire[p]) : Tail(wire[p])[i] < stamped[t]
    OBVIOUS
  <2>3. \A i \in DOMAIN wire[p] : wire[p][i] < stamped[t]
    BY <2>2 DEF InOrder, StampedLast
  <2>4. QED BY <1>3, <1>4, <2>1, <2>3
<1> HIDE DEF h
<1>7. CASE shut /\ UNCHANGED <<subVars, history>>
  <2>1. UNCHANGED <<queue, lastKnown, lastTaken>>
    BY <1>7 DEF subVars, history
  <2>2. \A i \in DOMAIN Tail(wire[p]) : lastKnown[p] < Tail(wire[p])[i]
    BY <1>2, <1>3, <1>4 DEF InOrder, WireOrdered
  <2>3. WireOrdered'
    BY <1>1, <1>2, <1>5, <2>1, <2>2 DEF InOrder, WireOrdered
  <2>4. StampedLast'
    BY <1>1, <1>2, <1>6, <2>1 DEF InOrder, StampedLast
  <2>5. QueueOrdered'
    BY <2>1 DEF InOrder, QueueOrdered, InSequence
  <2>6. QED BY <2>3, <2>4, <2>5 DEF InOrder
<1>8. CASE ~shut /\ Accepts(p)
  <2>1. /\ lastKnown' = [lastKnown EXCEPT ![p] = h]
        /\ queue' = Append(Discard(queue), Arriving(p)) /\ UNCHANGED lastTaken
    BY <1>8 DEF Accepts, h
  <2>2. \A q \in Publisher : lastKnown[q] <= lastKnown'[q]
    BY <1>2, <1>3, <1>5, <2>1
  <2>3. WireOrdered'
    BY <1>1, <1>2, <1>3, <1>5, <2>1 DEF InOrder, WireOrdered
  <2>4. StampedLast'
    BY <1>1, <1>2, <1>6, <2>1 DEF InOrder, StampedLast
  <2> DEFINE d == Discard(queue)
  <2>5. /\ d \in Seq(Message) /\ Len(d) \in Nat /\ DOMAIN d = 1..Len(d)
        /\ \E n \in {0, 1} : \A i \in DOMAIN d : i + n \in DOMAIN queue /\ d[i] = queue[i + n]
    <3>1. d \in Seq(Message) /\ Len(d) \in Nat /\ DOMAIN d = 1..Len(d)
      BY QueueElements, DiscardFacts
    <3>2. CASE d = queue
      BY QueueElements, <3>2
    <3>3. CASE d = Tail(queue) /\ queue # <<>>
      <4>1. /\ Len(d) = Len(queue) - 1
            /\ \A i \in 1..Len(d) : d[i] = queue[i + 1]
        BY QueueElements, TailFacts, <3>3
      <4>2. \A i \in DOMAIN d : i + 1 \in DOMAIN queue /\ d[i] = queue[i + 1]
        BY QueueElements, <3>1, <4>1
      <4>3. QED BY <3>1, <4>2
    <3>4. QED BY <3>1, <3>2, <3>3, QueueElements, DiscardFacts
  <2>6. /\ \A i \in DOMAIN d : /\ d[i].pub \in Publisher /\ d[i].seq \in Nat
                               /\ lastTaken[d[i].pub] < d[i].seq
                               /\ d[i].seq <= lastKnown[d[i].pub]
        /\ \A i, j \in DOMAIN d : i < j /\ d[i].pub = d[j].pub => d[i].seq < d[j].seq
    <3>1. PICK n \in {0, 1} : \A i \in DOMAIN d : i + n \in DOMAIN queue /\ d[i] = queue[i + n]
      BY <2>5
    <3>2. ASSUME NEW i \in DOMAIN d
          PROVE  /\ d[i].pub \in Publisher /\ d[i].seq \in Nat
                 /\ lastTaken[d[i].pub] < d[i].seq /\ d[i].seq <= lastKnown[d[i].pub]
      BY <1>2, <3>1, QueueElements DEF InOrder, QueueOrdered, InSequence
    <3>3. ASSUME NEW i \in DOMAIN d, NEW j \in DOMAIN d, i < j, d[i].pub = d[j].pub
          PROVE  d[i].seq < d[j].seq
      <4>1. i + n < j + n
        BY <2>5, <3>3
      <4>2. QED BY <3>1, <3>3, <4>1 DEF InOrder, QueueOrdered, InSequence
    <3>4. QED BY <3>2, <3>3
  <2> HIDE DEF d
  <2>7. /\ Arriving(p) \in Message /\ Arriving(p).pub = p /\ Arriving(p).seq = h
    BY <1>1, ArrivingType DEF Arriving, h
  <2>8. /\ queue' = Append(d, Arriving(p)) /\ DOMAIN queue' = 1..(Len(d) + 1)
        /\ queue'[Len(d) + 1] = Arriving(p)
        /\ \A i \in DOMAIN d : queue'[i] = d[i]
    <3>1. queue' = Append(d, Arriving(p))
      BY <2>1 DEF d
    <3>2. QED BY <2>5, <2>7, <3>1, AppendFacts
  <2>9. ASSUME NEW i \in DOMAIN queue'
        PROVE  /\ queue'[i].seq > lastTaken'[queue'[i].pub]
               /\ queue'[i].seq <= lastKnown'[queue'[i].pub]
    <3>1. CASE i = Len(d) + 1
      <4>1. queue'[i].pub = p /\ queue'[i].seq = h
        BY <2>7, <2>8, <3>1
      <4>2. lastKnown'[p] = h /\ lastTaken'[p] < h
        BY <1>2, <1>3, <1>5, <2>1
      <4>3. QED BY <1>2, <1>3, <2>1, <4>1, <4>2
    <3>2. CASE i \in DOMAIN d
      <4>1. /\ d[i].pub \in Publisher /\ d[i].seq \in Nat
            /\ lastTaken[d[i].pub] < d[i].seq /\ d[i].seq <= lastKnown[d[i].pub]
            /\ lastKnown[d[i].pub] <= lastKnown'[d[i].pub]
        BY <2>2, <2>6, <3>2
      <4>2. lastKnown'[d[i].pub] \in Nat /\ lastKnown[d[i].pub] \in Nat /\ lastTaken[d[i].pub] \in Nat
        BY <1>2, <1>3, <2>1, <4>1
      <4>3. QED BY <2>1, <2>8, <3>2, <4>1, <4>2
    <3>3. QED BY <2>5, <2>8, <3>1, <3>2
  <2>10. ASSUME NEW i \in DOMAIN queue', NEW j \in DOMAIN queue', i < j, queue'[i].pub = queue'[j].pub
         PROVE  queue'[i].seq < queue'[j].seq
    <3>1. i \in DOMAIN d
      BY <2>5, <2>8, <2>10
    <3>2. CASE j = Len(d) + 1
      <4>1. d[i].pub = p /\ queue'[i] = d[i] /\ queue'[j].seq = h
        BY <2>7, <2>8, <2>10, <3>1, <3>2
      <4>2. d[i].seq <= lastKnown[p] /\ d[i].seq \in Nat
        BY <2>6, <3>1, <4>1
      <4>3. QED BY <1>2, <1>3, <1>5, <4>1, <4>2
    <3>3. CASE j \in DOMAIN d
      BY <2>6, <2>8, <2>10, <3>1, <3>3
    <3>4. QED BY <2>5, <2>8, <3>2, <3>3
  <2>11. QueueOrdered'
    BY <2>9, <2>10 DEF QueueOrdered, InSequence
  <2>12. QED BY <2>3, <2>4, <2>11 DEF InOrder
<1>9. QED BY <1>7, <1>8, AddNewMessageCases

LEMMA TakeInOrder == ASSUME Typed, InOrder, TakeOneMessage PROVE InOrder'
<1>1. /\ queue # <<>> /\ queue' = Tail(queue)
      /\ lastTaken' = [lastTaken EXCEPT ![Head(queue).pub] = Head(queue).seq]
      /\ UNCHANGED <<stamped, next, wire, lastKnown>>
  BY DEF TakeOneMessage, pubVars
<1>2. /\ lastKnown \in [Publisher -> Nat] /\ lastTaken \in [Publisher -> Nat]
      /\ next \in [Publisher -> Nat \ {0}]
  BY DEF Typed, TypeOK
<1>3. /\ Head(queue) = queue[1] /\ 1 \in DOMAIN queue
      /\ queue[1].pub \in Publisher /\ queue[1].seq \in Nat
      /\ \A i \in DOMAIN queue' : i \in Nat \ {0} /\ i + 1 \in DOMAIN queue /\ queue'[i] = queue[i + 1]
  <2>1. /\ Len(queue) \in Nat \ {0} /\ Head(queue) = queue[1] /\ queue' \in Seq(Message)
        /\ Len(queue') = Len(queue) - 1 /\ \A i \in 1..Len(queue') : queue'[i] = queue[i + 1]
    BY <1>1, QueueElements, TailFacts
  <2>2. DOMAIN queue' = 1..(Len(queue) - 1)
    BY <2>1
  <2>3. QED BY <2>1, <2>2, QueueElements
<1>4. WireOrdered'
  BY <1>1, <1>2, <1>3 DEF InOrder, WireOrdered, QueueOrdered
<1>5. StampedLast'
  BY <1>1 DEF InOrder, StampedLast
<1>6. ASSUME NEW i \in DOMAIN queue'
      PROVE  /\ queue'[i].seq > lastTaken'[queue'[i].pub]
             /\ queue'[i].seq <= lastKnown'[queue'[i].pub]
  <2>1. 1 < i + 1 /\ i + 1 \in DOMAIN queue /\ queue'[i] = queue[i + 1]
    BY <1>3
  <2>2. CASE queue[i + 1].pub = queue[1].pub
    BY <1>1, <1>2, <1>3, <2>1, <2>2, QueueElements DEF InOrder, QueueOrdered, InSequence
  <2>3. CASE queue[i + 1].pub # queue[1].pub
    BY <1>1, <1>2, <1>3, <2>1, <2>3, QueueElements DEF InOrder, QueueOrdered, InSequence
  <2>4. QED BY <2>2, <2>3
<1>7. ASSUME NEW i \in DOMAIN queue', NEW j \in DOMAIN queue', i < j, queue'[i].pub = queue'[j].pub
      PROVE  queue'[i].seq < queue'[j].seq
  <2>1. i + 1 < j + 1
    BY <1>3, <1>7
  <2>2. QED BY <1>3, <1>7, <2>1 DEF InOrder, QueueOrdered, InSequence
<1>8. QueueOrdered'
  BY <1>6, <1>7 DEF QueueOrdered, InSequence
<1>9. QED BY <1>4, <1>5, <1>8 DEF InOrder

LEMMA NextInOrder == Typed /\ InOrder /\ [Next]_vars => InOrder'
<1> SUFFICES ASSUME Typed, InOrder, [Next]_vars PROVE InOrder'
  OBVIOUS
<1>1. ASSUME NEW t \in Thread, Stamp(t) \/ Put(t) PROVE InOrder'
  BY <1>1, StampInOrder, PutInOrder
<1>2. ASSUME NEW p \in Publisher, Lose(p) \/ AddNewMessage(p) PROVE InOrder'
  BY <1>2, LoseInOrder, ArriveInOrder
<1>3. CASE TakeOneMessage
  BY <1>3, TakeInOrder
<1>4. ASSUME UNCHANGED <<stamped, next, wire, queue, lastKnown, lastTaken>> PROVE InOrder'
  BY <1>4 DEF InOrder, WireOrdered, StampedLast, QueueOrdered, InSequence
<1>5. CASE SetCallback \/ UnsetCallback \/ TakeEventStatus \/ Shutdown \/ UNCHANGED vars
  BY <1>4, <1>5 DEF SetCallback, UnsetCallback, TakeEventStatus, Shutdown,
                    vars, pubVars, subVars, history
<1>6. QED BY <1>1, <1>2, <1>3, <1>5 DEF Next

\* A reader gets the messages of a publisher in the order of their sequence
\* numbers and at most once, however many threads publish on it.
THEOREM ReadInSequence == Spec => []InSequence
<1>1. InOrder => InSequence
  BY DEF InOrder, QueueOrdered
<1>2. QED BY <1>1, InitInOrder, NextInOrder, TypedHolds, PTL DEF Spec

-----------------------------------------------------------------------------
(* The losses *)

Arrived == {received[i] : i \in DOMAIN received}

\* The strengthening: last_known_published_msg_ is the newest that arrived.
NewestKnown ==
  \A p \in Publisher :
    /\ lastKnown[p] = 0 => \A m \in Arrived : m.pub # p
    /\ lastKnown[p] # 0 => [pub |-> p, seq |-> lastKnown[p]] \in Arrived
    /\ \A m \in Arrived : m.pub = p => m.seq <= lastKnown[p]

LossInv == NewestKnown /\ IsFiniteSet(Missing) /\ LossExact

\* What lies between the numbers l and k of p.
Between(p, l, k) == {m \in Message : m.pub = p /\ l < m.seq /\ m.seq < k}

LEMMA MessageFields ==
  /\ \A m \in Message : /\ m.pub \in Publisher /\ m.seq \in Number /\ m.seq \in Nat \ {0}
                        /\ m = [pub |-> m.pub, seq |-> m.seq]
  /\ \A p \in Publisher, k \in Number : [pub |-> p, seq |-> k] \in Message
<1>1. ASSUME NEW m \in Message
      PROVE  /\ m.pub \in Publisher /\ m.seq \in Number
             /\ m = [pub |-> m.pub, seq |-> m.seq]
  BY DEF Message
<1>2. \A p \in Publisher, k \in Number : [pub |-> p, seq |-> k] \in Message
  BY DEF Message
<1>3. \A k \in Number : k \in Nat \ {0}
  BY NumberType
<1>4. QED BY <1>1, <1>2, <1>3

LEMMA BetweenCardinality ==
  ASSUME NEW p \in Publisher, NEW k \in Number, NEW l \in Nat, l < k
  PROVE  IsFiniteSet(Between(p, l, k)) /\ Cardinality(Between(p, l, k)) = k - l - 1
<1> DEFINE S == (l + 1)..(k - 1)
           f == [i \in S |-> [pub |-> p, seq |-> i]]
<1>1. k \in Nat /\ l + 1 \in Int /\ k - 1 \in Int
  BY NumberType
<1>2. \A i \in S : i \in Number /\ l < i /\ i < k
  <2>1. PICK q \in Publisher : k \in 1..MaxSeq[q]
    BY DEF Number
  <2>2. \A i \in S : i \in 1..MaxSeq[q] /\ l < i /\ i < k
    BY <1>1, <2>1, PubSubAssumption
  <2>3. QED BY <2>2 DEF Number
<1>3. \A i \in S : f[i] \in Between(p, l, k)
  BY <1>2, MessageFields DEF Between
<1>4. \A m \in Between(p, l, k) : m.seq \in S /\ m = f[m.seq]
  BY <1>1, MessageFields DEF Between
<1>5. \A i, j \in S : f[i] = f[j] => i = j
  <2>1. \A i \in S : f[i].seq = i
    OBVIOUS
  <2>2. QED BY <2>1
<1>6. f \in [S -> Between(p, l, k)]
  BY <1>3
<1>7. IsFiniteSet(S) /\ Cardinality(S) = k - l - 1
  <2>1. IsFiniteSet(S) /\ Cardinality(S) = IF l + 1 > k - 1 THEN 0 ELSE (k - 1) - (l + 1) + 1
    BY <1>1, FS_Interval
  <2>2. QED BY <1>1, <2>1
<1> HIDE DEF f, S
<1>8. f \in Bijection(S, Between(p, l, k))
  BY <1>4, <1>5, <1>6, Fun_IsBij
<1>9. ExistsBijection(S, Between(p, l, k))
  BY <1>8 DEF ExistsBijection
<1>10. QED BY <1>7, <1>9, FS_Bijection

\* Missing in terms of the set of what arrived.
Skipped(S) ==
  {m \in Message :
     /\ m \notin S
     /\ \E x \in S : x.pub = m.pub /\ x.seq < m.seq
     /\ \E x \in S : x.pub = m.pub /\ x.seq > m.seq}

LEMMA MissingByArrived == Missing = Skipped(Arrived) /\ Missing' = Skipped(Arrived')
<1>1. Missing = Skipped(Arrived)
  BY DEF Missing, Arrived, Skipped
<1>2. Missing' = Skipped(Arrived')
  BY DEF Missing, Arrived, Skipped
<1>3. QED BY <1>1, <1>2

LEMMA ArrivedType ==
  ASSUME Typed
  PROVE  Arrived \subseteq Message
<1>1. received \in Seq(Message)
  BY DEF Typed, TypeOK
<1>2. QED BY <1>1 DEF Arrived

LEMMA LossSame ==
  ASSUME LossInv, UNCHANGED <<received, lastKnown, lost, lostTaken>>
  PROVE  LossInv'
BY DEF LossInv, NewestKnown, Arrived, Missing, LossExact

LEMMA ArriveLoss ==
  ASSUME Typed, InOrder, LossInv, NEW p \in Publisher, AddNewMessage(p)
  PROVE  LossInv'
<1> DEFINE h == Head(wire[p])
           l == lastKnown[p]
           a == Arriving(p)
<1>1. CASE shut /\ UNCHANGED <<subVars, history>>
  BY <1>1, LossSame DEF subVars, history
<1>2. CASE ~shut /\ Accepts(p)
  <2>1. wire[p] # <<>>
    BY AddNewMessageCases
  <2>2. /\ h \in Number /\ h \in Nat \ {0} /\ a \in Message /\ a.pub = p /\ a.seq = h
        /\ a = [pub |-> p, seq |-> h]
    BY <2>1, ArrivingType DEF Arriving
  <2>3. /\ l \in Nat /\ l < h /\ lastKnown \in [Publisher -> Nat]
        /\ lost \in [total : Nat, change : Nat] /\ lostTaken \in Nat
    <3>1. wire[p] \in Seq(Number) /\ 1 \in DOMAIN wire[p] /\ h = wire[p][1]
      BY <2>1, WireElements, TailFacts
    <3>2. QED BY <3>1 DEF InOrder, WireOrdered, Typed, TypeOK
  <2>4. Arrived' = Arrived \cup {a}
    <3>1. received \in Seq(Message)
      BY DEF Typed, TypeOK
    <3>2. /\ DOMAIN received' = DOMAIN received \cup {Len(received) + 1}
          /\ Len(received) + 1 \notin DOMAIN received
          /\ received'[Len(received) + 1] = a
          /\ \A i \in DOMAIN received : received'[i] = received[i]
      BY <1>2, <2>2, <3>1, AppendFacts DEF Accepts
    <3> HIDE DEF a
    <3>3. QED BY <3>2 DEF Arrived
  <2>5. /\ lastKnown' = [lastKnown EXCEPT ![p] = h] /\ lostTaken' = lostTaken
        /\ lost' = [total |-> lost.total + Gap(p, h), change |-> lost.change + Gap(p, h)]
    BY <1>2 DEF Accepts
  <2> HIDE DEF h, a
  <2>6. Arrived \subseteq Message /\ \A m \in Arrived : m.seq \in Nat
    BY ArrivedType, MessageFields
  <2>7. NewestKnown'
    <3> SUFFICES ASSUME NEW q \in Publisher
                 PROVE  /\ lastKnown'[q] = 0 => \A m \in Arrived' : m.pub # q
                        /\ lastKnown'[q] # 0 => [pub |-> q, seq |-> lastKnown'[q]] \in Arrived'
                        /\ \A m \in Arrived' : m.pub = q => m.seq <= lastKnown'[q]
      BY DEF NewestKnown
    <3>1. CASE q = p
      <4>1. lastKnown'[q] = h /\ h # 0 /\ [pub |-> q, seq |-> h] \in Arrived'
        BY <2>2, <2>3, <2>4, <2>5, <3>1
      <4>2. ASSUME NEW m \in Arrived', m.pub = q
            PROVE  m.seq <= h
        <5>1. CASE m \in Arrived
          <6>1. m.seq <= l /\ m.seq \in Nat
            BY <2>6, <3>1, <4>2, <5>1 DEF LossInv, NewestKnown
          <6>2. QED BY <2>2, <2>3, <6>1
        <5>2. CASE m = a
          BY <2>2, <5>2
        <5>3. QED BY <2>4, <5>1, <5>2
      <4>3. QED BY <4>1, <4>2
    <3>2. CASE q # p
      BY <2>2, <2>3, <2>4, <2>5, <3>2 DEF LossInv, NewestKnown
    <3>3. QED BY <3>1, <3>2
  <2>8. /\ Missing = {m \in Message :
                        /\ m \notin Arrived
                        /\ \E x \in Arrived : x.pub = m.pub /\ x.seq < m.seq
                        /\ \E x \in Arrived : x.pub = m.pub /\ x.seq > m.seq}
        /\ Missing' = {m \in Message :
                         /\ m \notin Arrived'
                         /\ \E x \in Arrived' : x.pub = m.pub /\ x.seq < m.seq
                         /\ \E x \in Arrived' : x.pub = m.pub /\ x.seq > m.seq}
    BY MissingByArrived DEF Skipped
  <2> DEFINE new == IF l = 0 THEN {} ELSE Between(p, l, h)
  <2>9. /\ l = 0 => \A x \in Arrived : x.pub # p
        /\ l # 0 => [pub |-> p, seq |-> l] \in Arrived
        /\ \A x \in Arrived : x.pub = p => x.seq <= l
    BY DEF LossInv, NewestKnown
  <2>10. ASSUME NEW m \in Message, m.pub # p
        PROVE  m \in Missing' <=> m \in Missing
    BY <2>2, <2>4, <2>8, <2>10
  <2>11. ASSUME NEW m \in Message, m.pub = p, l = 0
        PROVE  m \notin Missing /\ m \notin Missing'
    <3>1. m \notin Missing
      BY <2>8, <2>9, <2>11
    <3>2. \A x \in Arrived' : x.pub = p => x.seq = h
      BY <2>2, <2>4, <2>9, <2>11
    <3>3. m.seq \in Nat
      BY MessageFields
    <3>4. ~ (h < m.seq /\ h > m.seq)
      BY <2>2, <3>3
    <3>5. QED BY <2>8, <2>11, <3>1, <3>2, <3>4
  <2>12. ASSUME NEW m \in Message, m.pub = p, l # 0, m.seq <= l
        PROVE  m \in Missing' <=> m \in Missing
    <3>1. m.seq \in Nat /\ m = [pub |-> p, seq |-> m.seq]
      BY <2>12, MessageFields
    <3>2. m # a /\ ~ (h < m.seq)
      BY <2>2, <2>3, <2>12, <3>1
    <3>3. (\E x \in Arrived' : x.pub = p /\ x.seq < m.seq)
            <=> \E x \in Arrived : x.pub = p /\ x.seq < m.seq
      BY <2>2, <2>4, <3>2
    <3>4. CASE m.seq = l
      BY <2>4, <2>8, <2>9, <2>12, <3>1, <3>4
    <3>5. CASE m.seq # l
      <4>1. l > m.seq
        BY <2>3, <2>12, <3>1, <3>5
      <4>2. \E x \in Arrived : x.pub = p /\ x.seq > m.seq
        BY <2>9, <2>12, <4>1
      <4>3. QED BY <2>4, <2>8, <2>12, <3>2, <3>3, <4>2
    <3>6. QED BY <3>4, <3>5
  <2>13. ASSUME NEW m \in Message, m.pub = p, l # 0, l < m.seq
        PROVE  m \notin Missing /\ (m \in Missing' <=> m.seq < h)
    <3>1. m.seq \in Nat
      BY MessageFields
    <3>2. \A x \in Arrived : x.pub = p => ~ (x.seq > m.seq) /\ x # m
      BY <2>3, <2>6, <2>9, <2>13, <3>1
    <3>3. m \notin Missing /\ m \notin Arrived
      BY <2>8, <2>13, <3>2
    <3>4. CASE m.seq < h
      <4>1. m # a /\ h > m.seq
        BY <2>2, <3>1, <3>4
      <4>2. \E x \in Arrived' : x.pub = p /\ x.seq > m.seq
        BY <2>2, <2>4, <4>1
      <4>3. \E x \in Arrived' : x.pub = p /\ x.seq < m.seq
        BY <2>4, <2>9, <2>13
      <4>4. QED BY <2>4, <2>8, <2>13, <3>3, <3>4, <4>1, <4>2, <4>3
    <3>5. CASE ~ (m.seq < h)
      <4>1. ~ (h > m.seq)
        BY <2>2, <3>1, <3>5
      <4>2. ~ \E x \in Arrived' : x.pub = p /\ x.seq > m.seq
        BY <2>2, <2>4, <3>2, <4>1
      <4>3. QED BY <2>8, <2>13, <3>3, <3>5, <4>2
    <3>6. QED BY <3>4, <3>5
  <2>14. \A m \in Message : m.seq <= l \/ l < m.seq
    BY <2>3, MessageFields
  <2>15. Missing \subseteq Message /\ Missing' \subseteq Message /\ new \subseteq Message
    BY <2>8 DEF Between
  <2>16. Missing' = Missing \cup new
    <3>1. ASSUME NEW m \in Message
          PROVE  m \in Missing' <=> m \in Missing \/ m \in new
      <4>1. CASE m.pub # p \/ l = 0
        BY <2>10, <2>11, <4>1 DEF Between
      <4>2. CASE m.pub = p /\ l # 0
        BY <2>12, <2>13, <2>14, <2>3, <2>6, MessageFields, <4>2 DEF Between
      <4>3. QED BY <4>1, <4>2
    <3> HIDE DEF new
    <3>2. QED BY <2>15, <3>1
  <2>17. Missing \cap new = {}
    BY <2>13 DEF Between
  <2>18. IsFiniteSet(new) /\ Cardinality(new) = Gap(p, h)
    <3>1. CASE l = 0
      BY <3>1, FS_EmptySet DEF Gap
    <3>2. CASE l # 0
      <4>1. IsFiniteSet(new) /\ Cardinality(new) = h - l - 1
        BY <2>2, <2>3, <3>2, BetweenCardinality
      <4>2. Gap(p, h) = h - l - 1
        BY <2>2, <2>3, <3>2 DEF Gap
      <4>3. QED BY <4>1, <4>2
    <3>3. QED BY <3>1, <3>2
  <2> HIDE DEF new
  <2>19. /\ IsFiniteSet(Missing')
         /\ Cardinality(Missing') = Cardinality(Missing) + Gap(p, h)
    <3>1. /\ IsFiniteSet(Missing \cup new)
          /\ Cardinality(Missing \cup new)
               = Cardinality(Missing) + Cardinality(new) - Cardinality(Missing \cap new)
      BY <2>18, FS_Union DEF LossInv
    <3>2. Cardinality(Missing \cap new) = 0
      BY <2>17, FS_EmptySet
    <3>3. Cardinality(Missing) \in Nat /\ Cardinality(new) \in Nat
      BY <2>18, FS_CardinalityType DEF LossInv
    <3>4. QED BY <2>16, <2>18, <3>1, <3>2, <3>3
  <2>20. Gap(p, h) \in Nat
    BY <2>2, GapType
  <2>21. LossExact'
    BY <2>3, <2>5, <2>19, <2>20 DEF LossInv, LossExact
  <2>22. QED BY <2>7, <2>19, <2>21 DEF LossInv
<1>3. QED BY <1>1, <1>2, AddNewMessageCases

LEMMA NextLoss == Typed /\ InOrder /\ LossInv /\ [Next]_vars => LossInv'
<1> SUFFICES ASSUME Typed, InOrder, LossInv, [Next]_vars PROVE LossInv'
  OBVIOUS
<1>1. ASSUME NEW t \in Thread, Stamp(t) \/ Put(t) PROVE LossInv'
  BY <1>1, LossSame DEF Stamp, Put, subVars, history
<1>2. ASSUME NEW p \in Publisher, Lose(p) PROVE LossInv'
  BY <1>2, LossSame DEF Lose, subVars, history
<1>3. ASSUME NEW p \in Publisher, AddNewMessage(p) PROVE LossInv'
  BY <1>3, ArriveLoss
<1>4. CASE TakeOneMessage \/ SetCallback \/ UnsetCallback \/ Shutdown \/ UNCHANGED vars
  BY <1>4, LossSame DEF TakeOneMessage, SetCallback, UnsetCallback, Shutdown,
                        vars, subVars, history
<1>5. CASE TakeEventStatus
  <2>1. lost \in [total : Nat, change : Nat] /\ lostTaken \in Nat
    BY DEF Typed, TypeOK
  <2>2. /\ lostTaken' = lostTaken + lost.change /\ lost'.change = 0
        /\ lost'.total = lost.total /\ UNCHANGED <<received, lastKnown>>
    BY <1>5, <2>1 DEF TakeEventStatus
  <2>3. NewestKnown' /\ IsFiniteSet(Missing') /\ Missing' = Missing
    BY <2>2 DEF LossInv, NewestKnown, Arrived, Missing
  <2>4. LossExact'
    BY <2>1, <2>2, <2>3 DEF LossInv, LossExact
  <2>5. QED BY <2>3, <2>4 DEF LossInv
<1>6. QED BY <1>1, <1>2, <1>3, <1>4, <1>5 DEF Next

LEMMA InitLoss == Init => LossInv
<1> SUFFICES ASSUME Init PROVE LossInv
  OBVIOUS
<1>1. Arrived = {} /\ Missing = {}
  BY DEF Init, Arrived, Missing
<1>2. QED BY <1>1, FS_EmptySet DEF Init, LossInv, NewestKnown, LossExact

\* MESSAGE_LOST counts exactly the messages missing among those received, and
\* every one of them is reported once, for any publishers and any losses.
THEOREM LossesAreExact == Spec => []LossExact
<1>1. LossInv => LossExact
  BY DEF LossInv
<1>2. QED BY <1>1, InitTyped, NextTyped, InitInOrder, NextInOrder, InitLoss, NextLoss, PTL
          DEF Spec
=============================================================================
