------------------------------- MODULE PubSub -------------------------------
(***************************************************************************)
(* Publishers, the network, and one subscription.                          *)
(*                                                                         *)
(* Threads publish on a PublisherData under its mutex_: a message gets the *)
(* next sequence number and is put on the network, which keeps the order   *)
(* of a publisher's messages but may lose them.  The subscription's zenoh  *)
(* callback queues a message, discarding the oldest when the queue is at   *)
(* its depth, counts the messages that a gap in the sequence numbers shows *)
(* to be lost, and tells the executor's callback, or keeps count for when  *)
(* it is set.  Every operation of the subscription is one critical section *)
(* of its mutex_.                                                          *)
(***************************************************************************)
EXTENDS Integers, Sequences, FiniteSets

CONSTANTS
  Publisher,    \* publishers of the topic
  Thread,       \* threads that publish
  PublisherOf,  \* the publisher a thread uses
  Depth,        \* the adapted depth of the subscription, at least 1
  KeepAll,      \* RMW_QOS_POLICY_HISTORY_KEEP_ALL
  MaxSeq,       \* bound: messages a publisher stamps
  None

ASSUME PubSubAssumption ==
  /\ PublisherOf \in [Thread -> Publisher]
  /\ Depth \in Nat \ {0}
  /\ KeepAll \in BOOLEAN
  /\ MaxSeq \in [Publisher -> Nat]
  /\ None \notin Thread

Number == UNION {1..MaxSeq[p] : p \in Publisher}
Message == [pub : Publisher, seq : Number]

VARIABLES
  holder,         \* the thread that has mutex_ of a publisher
  next,           \* sequence_number_
  stamped,        \* the sequence number a thread is about to put
  wire,           \* messages of a publisher in the network
  queue,          \* message_queue_
  lastKnown,      \* last_known_published_msg_, 0 when not known
  lost,           \* the MESSAGE_LOST status: total_count and its change
  callback,       \* whether the executor's callback is set
  unread,         \* unread_count_
  shut,           \* is_shutdown_
  received,       \* history: every message queued
  lastTaken,      \* history: the last message of a publisher taken
  told,           \* history: the messages the callback was told of
  lostTaken       \* history: the losses taken as event statuses

pubVars == <<holder, next, stamped>>
subVars == <<queue, lastKnown, lost, callback, unread, shut>>
history == <<received, lastTaken, told, lostTaken>>
vars == <<pubVars, wire, subVars, history>>

-----------------------------------------------------------------------------
(* Faults: what some definitions below would be with a slip in the code.   *)
(* No specification uses them; each breaks one of the properties.          *)

\* The mutex of the publisher is released before the message is put.
StampUnlocked(t) ==
  LET p == PublisherOf[t] IN
  /\ holder[p] = None /\ stamped[t] = 0
  /\ next[p] <= MaxSeq[p]
  /\ stamped' = [stamped EXCEPT ![t] = next[p]]
  /\ next' = [next EXCEPT ![p] = @ + 1]
  /\ UNCHANGED <<holder, wire, subVars, history>>

\* The queue may get one message over its depth.
DiscardLate(q) == IF KeepAll \/ Len(q) <= Depth THEN q ELSE Tail(q)

\* The newest message makes room.
DiscardNewest(q) == IF KeepAll \/ Len(q) < Depth THEN q ELSE SubSeq(q, 1, Len(q) - 1)

\* The difference is taken the wrong way round.
GapSwapped(p, k) == IF lastKnown[p] = 0 THEN 0 ELSE lastKnown[p] - k + 1

\* A gap counts the message that shows it.
GapInclusive(p, k) == IF lastKnown[p] = 0 \/ k = lastKnown[p] + 1 THEN 0 ELSE k - lastKnown[p]

\* The callback is set and nothing is said of what came before.
SetCallbackOnly ==
  /\ callback' = TRUE
  /\ UNCHANGED <<pubVars, wire, queue, lastKnown, lost, unread, shut, history>>

-----------------------------------------------------------------------------
Init ==
  /\ holder = [p \in Publisher |-> None]
  /\ next = [p \in Publisher |-> 1]
  /\ stamped = [t \in Thread |-> 0]
  /\ wire = [p \in Publisher |-> <<>>]
  /\ queue = <<>>
  /\ lastKnown = [p \in Publisher |-> 0]
  /\ lost = [total |-> 0, change |-> 0]
  /\ callback = FALSE /\ unread = 0 /\ shut = FALSE
  /\ received = <<>>
  /\ lastTaken = [p \in Publisher |-> 0]
  /\ told = 0 /\ lostTaken = 0

-----------------------------------------------------------------------------
(* PublisherData::publish() and publish_serialized_message() *)

\* With mutex_ held the message gets its sequence number.
Stamp(t) ==
  LET p == PublisherOf[t] IN
  /\ holder[p] = None
  /\ next[p] <= MaxSeq[p]
  /\ holder' = [holder EXCEPT ![p] = t]
  /\ stamped' = [stamped EXCEPT ![t] = next[p]]
  /\ next' = [next EXCEPT ![p] = @ + 1]
  /\ UNCHANGED <<wire, subVars, history>>

\* put(), and the end of the critical section.  A put that fails has used up
\* its sequence number.
Put(t) ==
  LET p == PublisherOf[t] IN
  /\ stamped[t] # 0
  /\ wire' \in {wire, [wire EXCEPT ![p] = Append(@, stamped[t])]}
  /\ stamped' = [stamped EXCEPT ![t] = 0]
  /\ holder' = [holder EXCEPT ![p] = None]
  /\ UNCHANGED <<next, subVars, history>>

-----------------------------------------------------------------------------
(* The network *)

\* Congestion or a best-effort link loses a message.
Lose(p) ==
  /\ \E i \in DOMAIN wire[p] :
       wire' = [wire EXCEPT ![p] = SubSeq(@, 1, i - 1) \o SubSeq(@, i + 1, Len(@))]
  /\ UNCHANGED <<pubVars, subVars, history>>

-----------------------------------------------------------------------------
(* SubscriptionData *)

\* The queue once there is room for one more message.
Discard(q) == IF KeepAll \/ Len(q) < Depth \/ q = <<>> THEN q ELSE Tail(q)

\* How many messages of p the arrival of number k shows to be lost.
Gap(p, k) ==
  LET d == IF k >= lastKnown[p] THEN k - lastKnown[p] ELSE lastKnown[p] - k IN
  IF lastKnown[p] = 0 \/ d <= 1 THEN 0 ELSE d - 1

\* DataCallbackManager::trigger_callback().
TriggerCallback ==
  /\ told' = told + IF callback THEN 1 ELSE 0
  /\ unread' = unread + IF callback THEN 0 ELSE 1
  /\ UNCHANGED callback

\* add_new_message(), called by zenoh with the next message of p.
AddNewMessage(p) ==
  LET m == [pub |-> p, seq |-> Head(wire[p])] IN
  /\ wire[p] # <<>>
  /\ wire' = [wire EXCEPT ![p] = Tail(@)]
  /\ IF shut THEN UNCHANGED <<subVars, history>>
     ELSE /\ queue' = Append(Discard(queue), m)
          /\ lost' = [total |-> lost.total + Gap(p, m.seq), change |-> lost.change + Gap(p, m.seq)]
          /\ lastKnown' = [lastKnown EXCEPT ![p] = m.seq]
          /\ TriggerCallback
          /\ received' = Append(received, m)
          /\ UNCHANGED <<shut, lastTaken, lostTaken>>
  /\ UNCHANGED pubVars

\* take_one_message() and take_serialized_message(): the message leaves the
\* queue even when it cannot be deserialized.
TakeOneMessage ==
  /\ ~shut /\ queue # <<>>
  /\ queue' = Tail(queue)
  /\ lastTaken' = [lastTaken EXCEPT ![Head(queue).pub] = Head(queue).seq]
  /\ UNCHANGED <<pubVars, wire, lastKnown, lost, callback, unread, shut, received, told, lostTaken>>

\* set_on_new_message_callback() with a callback: it is told of what arrived
\* while there was none.
SetCallback ==
  /\ callback' = TRUE
  /\ told' = told + unread
  /\ unread' = 0
  /\ UNCHANGED <<pubVars, wire, queue, lastKnown, lost, shut, received, lastTaken, lostTaken>>

UnsetCallback ==
  /\ callback' = FALSE
  /\ UNCHANGED <<pubVars, wire, queue, lastKnown, lost, unread, shut, history>>

\* take_event_status() of MESSAGE_LOST.
TakeEventStatus ==
  /\ lostTaken' = lostTaken + lost.change
  /\ lost' = [lost EXCEPT !.change = 0]
  /\ UNCHANGED <<pubVars, wire, queue, lastKnown, callback, unread, shut, received, lastTaken, told>>

Shutdown ==
  /\ shut' = TRUE
  /\ UNCHANGED <<pubVars, wire, queue, lastKnown, lost, callback, unread, history>>

-----------------------------------------------------------------------------
Next ==
  \/ \E t \in Thread : Stamp(t) \/ Put(t)
  \/ \E p \in Publisher : Lose(p) \/ AddNewMessage(p)
  \/ TakeOneMessage
  \/ SetCallback
  \/ UnsetCallback
  \/ TakeEventStatus
  \/ Shutdown

Spec == Init /\ [][Next]_vars

-----------------------------------------------------------------------------
(* Properties *)

TypeOK ==
  /\ holder \in [Publisher -> Thread \cup {None}]
  /\ next \in [Publisher -> Nat \ {0}]
  /\ stamped \in [Thread -> Number \cup {0}]
  /\ wire \in [Publisher -> Seq(Number)]
  /\ queue \in Seq(Message)
  /\ lastKnown \in [Publisher -> Nat]
  /\ lost \in [total : Nat, change : Nat]
  /\ callback \in BOOLEAN /\ unread \in Nat /\ shut \in BOOLEAN
  /\ received \in Seq(Message)
  /\ lastTaken \in [Publisher -> Nat]
  /\ told \in Nat /\ lostTaken \in Nat

\* However many threads publish on one PublisherData, a reader gets the
\* messages of a publisher in the order of their sequence numbers, each at
\* most once: what is queued comes after what was taken, in order.
InSequence ==
  /\ \A i \in DOMAIN queue : queue[i].seq > lastTaken[queue[i].pub]
  /\ \A i, j \in DOMAIN queue :
       i < j /\ queue[i].pub = queue[j].pub => queue[i].seq < queue[j].seq

\* The numbers skipped between two messages of a publisher that arrived.
Missing ==
  {m \in Message :
     /\ \A i \in DOMAIN received : received[i] # m
     /\ \E i \in DOMAIN received : received[i].pub = m.pub /\ received[i].seq < m.seq
     /\ \E i \in DOMAIN received : received[i].pub = m.pub /\ received[i].seq > m.seq}

\* MESSAGE_LOST is exact: its total is the number of messages that are missing
\* among those received (a message the queue discarded is not one), and every
\* one of them is reported in the change of exactly one status taken.
LossExact ==
  /\ lost.total = Cardinality(Missing)
  /\ lostTaken + lost.change = lost.total

\* The executor is told of each message exactly once, whenever its callback is
\* set, replaced or unset between messages, and nothing is held back from it.
EveryMessageTold ==
  /\ told + unread = Len(received)
  /\ callback => unread = 0

\* The queue is the promised window of what arrived: the subscription
\* implements KeepLast with the messages queued so far as its log.
Window == INSTANCE KeepLast WITH
  Item <- Message,
  log <- received,
  cursor <- Len(received) - Len(queue),
  closed <- shut

KeepsLast == Window!Spec

\* The queue is what that cursor stands before: the newest messages.
QueueIsNewest ==
  \A i \in DOMAIN queue : queue[i] = received[Len(received) - Len(queue) + i]
=============================================================================
