------------------------------ MODULE WaitSet ------------------------------
(***************************************************************************)
(* rmw_wait() and the threads that wake it.                                *)
(*                                                                         *)
(* A wait set owns condition_mutex, condition_variable and the flag        *)
(* triggered (rmw_wait_set_data_t).  Each source a wait set can wait on -- *)
(* a guard condition, an event status, or the queue of a subscription, a   *)
(* service or a client -- owns a mutex, a readiness flag and the pointer   *)
(* wait_set_data_ to the wait set it is attached to.  A waiter takes       *)
(* condition_mutex and then, one at a time, the mutex of each of its       *)
(* sources; a notifier takes the mutex of a source and then, when the      *)
(* source is attached, condition_mutex.                                    *)
(*                                                                         *)
(* One action is one critical section, or the part of one between two lock *)
(* acquisitions that may block.  A waiter is one thread with the wait set  *)
(* it passes to every rmw_wait, so the two share a name.                   *)
(***************************************************************************)
EXTENDS Naturals, Sequences

CONSTANTS
  Waiter,        \* threads that call rmw_wait, each with its own wait set
  Notifier,      \* zenoh callback threads and application threads
  Guard,         \* guard conditions
  Event,         \* (EventsManager, event type) pairs
  Queue,         \* queues of subscriptions, services and clients
  Mutex,         \* the mutexes of the sources
  MutexOf,       \* MutexOf[s] guards s; all events of a manager share theirs
  LostEvent,     \* LostEvent[q]: the MESSAGE_LOST event of subscription q
  Slots,         \* Slots[w]: the sources of w, in the order they are checked
  Shared,        \* sources other threads take from while a wait is in progress
  None           \* nullptr: no thread, no wait set, no event, no queue

Source == Guard \cup Event \cup Queue
Kind == {"forever", "timed", "never"}

ASSUME WaitSetAssumption ==
  /\ Guard \cap Event = {} /\ Guard \cap Queue = {} /\ Event \cap Queue = {}
  /\ MutexOf \in [Source -> Mutex]
  /\ LostEvent \in [Queue -> Event \cup {None}]
  /\ Slots \in [Waiter -> Seq(Source)]
  /\ Shared \subseteq Source
  /\ None \notin Waiter \cup Notifier \cup Source
  /\ Waiter \cap Notifier = {}
  \* Guard conditions, subscriptions, services and clients have a mutex each.
  /\ \A s, t \in Guard \cup Queue : MutexOf[s] = MutexOf[t] => s = t
  /\ \A s \in Guard \cup Queue, e \in Event : MutexOf[s] # MutexOf[e]

VARIABLES
  ready,      \* has_triggered_, changed, or the queue is not empty
  attached,   \* wait_set_data_
  owner,      \* the notifier inside the critical section of a mutex
  triggered,  \* rmw_wait_set_data_t::triggered
  wpc,        \* where a waiter is in rmw_wait
  slot,       \* the slot a waiter attaches or detaches next
  kind,       \* the timeout a waiter passed: null, positive or zero
  reported,   \* the slots rmw_wait leaves non-null for its caller
  npc,        \* where a notifier is
  src,        \* the source a notifier is raising
  outer       \* the subscription whose mutex_ is held around an event

waiterVars == <<triggered, wpc, slot, kind, reported>>
notifierVars == <<owner, npc, src, outer>>
vars == <<ready, attached, waiterVars, notifierVars>>

Sources(w) == {Slots[w][i] : i \in 1..Len(Slots[w])}

-----------------------------------------------------------------------------
(* Faults: what some definitions below would be with a slip in the code.   *)
(* No specification uses them; each breaks one of the properties.          *)

\* The scan runs without condition_mutex.
ScanUnlocked(w) == FALSE

\* condition_mutex is kept until everything is detached.
LockedWhileDetaching(w) == wpc[w] \in {"attach", "detach"}

\* A source that is not ready is skipped and not attached.
CheckOnly(w) ==
  LET s == Slots[w][slot[w]] IN
  /\ wpc[w] = "attach"
  /\ slot[w] <= Len(Slots[w])
  /\ owner[MutexOf[s]] = None
  /\ wpc' = [wpc EXCEPT ![w] = IF ready[s] THEN "detach" ELSE @]
  /\ slot' = [slot EXCEPT ![w] = IF ready[s] THEN 1 ELSE @ + 1]
  /\ UNCHANGED <<ready, attached, triggered, kind, reported, notifierVars>>

SleepWith(w, t, pc, i) ==
  /\ wpc[w] = "attach"
  /\ slot[w] > Len(Slots[w])
  /\ triggered' = [triggered EXCEPT ![w] = t]
  /\ wpc' = [wpc EXCEPT ![w] = pc]
  /\ slot' = [slot EXCEPT ![w] = i]
  /\ UNCHANGED <<ready, attached, kind, reported, notifierVars>>

\* triggered keeps its value; a zero timeout sleeps; detaching starts before
\* the first slot.
SleepUncleared(w) ==
  SleepWith(w, triggered[w], IF kind[w] = "never" THEN "detach" ELSE "sleep", 1)
SleepWithoutTimeout(w) == SleepWith(w, FALSE, "sleep", 1)
SleepFromZero(w) ==
  SleepWith(w, FALSE, IF kind[w] = "never" THEN "detach" ELSE "sleep", 0)

\* A timeout returns at once.
TimeoutReturns(w) ==
  /\ wpc[w] = "sleep"
  /\ kind[w] = "timed"
  /\ wpc' = [wpc EXCEPT ![w] = "idle"]
  /\ UNCHANGED <<ready, attached, triggered, slot, kind, reported, notifierVars>>

-----------------------------------------------------------------------------
\* condition_mutex of w is held by w itself: the notifiers' use of it is a
\* single step.  It is released in the condition variable's wait.
HoldsConditionMutex(w) == wpc[w] = "attach"

Init ==
  /\ ready = [s \in Source |-> FALSE]
  /\ attached = [s \in Source |-> None]
  /\ owner = [m \in Mutex |-> None]
  /\ triggered = [w \in Waiter |-> FALSE]
  /\ wpc = [w \in Waiter |-> "idle"]
  /\ slot = [w \in Waiter |-> 1]
  /\ kind = [w \in Waiter |-> "never"]
  /\ reported = [w \in Waiter |-> {}]
  /\ npc = [n \in Notifier |-> "idle"]
  /\ src = [n \in Notifier |-> None]
  /\ outer = [n \in Notifier |-> None]

-----------------------------------------------------------------------------
(* rmw_wait *)

\* Entry: the caller clears the arrays and rmw_wait locks condition_mutex.
Begin(w, k) ==
  /\ wpc[w] = "idle"
  /\ wpc' = [wpc EXCEPT ![w] = "attach"]
  /\ slot' = [slot EXCEPT ![w] = 1]
  /\ kind' = [kind EXCEPT ![w] = k]
  /\ reported' = [reported EXCEPT ![w] = {}]
  /\ UNCHANGED <<ready, attached, triggered, notifierVars>>

\* The critical section of X_and_attach_condition_if_not(): a ready source
\* ends the scan (skip_wait) and condition_mutex is released, triggered being
\* left as it is; a source that is not ready is attached.
CheckAndAttach(w) ==
  LET s == Slots[w][slot[w]] IN
  /\ wpc[w] = "attach"
  /\ slot[w] <= Len(Slots[w])
  /\ owner[MutexOf[s]] = None
  /\ \/ /\ ready[s]
        /\ wpc' = [wpc EXCEPT ![w] = "detach"]
        /\ slot' = [slot EXCEPT ![w] = 1]
        /\ UNCHANGED attached
     \/ /\ ~ready[s]
        /\ attached' = [attached EXCEPT ![s] = w]
        /\ slot' = [slot EXCEPT ![w] = @ + 1]
        /\ UNCHANGED wpc
  /\ UNCHANGED <<ready, triggered, kind, reported, notifierVars>>

\* Nothing was ready: triggered is cleared, and unless the timeout is zero the
\* thread sleeps on the condition variable, which releases condition_mutex.
Sleep(w) ==
  /\ wpc[w] = "attach"
  /\ slot[w] > Len(Slots[w])
  /\ triggered' = [triggered EXCEPT ![w] = FALSE]
  /\ wpc' = [wpc EXCEPT ![w] = IF kind[w] = "never" THEN "detach" ELSE "sleep"]
  /\ slot' = [slot EXCEPT ![w] = 1]
  /\ UNCHANGED <<ready, attached, kind, reported, notifierVars>>

\* The predicate of the wait holds; triggered is reset under condition_mutex.
\* A spurious wakeup with the predicate false goes back to sleep: a stutter.
Wake(w) ==
  /\ wpc[w] = "sleep"
  /\ triggered[w]
  /\ triggered' = [triggered EXCEPT ![w] = FALSE]
  /\ wpc' = [wpc EXCEPT ![w] = "detach"]
  /\ UNCHANGED <<ready, attached, slot, kind, reported, notifierVars>>

\* wait_for gives up, whether or not the predicate holds by then.
Timeout(w) ==
  /\ wpc[w] = "sleep"
  /\ kind[w] = "timed"
  /\ triggered' = [triggered EXCEPT ![w] = FALSE]
  /\ wpc' = [wpc EXCEPT ![w] = "detach"]
  /\ UNCHANGED <<ready, attached, slot, kind, reported, notifierVars>>

\* The critical section of detach_condition_and_X(): the source is detached
\* and its readiness reported; a guard condition is reset by being reported.
Detach(w) ==
  LET s == Slots[w][slot[w]] IN
  /\ wpc[w] = "detach"
  /\ slot[w] <= Len(Slots[w])
  /\ owner[MutexOf[s]] = None
  /\ attached' = [attached EXCEPT ![s] = None]
  /\ reported' = [reported EXCEPT ![w] = IF ready[s] THEN @ \cup {slot[w]} ELSE @]
  /\ ready' = [ready EXCEPT ![s] = @ /\ s \notin Guard]
  /\ slot' = [slot EXCEPT ![w] = @ + 1]
  /\ UNCHANGED <<triggered, wpc, kind, notifierVars>>

\* RMW_RET_OK when some slot is reported, RMW_RET_TIMEOUT otherwise.
Return(w) ==
  /\ wpc[w] = "detach"
  /\ slot[w] > Len(Slots[w])
  /\ wpc' = [wpc EXCEPT ![w] = "idle"]
  /\ UNCHANGED <<ready, attached, triggered, slot, kind, reported, notifierVars>>

-----------------------------------------------------------------------------
(* The consumers of what a wait reports *)

\* A message, a request or a response is taken; others may remain.
TakeData(q) ==
  /\ q \in Queue
  /\ ready[q]
  /\ owner[MutexOf[q]] = None
  /\ ready' \in {ready, [ready EXCEPT ![q] = FALSE]}

\* take_event_status() works under event_mutex_, not under the mutex the
\* attachment is guarded by.
TakeEvent(e) ==
  /\ e \in Event
  /\ ready[e]
  /\ ready' = [ready EXCEPT ![e] = FALSE]

Take(s) ==
  /\ s \in Shared \/ \A w \in Waiter : s \in Sources(w) => wpc[w] = "idle"
  /\ TakeData(s) \/ TakeEvent(s)
  /\ UNCHANGED <<attached, waiterVars, notifierVars>>

-----------------------------------------------------------------------------
(* The notifiers *)

\* The notifier enters the critical section of the source it will raise.
Enter(n, s) ==
  /\ npc[n] = "idle"
  /\ owner[MutexOf[s]] = None
  /\ owner' = [owner EXCEPT ![MutexOf[s]] = n]
  /\ src' = [src EXCEPT ![n] = s]
  /\ UNCHANGED <<ready, attached, waiterVars, outer>>

\* GuardCondition::trigger(): the flag is set first thing.
Trigger(n, g) ==
  /\ g \in Guard
  /\ Enter(n, g)
  /\ npc' = [npc EXCEPT ![n] = "fill"]

\* SubscriptionData::add_new_message(): it may first report lost messages.
AddNewMessage(n, q) ==
  /\ q \in Queue /\ LostEvent[q] # None
  /\ Enter(n, q)
  /\ \E pc \in {"lose", "fill"} : npc' = [npc EXCEPT ![n] = pc]

\* ServiceData::add_new_query() and ClientData::add_new_reply().
AddNewItem(n, q) ==
  /\ q \in Queue /\ LostEvent[q] = None
  /\ Enter(n, q)
  /\ npc' = [npc EXCEPT ![n] = "fill"]

\* The flag is set or the item queued, under the mutex of the source.
Fill(n) ==
  /\ npc[n] = "fill"
  /\ ready' = [ready EXCEPT ![src[n]] = TRUE]
  /\ npc' = [npc EXCEPT ![n] = "signal"]
  /\ UNCHANGED <<attached, waiterVars, owner, src, outer>>

\* update_event_status() from a graph change: changed is written under
\* event_mutex_, which is released before event_condition_mutex_ is taken.  A
\* waiter reads changed without event_mutex_; what it may see in that race is
\* the value before or after the write until notify_event synchronises with
\* it, which is the freedom of when this step happens.
UpdateEventStatus(n, e) ==
  /\ e \in Event
  /\ npc[n] = "idle"
  /\ ready' = [ready EXCEPT ![e] = TRUE]
  /\ src' = [src EXCEPT ![n] = e]
  /\ npc' = [npc EXCEPT ![n] = "raised"]
  /\ UNCHANGED <<attached, waiterVars, owner, outer>>

\* The same from add_new_message(), with mutex_ of the subscription held.
ReportLost(n) ==
  LET e == LostEvent[src[n]] IN
  /\ npc[n] = "lose"
  /\ ready' = [ready EXCEPT ![e] = TRUE]
  /\ outer' = [outer EXCEPT ![n] = src[n]]
  /\ src' = [src EXCEPT ![n] = e]
  /\ npc' = [npc EXCEPT ![n] = "raised"]
  /\ UNCHANGED <<attached, waiterVars, owner>>

\* notify_event() takes event_condition_mutex_.
EnterNotifyEvent(n) ==
  LET m == MutexOf[src[n]] IN
  /\ npc[n] = "raised"
  /\ owner[m] = None
  /\ owner' = [owner EXCEPT ![m] = n]
  /\ npc' = [npc EXCEPT ![n] = "signal"]
  /\ UNCHANGED <<ready, attached, waiterVars, src, outer>>

\* With the mutex of the source held: if the source is attached, set triggered
\* and notify under condition_mutex, which must be free; then leave.  After a
\* nested event the notifier goes on to queue the message.
Signal(n) ==
  LET s == src[n]
      w == attached[s]
  IN
  /\ npc[n] = "signal"
  /\ \/ /\ w = None
        /\ UNCHANGED triggered
     \/ /\ w # None
        /\ ~HoldsConditionMutex(w)
        /\ triggered' = [triggered EXCEPT ![w] = TRUE]
  /\ owner' = [owner EXCEPT ![MutexOf[s]] = None]
  /\ src' = [src EXCEPT ![n] = outer[n]]
  /\ outer' = [outer EXCEPT ![n] = None]
  /\ npc' = [npc EXCEPT ![n] = IF outer[n] = None THEN "idle" ELSE "fill"]
  /\ UNCHANGED <<ready, attached, wpc, slot, kind, reported>>

-----------------------------------------------------------------------------
WaiterStep(w) ==
  \/ \E k \in Kind : Begin(w, k)
  \/ CheckAndAttach(w)
  \/ Sleep(w)
  \/ Wake(w)
  \/ Timeout(w)
  \/ Detach(w)
  \/ Return(w)

NotifierStep(n) ==
  \/ \E s \in Source :
       Trigger(n, s) \/ AddNewMessage(n, s) \/ AddNewItem(n, s) \/ UpdateEventStatus(n, s)
  \/ Fill(n)
  \/ ReportLost(n)
  \/ EnterNotifyEvent(n)
  \/ Signal(n)

Next ==
  \/ \E w \in Waiter : WaiterStep(w)
  \/ \E n \in Notifier : NotifierStep(n)
  \/ \E s \in Source : Take(s)

Spec == Init /\ [][Next]_vars

\* A thread that can run does run, the timeout of a timed wait expires, and a
\* thread waiting for a mutex that is released again and again gets it in the
\* end (the one thing std::mutex leaves to the scheduler).  Nobody is obliged
\* to call rmw_wait, to take, or to raise anything.
Fairness ==
  /\ \A w \in Waiter :
       /\ SF_vars(CheckAndAttach(w)) /\ SF_vars(Detach(w))
       /\ WF_vars(Sleep(w)) /\ WF_vars(Wake(w)) /\ WF_vars(Return(w))
       /\ WF_vars(Timeout(w))
  /\ \A n \in Notifier :
       /\ WF_vars(Fill(n)) /\ WF_vars(ReportLost(n))
       /\ SF_vars(EnterNotifyEvent(n)) /\ SF_vars(Signal(n))

FairSpec == Spec /\ Fairness

-----------------------------------------------------------------------------
(* Properties *)

TypeOK ==
  /\ ready \in [Source -> BOOLEAN]
  /\ attached \in [Source -> Waiter \cup {None}]
  /\ owner \in [Mutex -> Notifier \cup {None}]
  /\ triggered \in [Waiter -> BOOLEAN]
  /\ wpc \in [Waiter -> {"idle", "attach", "sleep", "detach"}]
  /\ slot \in [Waiter -> Nat \ {0}]
  /\ kind \in [Waiter -> Kind]
  /\ reported \in [Waiter -> SUBSET Nat]
  /\ npc \in [Notifier -> {"idle", "lose", "fill", "raised", "signal"}]
  /\ src \in [Notifier -> Source \cup {None}]
  /\ outer \in [Notifier -> Queue \cup {None}]

\* A notifier has made s ready and not yet looked whether s is attached.
AboutToSignal(n, s) == npc[n] \in {"raised", "signal"} /\ src[n] = s

\* No lost wakeup: while a waiter sleeps, each of its sources that is ready
\* has set triggered or has a notifier on its way to do so.  This is what the
\* order in rmw_wait is for (attach, clear triggered, sleep, all of it under
\* condition_mutex), against data arriving at any point of the scan.
NoLostWakeup ==
  \A w \in Waiter : wpc[w] = "sleep" =>
    \A s \in Sources(w) :
      ready[s] => triggered[w] \/ \E n \in Notifier : AboutToSignal(n, s)

\* When rmw_wait has returned, no source points to its wait set, whichever way
\* the wait ended: the wait set may be destroyed, and the next rmw_wait finds
\* its sources detached, which is what keeps a notifier from blocking on the
\* condition_mutex of a waiter that has not got to its source yet.
NothingLeftAttached ==
  \A s \in Source, w \in Waiter : attached[s] = w => wpc[w] # "idle"

\* Thread t waits for a mutex that thread u holds.
BlockedOn(t, u) ==
  \/ /\ t \in Waiter /\ u \in Notifier
     /\ wpc[t] \in {"attach", "detach"}
     /\ slot[t] <= Len(Slots[t])
     /\ owner[MutexOf[Slots[t][slot[t]]]] = u
  \/ /\ t \in Notifier /\ u \in Waiter
     /\ npc[t] = "signal"
     /\ attached[src[t]] = u
     /\ HoldsConditionMutex(u)
  \/ /\ t \in Notifier /\ u \in Notifier
     /\ npc[t] = "raised"
     /\ owner[MutexOf[src[t]]] = u

\* No threads wait for each other in a circle, although waiters take
\* condition_mutex before the mutex of a source and notifiers the other way
\* round.  The code does not keep it for every wait set: two events of one
\* EventsManager, or a subscription after one of its events, are in its way.
NoLockCycle ==
  \A T \in SUBSET (Waiter \cup Notifier) : T # {} =>
    \E t \in T : \A u \in T : ~BlockedOn(t, u)

\* A wait without a timeout on guard conditions and queues that no other thread
\* empties returns only with something ready: triggered never outlives the
\* readiness that set it, whatever waits and timeouts went before.
NoEmptyReturn ==
  \A w \in Waiter :
    /\ wpc[w] = "idle" /\ kind[w] = "forever"
    /\ Sources(w) \cap (Event \cup Shared) = {}
    => reported[w] # {}

\* The same for every wait on sources that no other thread empties: "This also
\* deals with "spurious" wakeups, where the condition_variable was woken up even
\* though nothing in this wait_set became ready" (rmw_wait_set_data.hpp).
NoSpuriousReturn ==
  \A w \in Waiter :
    wpc[w] = "idle" /\ kind[w] = "forever" /\ Sources(w) \cap Shared = {}
    => reported[w] # {}

\* "If one of the entities became ready after we checked, the
\* condition_variable will notice it and not go to sleep"
\* (rmw_wait_set_data.hpp): such a wait returns.
ReadyAfterCheckIsNoticed ==
  \A w \in Waiter :
    (wpc[w] = "attach" /\ \E i \in 1..(slot[w] - 1) : ready[Slots[w][i]])
      ~> wpc[w] = "idle"

\* A sleeping wait returns once one of its sources is ready.
ReadyWakesSleeper ==
  \A w \in Waiter :
    (wpc[w] = "sleep" /\ \E s \in Sources(w) : ready[s]) ~> wpc[w] = "idle"

\* A wait with a timeout returns, whatever the notifiers do, when the sources of
\* the wait set have mutexes of their own: a timeout is no help in a scan that
\* waits for a mutex whose holder waits for the scan.
TimedWaitReturns ==
  \A w \in Waiter : (wpc[w] # "idle" /\ kind[w] # "forever") ~> wpc[w] = "idle"
=============================================================================
