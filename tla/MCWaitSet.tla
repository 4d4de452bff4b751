----------------------------- MODULE MCWaitSet -----------------------------
(***************************************************************************)
(* Wait sets for TLC.  Sources and threads are model values, mutexes are   *)
(* named by strings; each Slots... definition is one system.               *)
(***************************************************************************)
EXTENDS WaitSet, TLC

CONSTANTS w1, w2, g1, e1, e2, q1, n1, n2

Threads == Permutations(Notifier)

\* Two executors of one process.  The second waits for a subscription; the first
\* for a guard condition and for an event of the EventsManager through which
\* that subscription reports lost messages as e2, which nobody waits for.
MutexTwo == [s \in Source |-> CASE s = g1 -> "gc" [] s = q1 -> "sub" [] s \in Event -> "sub events"]
LostTwo == [q \in Queue |-> e2]
SlotsTwo == [w \in Waiter |-> IF w = w1 THEN <<g1, e1>> ELSE <<q1>>]

\* One executor with a source of each sort.
MutexOne ==
  [s \in Source |-> CASE s = g1 -> "gc" [] s = q1 -> "service" [] s = e1 -> "pub events"]
LostOne == [q \in Queue |-> None]
SlotsOne == [w \in Waiter |-> <<g1, e1, q1>>]

\* A subscription and two events of its EventsManager in one wait set, e1 being
\* the MESSAGE_LOST event.
MutexOwn == [s \in Source |-> IF s \in Event THEN "sub events" ELSE "sub"]
LostOwn == [q \in Queue |-> e1]
SlotsOwn == [w \in Waiter |-> <<e1, e2, q1>>]
=============================================================================
