------------------------------ MODULE KeepLast ------------------------------
(***************************************************************************)
(* What the history QoS promises of the queue of a subscription, a service *)
(* or a client: the items that arrived are a log, and the reader has a     *)
(* cursor into it.  The reader sees every item in the order of arrival,    *)
(* except that with KEEP_LAST it skips the items that are more than Depth  *)
(* behind, and only those.                                                 *)
(***************************************************************************)
EXTENDS Integers, Sequences

CONSTANTS
  Item,       \* what arrives
  Depth,      \* the depth of the history
  KeepAll     \* KEEP_ALL: nothing is skipped

VARIABLES
  log,        \* every item that arrived, in order
  cursor,     \* how many of them the reader has read or skipped
  closed      \* shut down: nothing arrives and nothing is read

logVars == <<log, cursor, closed>>

Init == log = <<>> /\ cursor = 0 /\ closed = FALSE

Arrive(m) ==
  /\ ~closed
  /\ log' = Append(log, m)
  /\ cursor' = IF ~KeepAll /\ Len(log') - Depth > cursor THEN Len(log') - Depth ELSE cursor
  /\ UNCHANGED closed

Read ==
  /\ ~closed
  /\ cursor < Len(log)
  /\ cursor' = cursor + 1
  /\ UNCHANGED <<log, closed>>

Close == closed' = TRUE /\ UNCHANGED <<log, cursor>>

Next == (\E m \in Item : Arrive(m)) \/ Read \/ Close

Spec == Init /\ [][Next]_logVars
=============================================================================
