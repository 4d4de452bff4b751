---------------------------- MODULE MCServiceRpc ----------------------------
(* Instances of ServiceRpc: a client used by two threads and one used by one. *)
EXTENDS ServiceRpc, TLC

CONSTANTS talker, other, t1, t2, t3

MCClientOf == [t \in Thread |-> IF t = t3 THEN other ELSE talker]
MCMaxSeq == [c \in Client |-> IF c = talker THEN 2 ELSE 1]
=============================================================================
