------------------------------ MODULE MCPubSub ------------------------------
(* Instances of PubSub: two publishers, one of them used by two threads. *)
EXTENDS PubSub, TLC

CONSTANTS talker, other, t1, t2, t3

MCPublisherOf == (t1 :> talker) @@ (t2 :> talker) @@ (t3 :> other)
MCMaxSeq == (talker :> 4) @@ (other :> 2)
=============================================================================
