----------------------------- MODULE MCPublish -----------------------------
(* Instances of Publish: two publishers that share the pool. *)
EXTENDS Publish, TLC

CONSTANTS p1, p2, t1, t2, b1, b2, b3

\* Each thread has a publisher of its own; they meet at the pool.
TwoPublisherOf == (t1 :> p1) @@ (t2 :> p2)

Addresses == Permutations(Buffer)
=============================================================================
