----------------------------- MODULE MCContext -----------------------------
(* Instances of Context: three threads, a node, two handles. *)
EXTENDS Context

CONSTANTS t1, t2, t3, n1, h1, h2
=============================================================================
