--------------------------- MODULE AtMostOnceCall ---------------------------
(***************************************************************************)
(* What a client of a service is promised.  A request goes to every server *)
(* of the service, and each of these calls goes through its stages one     *)
(* after the other, at most once: it is sent, executed by the server,      *)
(* answered, and its answer delivered to the client that sent it.  At any  *)
(* stage it may be dropped, and then nothing more comes of it.             *)
(***************************************************************************)
CONSTANTS Request, Service

Call == Request \X Service

Stage == {"new", "sent", "executed", "answered", "delivered", "dropped"}

VARIABLE stage

Init == stage = [k \in Call |-> "new"]

\* All the calls of a request are sent together, or none is.
Send(r) ==
  /\ \A s \in Service : stage[<<r, s>>] = "new"
  /\ \E to \in {"sent", "dropped"} :
       stage' = [k \in Call |-> IF k[1] = r THEN to ELSE stage[k]]

Advance(k, from, to) == stage[k] = from /\ stage' = [stage EXCEPT ![k] = to]

Execute(k) == Advance(k, "sent", "executed")
Answer(k) == Advance(k, "executed", "answered")
Deliver(k) == Advance(k, "answered", "delivered")
Drop(k) == \E from \in {"sent", "executed", "answered"} : Advance(k, from, "dropped")

Next ==
  \/ \E r \in Request : Send(r)
  \/ \E k \in Call : Execute(k) \/ Answer(k) \/ Deliver(k) \/ Drop(k)

Spec == Init /\ [][Next]_stage
=============================================================================
