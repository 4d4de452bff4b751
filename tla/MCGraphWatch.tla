---------------------------- MODULE MCGraphWatch ----------------------------
(* The instance of GraphWatch: the nodes have the same name. *)
EXTENDS MCGraphCache, GraphWatch

CONSTANT talker

MCNameOf == [n \in Node |-> talker]
Topics == {[name |-> chatter, type |-> str], [name |-> add, type |-> int]}
Questions ==
  [ask : {"nodes", "topics", "services"}]
  \cup [ask : {"by node"}, role : Role, name : {talker}]
  \cup [ask : {"info"}, role : {"pub", "sub"}, name : {chatter}]
  \cup [ask : {"servers"}, role : {"service", "client"}, name : {add}]
  \cup [ask : {"count"}, role : Role, name : {chatter, add}]
  \cup [ask : {"matched"}, role : {"pub", "sub"}, topic : Topics]
  \cup [ask : {"server"}, topic : Topics]
MCWatched == {
  [ask |-> "by node", role |-> "sub", name |-> talker],
  [ask |-> "matched", role |-> "pub", topic |-> [name |-> chatter, type |-> str]],
  [ask |-> "server", topic |-> [name |-> add, type |-> int]]}

-----------------------------------------------------------------------------
(* That a token stands for one entity, evaluated on some; the theorems of    *)
(* Liveliness_proofs are about all.                                          *)

L == INSTANCE LivelinessToken
       WITH InfiniteSec <- 9, InfiniteNsec <- 5, Char <- {"/", "a", "b"},
            Ident <- {<<"1">>, <<"2">>}

Names == {<<"/">>, <<"/", "a">>, <<"b">>}
Profiles ==
  {[L!default_qos EXCEPT !.reliability = r, !.depth = d, !.deadline.nsec = n,
                         !.liveliness = v] :
     r \in L!Reliability, d \in {0, 42}, n \in {0, 5}, v \in L!Liveliness}
Entities ==
  {[domain |-> 0, zid |-> <<"1">>, nid |-> <<"1">>, id |-> i, type |-> y, enclave |-> <<"/">>,
    ns |-> s, name |-> m,
    topic |-> IF y = "NN" THEN <<>>
              ELSE <<[name |-> t, type |-> <<"a">>, type_hash |-> <<"b">>, qos |-> q]>>] :
     i \in {<<"1">>, <<"2">>}, y \in L!EntityType, s \in Names, m \in Names, t \in Names,
     q \in {L!default_qos, [L!default_qos EXCEPT !.depth = 1]}}

ASSUME ProfilesAreRestored ==
  \A q \in Profiles : L!keyexpr_to_qos(L!qos_to_keyexpr(q)) = <<q>>
ASSUME AdaptingIsFinal ==
  \A q \in Profiles : L!is_supported(q) =>
    LET r == L!best_available_qos(q)[1] IN
    r.depth > 0 /\ r.reliability # "system_default" /\ L!best_available_qos(r) = <<r>>
ASSUME EntitiesAreRead ==
  \A e \in Entities : L!Made(e) /\ L!Parse(L!liveliness_keyexpr(e)) = <<e>>
\* Slashes at the ends do not matter to where messages go; nothing else is lost.
ASSUME TopicsAreApart ==
  LET key(s) == L!topic_keyexpr(0, [name |-> s, type |-> <<"a">>, type_hash |-> <<"b">>])
  IN /\ \A s, t \in Names : key(s) = key(t) => s = t
     /\ key(<<"a">>) = key(<<"/", "a">>)
=============================================================================
