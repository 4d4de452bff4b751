--------------------------- MODULE LivelinessToken ---------------------------
(***************************************************************************)
(* liveliness::Entity and the liveliness token that stands for it in the   *)
(* ROS graph: a key expression of parts, in which names have their slashes *)
(* mangled, and what the parser of another session makes of it.  GraphCache *)
(* has tokens that stand for entities one to one; this is what that rests  *)
(* on.                                                                     *)
(*                                                                         *)
(* A name is a sequence of characters.  An optional value is a sequence of *)
(* at most one.                                                            *)
(***************************************************************************)
EXTENDS QosProfile

CONSTANTS
  Char,   \* the characters of names
  Ident   \* session, node and entity identifiers

Slash == "/"
Percent == "%"

mangle_name(s) == [i \in DOMAIN s |-> IF s[i] = Slash THEN Percent ELSE s[i]]
demangle_name(s) == [i \in DOMAIN s |-> IF s[i] = Percent THEN Slash ELSE s[i]]

\* One leading and one trailing slash are taken off.
strip_slashes(s) ==
  SubSeq(s, IF s[1] = Slash THEN 2 ELSE 1,
            IF s[Len(s)] = Slash THEN Len(s) - 1 ELSE Len(s))

\* The key expression that the messages of a topic travel under.
topic_keyexpr(domain, t) == <<domain, strip_slashes(t.name), t.type, t.type_hash>>

EntityType == {"NN", "MP", "MS", "SS", "SC"}
IsNode(e) == e.type = "NN"

\* What Entity::make() accepts.
Made(e) ==
  /\ e.id # <<>> /\ e.type \in EntityType
  /\ e.ns # <<>> /\ e.name # <<>>
  /\ ~IsNode(e) => e.topic # <<>>

Names(e) ==
  LET a == mangle_name(e.enclave)
      b == mangle_name(e.ns)
      c == mangle_name(e.name)
      t == e.topic[1]
  IN IF e.topic = <<>> THEN <<a, b, c>>
     ELSE <<a, b, c, mangle_name(t.name), mangle_name(t.type), mangle_name(t.type_hash)>>

\* The parts before an empty one; the key expression ends there.
BeforeEmpty(parts) ==
  LET full == {n \in 0 .. Len(parts) : \A i \in 1 .. n : parts[i] # <<>>}
  IN SubSeq(parts, 1, CHOOSE n \in full : \A m \in full : m <= n)

\* Entity::Entity(): the key expression, in its parts.
liveliness_keyexpr(e) ==
  LET names == BeforeEmpty(Names(e)) IN
  [domain |-> e.domain, zid |-> e.zid, nid |-> e.nid, id |-> e.id, type |-> e.type,
   names |-> names,
   qos |-> IF Len(names) = 6 THEN <<qos_to_keyexpr(e.topic[1].qos)>> ELSE <<>>]

\* Entity::make(keyexpr): the entity, or nothing if the token is no good.
ParsedTopic(k) ==
  [name |-> demangle_name(k.names[4]), type |-> demangle_name(k.names[5]),
   type_hash |-> demangle_name(k.names[6]),
   qos |-> keyexpr_to_qos(k.qos[1])[1]]
Readable(k) ==
  /\ Len(k.names) >= 3 /\ k.type \in EntityType
  /\ k.type # "NN" =>
       Len(k.names) >= 6 /\ k.qos # <<>> /\ keyexpr_to_qos(k.qos[1]) # <<>>
Parse(k) ==
  IF ~Readable(k) THEN <<>>
  ELSE << [domain |-> k.domain, zid |-> k.zid, nid |-> k.nid, id |-> k.id,
           type |-> k.type,
           enclave |-> demangle_name(k.names[1]), ns |-> demangle_name(k.names[2]),
           name |-> demangle_name(k.names[3]),
           topic |-> IF k.type = "NN" THEN <<>> ELSE <<ParsedTopic(k)>>] >>

-----------------------------------------------------------------------------
(* The entities of sessions: rcl has let their names through, so none is     *)
(* empty or has a percent sign, and all but nodes have a topic.              *)

Name == Seq(Char \ {Percent}) \ {<<>>}
TopicInfo == [name : Name, type : Name, type_hash : Name, qos : Profile]
Entity ==
  {e \in [domain : Nat, zid : Ident, nid : Ident, id : Ident, type : EntityType,
          enclave : Name, ns : Name, name : Name,
          topic : {<<>>} \cup {<<t>> : t \in TopicInfo}] :
     IsNode(e) <=> e.topic = <<>>}
=============================================================================
