-------------------------- MODULE Liveliness_proofs --------------------------
(* What LivelinessToken and QosProfile promise, for every name and profile.  *)
EXTENDS LivelinessToken, TLAPS

-----------------------------------------------------------------------------
(* QoS profiles *)

LEMMA RestoreElided ==
  ASSUME NEW v, NEW d
  PROVE  Restore(Elide(v, d), d) = v
<1>1. CASE v = d
  BY <1>1 DEF Restore, Elide
<1>2. CASE v # d
  BY <1>2 DEF Restore, Elide
<1> QED BY <1>1, <1>2

LEMMA RestoreElidedDuration ==
  ASSUME NEW v \in Duration, NEW d
  PROVE  RestoreDuration(ElideDuration(v, d), d) = v
<1>1. RestoreDuration(ElideDuration(v, d), d) = [sec |-> v.sec, nsec |-> v.nsec]
  BY RestoreElided DEF RestoreDuration, ElideDuration
<1> QED BY <1>1 DEF Duration

\* A QoS profile is read from a token as it was written into it, though
\* everything that has its default is left out: qos_to_keyexpr() and
\* keyexpr_to_qos() agree on what the default is for each field.
THEOREM QosIsRestored ==
  ASSUME NEW q \in Profile
  PROVE  keyexpr_to_qos(qos_to_keyexpr(q)) = <<q>>
<1> DEFINE k == qos_to_keyexpr(q)
           r == [history |-> Restore(k.history, default_qos.history),
            depth |-> Restore(k.depth, default_qos.depth),
            reliability |-> Restore(k.reliability, default_qos.reliability),
            durability |-> Restore(k.durability, default_qos.durability),
            deadline |-> RestoreDuration(k.deadline, default_qos.deadline),
            lifespan |-> RestoreDuration(k.lifespan, default_qos.lifespan),
            liveliness |-> Restore(k.liveliness, default_qos.liveliness),
            liveliness_lease_duration |->
              RestoreDuration(k.lease, default_qos.liveliness_lease_duration)]
<1>1. /\ q.deadline \in Duration /\ q.lifespan \in Duration
      /\ q.liveliness_lease_duration \in Duration
  BY DEF Profile
<1>2. /\ k.history = Elide(q.history, default_qos.history)
      /\ k.depth = Elide(q.depth, default_qos.depth)
      /\ k.reliability = Elide(q.reliability, default_qos.reliability)
      /\ k.durability = Elide(q.durability, default_qos.durability)
      /\ k.deadline = ElideDuration(q.deadline, default_qos.deadline)
      /\ k.lifespan = ElideDuration(q.lifespan, default_qos.lifespan)
      /\ k.liveliness = Elide(q.liveliness, default_qos.liveliness)
      /\ k.lease = ElideDuration(q.liveliness_lease_duration,
                                 default_qos.liveliness_lease_duration)
  BY DEF qos_to_keyexpr
<1>3. r = [history |-> q.history, depth |-> q.depth, reliability |-> q.reliability,
           durability |-> q.durability, deadline |-> q.deadline,
           lifespan |-> q.lifespan, liveliness |-> q.liveliness,
           liveliness_lease_duration |-> q.liveliness_lease_duration]
  <2> HIDE DEF k
  <2> QED BY <1>1, <1>2, RestoreElided, RestoreElidedDuration
<1>4. r = q
  <2> HIDE DEF r
  <2> QED BY <1>3 DEF Profile
<1>5. keyexpr_to_qos(k) = IF /\ r.history \in History /\ r.reliability \in Reliability
                              /\ r.durability \in Durability /\ r.liveliness \in Liveliness
                           THEN <<r>> ELSE <<>>
  BY DEF keyexpr_to_qos
<1> HIDE DEF r, k
<1> QED BY <1>4, <1>5 DEF Profile, k

\* What an entity is made with says everything: no policy is left to the
\* system or unknown, the depth of the queue is not 0, so that KEEP_LAST keeps
\* something, and no duration is unspecified.  Adapting it again changes nothing.
THEOREM AdaptedQosIsComplete ==
  ASSUME NEW q \in Requested, is_supported(q),
         InfiniteSec \in Nat \ {0}, InfiniteNsec \in Nat
  PROVE  LET r == best_available_qos(q)[1] IN
         /\ r \in Requested
         /\ {"system_default", "unknown"} \cap
              {r.history, r.reliability, r.durability, r.liveliness} = {}
         /\ r.depth > 0
         /\ Unspecified \notin {r.deadline, r.lifespan, r.liveliness_lease_duration}
         /\ best_available_qos(r) = <<r>>
<1> DEFINE r == [history |-> Or(q.history, "system_default", default_qos.history),
           depth |-> Or(q.depth, 0, default_qos.depth),
           reliability |-> Or(q.reliability, "system_default", default_qos.reliability),
           durability |-> Or(q.durability, "system_default", default_qos.durability),
           deadline |-> Or(q.deadline, Unspecified, default_qos.deadline),
           lifespan |-> Or(q.lifespan, Unspecified, default_qos.lifespan),
           liveliness |-> Or(q.liveliness, "system_default", default_qos.liveliness),
           liveliness_lease_duration |->
             Or(q.liveliness_lease_duration, Unspecified,
                default_qos.liveliness_lease_duration)]
<1>1. best_available_qos(q) = <<r>>
  BY DEF best_available_qos
<1>2. Infinite \in Duration /\ Infinite # Unspecified
  BY DEF Infinite, Unspecified, Duration
<1>3. /\ r.history \in History \ {"system_default", "unknown"}
      /\ r.reliability \in Reliability \ {"system_default", "unknown"}
      /\ r.durability \in Durability \ {"system_default", "unknown"}
      /\ r.liveliness \in AnyLiveliness \ {"system_default", "unknown"}
  BY DEF Or, is_supported, Requested, History, Reliability, Durability,
         Liveliness, AnyLiveliness, default_qos
<1>4. r.depth \in Nat /\ r.depth > 0
  BY DEF Or, Requested, default_qos
<1>5. /\ r.deadline \in Duration \ {Unspecified}
      /\ r.lifespan \in Duration \ {Unspecified}
      /\ r.liveliness_lease_duration \in Duration \ {Unspecified}
  BY <1>2 DEF Or, Requested, default_qos
<1>6. r = [history |-> r.history, depth |-> r.depth, reliability |-> r.reliability,
           durability |-> r.durability, deadline |-> r.deadline,
           lifespan |-> r.lifespan, liveliness |-> r.liveliness,
           liveliness_lease_duration |-> r.liveliness_lease_duration]
  OBVIOUS
<1> HIDE DEF r
<1>7. r \in Requested
  BY <1>3, <1>4, <1>5, <1>6 DEF Requested
<1>8. {"system_default", "unknown"} \cap
        {r.history, r.reliability, r.durability, r.liveliness} = {}
  BY <1>3
<1>9. best_available_qos(r) = <<r>>
  <2>1. is_supported(r)
    BY <1>3 DEF is_supported
  <2>2. /\ Or(r.history, "system_default", default_qos.history) = r.history
        /\ Or(r.reliability, "system_default", default_qos.reliability) = r.reliability
        /\ Or(r.durability, "system_default", default_qos.durability) = r.durability
        /\ Or(r.liveliness, "system_default", default_qos.liveliness) = r.liveliness
        /\ Or(r.depth, 0, default_qos.depth) = r.depth
    BY <1>3, <1>4 DEF Or
  <2>3. /\ Or(r.deadline, Unspecified, default_qos.deadline) = r.deadline
        /\ Or(r.lifespan, Unspecified, default_qos.lifespan) = r.lifespan
        /\ Or(r.liveliness_lease_duration, Unspecified,
              default_qos.liveliness_lease_duration) = r.liveliness_lease_duration
    BY <1>5 DEF Or
  <2> QED BY <2>1, <2>2, <2>3, <1>6 DEF best_available_qos
<1>10. best_available_qos(q)[1] = r
  BY <1>1
<1> QED BY <1>4, <1>5, <1>7, <1>8, <1>9, <1>10

-----------------------------------------------------------------------------
(* Tokens *)

LEMMA DemangleMangled ==
  ASSUME NEW s \in Name
  PROVE  demangle_name(mangle_name(s)) = s
<1>1. s \in Seq(Char \ {Percent})
  BY DEF Name
<1>2. \A i \in 1 .. Len(s) : s[i] # Percent
  BY <1>1
<1>3. DOMAIN s = 1 .. Len(s) /\ s = [i \in 1 .. Len(s) |-> s[i]]
  BY <1>1
<1>4. \A i \in 1 .. Len(s) :
        (IF mangle_name(s)[i] = Percent THEN Slash ELSE mangle_name(s)[i]) = s[i]
  BY <1>2, <1>3 DEF mangle_name, Slash, Percent
<1>5. DOMAIN mangle_name(s) = 1 .. Len(s)
  BY <1>3 DEF mangle_name
<1> QED BY <1>3, <1>4, <1>5 DEF demangle_name

\* A mangled name is a single, non-empty part of a key expression: it has no
\* slash, so that splitting the token gives back its parts.
LEMMA MangledIsOnePart ==
  ASSUME NEW s \in Name
  PROVE  /\ mangle_name(s) # <<>>
         /\ \A i \in DOMAIN mangle_name(s) : mangle_name(s)[i] # Slash
<1>1. s \in Seq(Char \ {Percent}) /\ s # <<>>
  BY DEF Name
<1>2. DOMAIN mangle_name(s) = DOMAIN s /\ 1 \in DOMAIN s
  BY <1>1 DEF mangle_name
<1>3. mangle_name(s) # <<>>
  BY <1>2
<1>4. \A i \in DOMAIN s : mangle_name(s)[i] # Slash
  BY DEF mangle_name, Slash, Percent
<1> QED BY <1>2, <1>3, <1>4

LEMMA NothingIsEmpty ==
  ASSUME NEW S, NEW parts \in Seq(S), \A i \in 1 .. Len(parts) : parts[i] # <<>>
  PROVE  BeforeEmpty(parts) = parts
<1> DEFINE full == {n \in 0 .. Len(parts) : \A i \in 1 .. n : parts[i] # <<>>}
           n == CHOOSE n \in full : \A m \in full : m <= n
<1>1. Len(parts) \in full
  OBVIOUS
<1>2. \A m \in full : m <= Len(parts)
  OBVIOUS
<1>3. n \in full /\ \A m \in full : m <= n
  <2> HIDE DEF full
  <2> QED BY <1>1, <1>2
<1>4. n = Len(parts)
  <2>1. n <= Len(parts) /\ Len(parts) <= n /\ n \in 0 .. Len(parts)
    <3> HIDE DEF n
    <3> QED BY <1>1, <1>3
  <2> HIDE DEF n
  <2> QED BY <2>1
<1>5. BeforeEmpty(parts) = SubSeq(parts, 1, n)
  BY DEF BeforeEmpty
<1> HIDE DEF n
<1>6. SubSeq(parts, 1, Len(parts)) = parts
  OBVIOUS
<1> QED BY <1>4, <1>5, <1>6

LEMMA NamesOfNode ==
  ASSUME NEW e \in Entity, IsNode(e)
  PROVE  liveliness_keyexpr(e).names =
           <<mangle_name(e.enclave), mangle_name(e.ns), mangle_name(e.name)>>
<1> DEFINE a == mangle_name(e.enclave)
           b == mangle_name(e.ns)
           c == mangle_name(e.name)
<1>1. e.enclave \in Name /\ e.ns \in Name /\ e.name \in Name /\ e.topic = <<>>
  BY DEF Entity
<1>2. a # <<>> /\ b # <<>> /\ c # <<>>
  BY <1>1, MangledIsOnePart
<1>3. Names(e) = <<a, b, c>>
  BY <1>1 DEF Names
<1> HIDE DEF a, b, c
<1>4. <<a, b, c>> \in Seq({a, b, c})
  OBVIOUS
<1>5. BeforeEmpty(<<a, b, c>>) = <<a, b, c>>
  <2>1. \A i \in 1 .. Len(<<a, b, c>>) : <<a, b, c>>[i] # <<>>
    BY <1>2
  <2> QED BY <1>4, <2>1, NothingIsEmpty
<1> QED BY <1>3, <1>4, <1>5 DEF liveliness_keyexpr, a, b, c

LEMMA NamesOfEndpoint ==
  ASSUME NEW e \in Entity, ~IsNode(e)
  PROVE  /\ e.topic[1] \in TopicInfo /\ e.topic = <<e.topic[1]>>
         /\ liveliness_keyexpr(e).names =
              <<mangle_name(e.enclave), mangle_name(e.ns), mangle_name(e.name),
                mangle_name(e.topic[1].name), mangle_name(e.topic[1].type),
                mangle_name(e.topic[1].type_hash)>>
         /\ liveliness_keyexpr(e).qos = <<qos_to_keyexpr(e.topic[1].qos)>>
<1> DEFINE a == mangle_name(e.enclave)
           b == mangle_name(e.ns)
           c == mangle_name(e.name)
           t == e.topic[1]
           f == mangle_name(t.name)
           g == mangle_name(t.type)
           h == mangle_name(t.type_hash)
           N == <<a, b, c, f, g, h>>
<1>1. e.enclave \in Name /\ e.ns \in Name /\ e.name \in Name /\ e.topic # <<>>
      /\ e.topic \in {<<>>} \cup {<<u>> : u \in TopicInfo}
  BY DEF Entity
<1>2. PICK u \in TopicInfo : e.topic = <<u>>
  BY <1>1
<1>3. t = u /\ t \in TopicInfo /\ e.topic = <<t>>
  BY <1>2
<1> HIDE DEF t
<1>4. t.name \in Name /\ t.type \in Name /\ t.type_hash \in Name
  BY <1>3 DEF TopicInfo
<1>5. a # <<>> /\ b # <<>> /\ c # <<>> /\ f # <<>> /\ g # <<>> /\ h # <<>>
  BY <1>1, <1>4, MangledIsOnePart
<1>6. Names(e) = N
  BY <1>1 DEF Names, t
<1> HIDE DEF a, b, c, f, g, h
<1>7. N \in Seq({a, b, c, f, g, h}) /\ Len(N) = 6
  OBVIOUS
<1>8. BeforeEmpty(N) = N
  <2>1. \A i \in 1 .. Len(N) : N[i] # <<>>
    BY <1>5
  <2> HIDE DEF N
  <2> QED BY <1>7, <2>1, NothingIsEmpty
<1> HIDE DEF N
<1>9. /\ liveliness_keyexpr(e).names = N
      /\ liveliness_keyexpr(e).qos = <<qos_to_keyexpr(t.qos)>>
  BY <1>6, <1>7, <1>8 DEF liveliness_keyexpr, t
<1> QED BY <1>3, <1>9 DEF N, a, b, c, f, g, h, t

\* Every entity that rcl lets through is read by another session from its token
\* as it is, so a graph cache that knows the token knows the entity.
THEOREM EntityIsRead ==
  ASSUME NEW e \in Entity
  PROVE  Parse(liveliness_keyexpr(e)) = <<e>>
<1> DEFINE k == liveliness_keyexpr(e)
           topic == IF k.type = "NN" THEN <<>> ELSE <<ParsedTopic(k)>>
           r == [domain |-> k.domain, zid |-> k.zid, nid |-> k.nid, id |-> k.id,
                 type |-> k.type,
                 enclave |-> demangle_name(k.names[1]), ns |-> demangle_name(k.names[2]),
                 name |-> demangle_name(k.names[3]), topic |-> topic]
<1>1. /\ k.domain = e.domain /\ k.zid = e.zid /\ k.nid = e.nid /\ k.id = e.id
      /\ k.type = e.type
  BY DEF liveliness_keyexpr
<1>2. /\ e.enclave \in Name /\ e.ns \in Name /\ e.name \in Name
      /\ e.type \in EntityType
  BY DEF Entity
<1>3. Readable(k) /\ topic = e.topic
      /\ k.names[1] = mangle_name(e.enclave) /\ k.names[2] = mangle_name(e.ns)
      /\ k.names[3] = mangle_name(e.name)
  <2>1. CASE IsNode(e)
    <3>1. k.names = <<mangle_name(e.enclave), mangle_name(e.ns), mangle_name(e.name)>>
      BY <2>1, NamesOfNode
    <3>2. e.type = "NN" /\ e.topic = <<>>
      BY <2>1 DEF Entity, IsNode
    <3> HIDE DEF k
    <3>3. Len(k.names) = 3
      BY <3>1
    <3> QED BY <1>1, <1>2, <3>1, <3>2, <3>3 DEF Readable
  <2>2. CASE ~IsNode(e)
    <3> DEFINE t == e.topic[1]
    <3>1. /\ t \in TopicInfo /\ e.topic = <<t>>
          /\ k.names = <<mangle_name(e.enclave), mangle_name(e.ns),
                         mangle_name(e.name), mangle_name(t.name),
                         mangle_name(t.type), mangle_name(t.type_hash)>>
          /\ k.qos = <<qos_to_keyexpr(t.qos)>>
      BY <2>2, NamesOfEndpoint
    <3>2. e.type # "NN"
      BY <2>2 DEF IsNode
    <3> HIDE DEF k, t
    <3>3. Len(k.names) = 6 /\ k.qos # <<>> /\ k.qos[1] = qos_to_keyexpr(t.qos)
      BY <3>1
    <3>4. t.qos \in Profile /\ t.name \in Name /\ t.type \in Name /\ t.type_hash \in Name
      BY <3>1 DEF TopicInfo
    <3>5. keyexpr_to_qos(k.qos[1]) = <<t.qos>>
      BY <3>3, <3>4, QosIsRestored
    <3>6. Readable(k)
      BY <1>1, <1>2, <3>2, <3>3, <3>5 DEF Readable
    <3>7. ParsedTopic(k) = [name |-> t.name, type |-> t.type,
                            type_hash |-> t.type_hash, qos |-> t.qos]
      <4>1. /\ demangle_name(k.names[4]) = t.name
            /\ demangle_name(k.names[5]) = t.type
            /\ demangle_name(k.names[6]) = t.type_hash
        BY <3>1, <3>4, DemangleMangled
      <4>2. keyexpr_to_qos(k.qos[1])[1] = t.qos
        BY <3>5
      <4> QED BY <4>1, <4>2 DEF ParsedTopic
    <3>8. ParsedTopic(k) = t
      BY <3>1, <3>7 DEF TopicInfo
    <3> QED BY <1>1, <3>1, <3>2, <3>6, <3>8
  <2> QED BY <2>1, <2>2
<1>4. Parse(k) = <<r>>
  BY <1>3 DEF Parse
<1>5. r = [domain |-> e.domain, zid |-> e.zid, nid |-> e.nid, id |-> e.id,
           type |-> e.type, enclave |-> e.enclave, ns |-> e.ns, name |-> e.name,
           topic |-> e.topic]
  <2> HIDE DEF k, topic
  <2> QED BY <1>1, <1>2, <1>3, DemangleMangled
<1>6. r = e
  <2> HIDE DEF r
  <2> QED BY <1>5 DEF Entity
<1> QED BY <1>4, <1>6

\* No two entities have one token: what the graph cache and the GIDs made from
\* tokens tell apart is exactly what is different.
THEOREM TokensTellApart ==
  ASSUME NEW d \in Entity, NEW e \in Entity,
         liveliness_keyexpr(d) = liveliness_keyexpr(e)
  PROVE  d = e
<1>1. <<d>> = <<e>>
  BY EntityIsRead
<1> QED BY <1>1
=============================================================================
