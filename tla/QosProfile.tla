----------------------------- MODULE QosProfile -----------------------------
(* QoS profiles: the defaults, what an entity's profile is adapted to, the   *)
(* form a profile has in a liveliness token, and compatibility.              *)
EXTENDS Integers, Sequences

CONSTANTS InfiniteSec, InfiniteNsec   \* RMW_DURATION_INFINITE

\* The policies that a token can carry: the keys of the maps from policies to
\* strings.
History == {"system_default", "keep_last", "keep_all", "unknown"}
Reliability ==
  {"system_default", "reliable", "best_effort", "unknown", "best_available"}
Durability ==
  {"system_default", "transient_local", "volatile", "unknown", "best_available"}
Liveliness ==
  {"system_default", "automatic", "manual_by_topic", "unknown", "best_available"}

\* The deprecated policy is in none of the maps.
AnyLiveliness == Liveliness \cup {"manual_by_node"}

Duration == [sec : Nat, nsec : Nat]
Profile == [history : History, depth : Nat, reliability : Reliability,
            durability : Durability, deadline : Duration, lifespan : Duration,
            liveliness : Liveliness, liveliness_lease_duration : Duration]

\* What an application may ask for.
Requested ==
  [history : History, depth : Nat, reliability : Reliability,
   durability : Durability, deadline : Duration, lifespan : Duration,
   liveliness : AnyLiveliness, liveliness_lease_duration : Duration]

Infinite == [sec |-> InfiniteSec, nsec |-> InfiniteNsec]
Unspecified == [sec |-> 0, nsec |-> 0]

default_qos ==
  [history |-> "keep_last", depth |-> 42, reliability |-> "reliable",
   durability |-> "volatile", deadline |-> Infinite, lifespan |-> Infinite,
   liveliness |-> "automatic", liveliness_lease_duration |-> Infinite]

is_supported(q) ==
  "unknown" \notin {q.history, q.reliability, q.durability, q.liveliness}

\* What is left to the system takes the default.  No result is nullopt: <<>>.
Or(v, unset, default) == IF v = unset THEN default ELSE v
best_available_qos(q) ==
  IF ~is_supported(q) THEN <<>>
  ELSE << [history |-> Or(q.history, "system_default", default_qos.history),
           depth |-> Or(q.depth, 0, default_qos.depth),
           reliability |-> Or(q.reliability, "system_default", default_qos.reliability),
           durability |-> Or(q.durability, "system_default", default_qos.durability),
           deadline |-> Or(q.deadline, Unspecified, default_qos.deadline),
           lifespan |-> Or(q.lifespan, Unspecified, default_qos.lifespan),
           liveliness |-> Or(q.liveliness, "system_default", default_qos.liveliness),
           liveliness_lease_duration |->
             Or(q.liveliness_lease_duration, Unspecified,
                default_qos.liveliness_lease_duration)] >>

\* rmw_qos_profile_check_compatible(): nothing is incompatible in zenoh.
check_compatible(pub, sub) ==
  IF pub.durability = "transient_local" /\ sub.durability = "volatile"
  THEN "warning" ELSE "ok"

-----------------------------------------------------------------------------
(* A profile in a token: each value between its delimiters, or nothing where *)
(* it is the default.                                                        *)

Elide(v, default) == IF v = default THEN <<>> ELSE <<v>>
Restore(text, default) == IF text = <<>> THEN default ELSE text[1]

ElideDuration(d, default) ==
  <<Elide(d.sec, default.sec), Elide(d.nsec, default.nsec)>>
RestoreDuration(parts, default) ==
  [sec |-> Restore(parts[1], default.sec), nsec |-> Restore(parts[2], default.nsec)]

qos_to_keyexpr(q) ==
  [reliability |-> Elide(q.reliability, default_qos.reliability),
   durability |-> Elide(q.durability, default_qos.durability),
   history |-> Elide(q.history, default_qos.history),
   depth |-> Elide(q.depth, default_qos.depth),
   deadline |-> ElideDuration(q.deadline, default_qos.deadline),
   lifespan |-> ElideDuration(q.lifespan, default_qos.lifespan),
   liveliness |-> Elide(q.liveliness, default_qos.liveliness),
   lease |-> ElideDuration(q.liveliness_lease_duration,
                           default_qos.liveliness_lease_duration)]

\* A policy that the maps do not have makes the whole unreadable: <<>>.
keyexpr_to_qos(k) ==
  LET q == [history |-> Restore(k.history, default_qos.history),
            depth |-> Restore(k.depth, default_qos.depth),
            reliability |-> Restore(k.reliability, default_qos.reliability),
            durability |-> Restore(k.durability, default_qos.durability),
            deadline |-> RestoreDuration(k.deadline, default_qos.deadline),
            lifespan |-> RestoreDuration(k.lifespan, default_qos.lifespan),
            liveliness |-> Restore(k.liveliness, default_qos.liveliness),
            liveliness_lease_duration |->
              RestoreDuration(k.lease, default_qos.liveliness_lease_duration)]
  IN IF /\ q.history \in History /\ q.reliability \in Reliability
        /\ q.durability \in Durability /\ q.liveliness \in Liveliness
     THEN <<q>> ELSE <<>>
=============================================================================
