------------------------------- MODULE Publish -------------------------------
(***************************************************************************)
(* rmw_publish(), rmw_publish_serialized_message() and the memory that     *)
(* messages are serialized into.                                           *)
(*                                                                         *)
(* A call looks its publisher up in the map of the node, which gives it a  *)
(* reference, and takes mutex_, which it holds to its end.  A message is   *)
(* serialized into shared memory, into a buffer of the pool that every     *)
(* publisher of the context shares, or into memory of its own, and the     *)
(* payload is handed to zenoh.  zenoh keeps it for as long as it likes (in *)
(* a transmission queue, a cache, a subscription's queue) and then calls   *)
(* the deleter, which returns the buffer to the pool or frees it.  The     *)
(* deleter holds a reference to the pool, which so outlives the context.   *)
(*                                                                         *)
(* rmw_destroy_publisher() takes the publisher out of the map.  Nothing    *)
(* but its destructor calls PublisherData::shutdown(), so it is whoever    *)
(* drops the last reference that shuts it down.                            *)
(***************************************************************************)
EXTENDS Integers, Sequences, FiniteSetsExt

CONSTANTS
  Publisher, Thread,
  PublisherOf,  \* the publisher a thread uses
  Buffer,       \* addresses malloc may return
  Size,         \* serialized sizes of messages
  MaxSize,      \* max_size_ of the pool
  Threshold,    \* msgsize_threshold, or more than any size without ShmContext
  MaxSeq,       \* bound: messages a publisher puts
  MemoryShort,  \* malloc and realloc may fail
  None, Shm     \* no memory, and shared memory

ASSUME PublishAssumption ==
  /\ IsFiniteSet(Buffer)
  /\ PublisherOf \in [Thread -> Publisher]
  /\ Size \subseteq Nat \ {0}
  /\ MaxSize \in Nat /\ Threshold \in Nat /\ MaxSeq \in Nat
  /\ MemoryShort \in BOOLEAN
  /\ None \notin Buffer \cup Thread /\ Shm \notin Buffer \cup {None}

VARIABLES
  known,        \* pubs_ of the node has the publisher
  mutex,        \* the thread that holds mutex_ of a publisher
  shut,         \* is_shutdown_; sess_ is null from then on
  next,         \* sequence_number_
  pc,           \* where in a call a thread is
  want,         \* max_data_length
  got,          \* msg_bytes
  pooled,       \* whether pool_buf has it
  memory,       \* addresses allocated and not freed
  length,       \* how many bytes are there
  content,      \* the message serialized there
  buffers,      \* buffers_ of the pool
  size,         \* size_ of the pool
  context,      \* the context has its reference to the pool
  flying,       \* payloads zenoh holds
  refused,      \* history: the pool dropped a buffer it could not grow
  failed        \* history: malloc or realloc failed, or a serialization did

threads == <<pc, want, got, pooled>>
pool == <<buffers, size>>
heap == <<memory, length, content>>
past == <<refused, failed>>
vars == <<known, mutex, shut, next, threads, heap, pool, context, flying, past>>

Payload == [pub : Publisher, seq : Nat, buf : Buffer, pooled : BOOLEAN]
Pc == {"idle", "found", "allocate", "serialize", "put", "copy"}

\* The threads with a reference to the data of p.
Users(p) == {t \in Thread : PublisherOf[t] = p /\ pc[t] # "idle"}

\* Who has which memory.  What is not a thread's or zenoh's own is the pool's.
Held == {t \in Thread : got[t] \in Buffer}
InPool == {buffers[i] : i \in DOMAIN buffers}
OwnMemory == {got[t] : t \in {u \in Held : ~pooled[u]}}
               \cup {m.buf : m \in {n \in flying : ~n.pooled}}
SizeOf(S) == MapThenSumSet(LAMBDA b : length[b], S)
Owned == InPool \cup {got[t] : t \in Held} \cup {m.buf : m \in flying}

-----------------------------------------------------------------------------
(* The pool *)

Newest == buffers[Len(buffers)]
Others == SubSeq(buffers, 1, Len(buffers) - 1)

\* malloc returns an address that is not in use.
Malloc(b, n) ==
  /\ b \in Buffer \ memory
  /\ memory' = memory \cup {b}
  /\ length' = [length EXCEPT ![b] = n]
  /\ content' = [content EXCEPT ![b] = None]

\* BufferPool::allocate() with nothing to recycle.
AllocateNew(n, b) ==
  /\ buffers = <<>>
  /\ size + n <= MaxSize
  /\ size' = size + n
  /\ Malloc(b, n)
  /\ UNCHANGED <<buffers, past>>

\* A fault (see below): a buffer that grows is not accounted for.
RecycleUncounted(n, b) ==
  /\ buffers # <<>> /\ b = Newest
  /\ buffers' = Others
  /\ length' = [length EXCEPT ![b] = IF @ < n THEN n ELSE @]
  /\ UNCHANGED <<size, memory, content, past>>

\* The buffer used last is recycled, and grows when it has to.
Recycle(n, b) ==
  /\ buffers # <<>> /\ b = Newest
  /\ buffers' = Others
  /\ LET more == IF length[b] < n THEN n - length[b] ELSE 0 IN
     /\ size + more <= MaxSize \/ more = 0
     /\ size' = size + more
     /\ length' = [length EXCEPT ![b] = @ + more]
  /\ UNCHANGED <<memory, content, past>>

AllocateFromPool(n, b) == AllocateNew(n, b) \/ Recycle(n, b)

\* allocate() returns nullopt: the limit is reached, or memory is short.  A
\* buffer taken from the pool that may not or cannot grow is dropped; a size
\* accounted for before malloc failed stays accounted for.
AllocateFails(n) ==
  \/ /\ buffers = <<>>
     /\ size + n > MaxSize
     /\ UNCHANGED <<pool, past>>
  \/ /\ MemoryShort
     /\ buffers = <<>> /\ size + n <= MaxSize
     /\ size' = size + n /\ failed' = TRUE
     /\ UNCHANGED <<buffers, refused>>
  \/ /\ buffers # <<>>
     /\ length[Newest] < n
     /\ IF size + n - length[Newest] > MaxSize THEN UNCHANGED failed
        ELSE MemoryShort /\ failed' = TRUE
     /\ refused' = TRUE
     /\ buffers' = Others
     /\ UNCHANGED size

\* ~BufferPool(): the last reference is gone.
Unreferenced(f) == ~context /\ {m \in f : m.pooled} = {}

-----------------------------------------------------------------------------
(* Faults: what some definitions below (and Recycle) would be with a slip  *)
(* in the code.  No specification uses them; each breaks one of the         *)
(* properties.                                                             *)

\* rmw_destroy_publisher() shuts the publisher down, whoever else has it.
DestroyAtOnce(p) ==
  /\ known[p] /\ mutex[p] = None
  /\ known' = [known EXCEPT ![p] = FALSE]
  /\ shut' = [shut EXCEPT ![p] = TRUE]
  /\ UNCHANGED <<mutex, next, threads, heap, pool, context, flying, past>>

\* The buffer goes back to the pool as soon as it has been put.
PutAndReturn(t) ==
  LET p == PublisherOf[t] IN
  /\ pc[t] = "put" /\ got[t] # Shm
  /\ flying' = flying \cup
       {[pub |-> p, seq |-> next[p], buf |-> got[t], pooled |-> pooled[t]]}
  /\ buffers' = IF pooled[t] THEN Append(buffers, got[t]) ELSE buffers
  /\ next' = [next EXCEPT ![p] = @ + 1]
  /\ mutex' = [mutex EXCEPT ![p] = None]
  /\ pc' = [pc EXCEPT ![t] = "idle"]
  /\ got' = [got EXCEPT ![t] = None]
  /\ pooled' = [pooled EXCEPT ![t] = FALSE]
  /\ want' = [want EXCEPT ![t] = 0]
  /\ UNCHANGED <<known, shut, heap, size, context, past>>

\* The deleter of ordinary memory is attached to shared memory as well.
PutSharedAsOwn(t) ==
  LET p == PublisherOf[t] IN
  /\ pc[t] = "put"
  /\ flying' = flying \cup
       {[pub |-> p, seq |-> next[p], buf |-> got[t], pooled |-> pooled[t]]}
  /\ next' = [next EXCEPT ![p] = @ + 1]
  /\ mutex' = [mutex EXCEPT ![p] = None]
  /\ pc' = [pc EXCEPT ![t] = "idle"]
  /\ got' = [got EXCEPT ![t] = None]
  /\ pooled' = [pooled EXCEPT ![t] = FALSE]
  /\ want' = [want EXCEPT ![t] = 0]
  /\ UNCHANGED <<known, shut, heap, pool, context, past>>

\* The deleter has no reference to the pool, and does nothing without it.
ReleaseWithContext(m) ==
  /\ flying' = flying \ {m}
  /\ IF m.pooled /\ context
     THEN buffers' = Append(buffers, m.buf) /\ UNCHANGED memory
     ELSE /\ memory' = IF m.pooled THEN memory ELSE memory \ {m.buf}
          /\ UNCHANGED buffers
  /\ UNCHANGED <<known, mutex, shut, next, threads, length, content, size,
                 context, past>>

-----------------------------------------------------------------------------
Init ==
  /\ known = [p \in Publisher |-> TRUE]
  /\ mutex = [p \in Publisher |-> None]
  /\ shut = [p \in Publisher |-> FALSE]
  /\ next = [p \in Publisher |-> 1]
  /\ pc = [t \in Thread |-> "idle"]
  /\ want = [t \in Thread |-> 0]
  /\ got = [t \in Thread |-> None]
  /\ pooled = [t \in Thread |-> FALSE]
  /\ memory = {}
  /\ length = [b \in Buffer |-> 0]
  /\ content = [b \in Buffer |-> None]
  /\ buffers = <<>> /\ size = 0
  /\ context = TRUE
  /\ flying = {}
  /\ refused = FALSE /\ failed = FALSE

\* Whoever drops the last reference to the data of a publisher that is out of
\* the map runs the destructor, and with it shutdown().
DropReference(t) ==
  LET p == PublisherOf[t] IN
  shut' = [shut EXCEPT ![p] = @ \/ (~known[p] /\ Users(p) = {t})]

\* A call that has the mutex gives it up and returns.
Return(t) ==
  /\ mutex' = [mutex EXCEPT ![PublisherOf[t]] = None]
  /\ pc' = [pc EXCEPT ![t] = "idle"]
  /\ got' = [got EXCEPT ![t] = None]
  /\ pooled' = [pooled EXCEPT ![t] = FALSE]
  /\ want' = [want EXCEPT ![t] = 0]
  /\ DropReference(t)

\* rmw_publish() or rmw_publish_serialized_message() finds the publisher.
Find(t) ==
  LET p == PublisherOf[t] IN
  /\ pc[t] = "idle" /\ known[p]
  /\ next[p] <= MaxSeq
  /\ pc' = [pc EXCEPT ![t] = "found"]
  /\ UNCHANGED <<known, mutex, shut, next, want, got, pooled, heap, pool,
                 context, flying, past>>

\* publish() takes the mutex, finds the publisher in use, and learns how much
\* memory it wants.
Begin(t) ==
  LET p == PublisherOf[t] IN
  /\ pc[t] = "found" /\ mutex[p] = None
  /\ ~shut[p]
  /\ mutex' = [mutex EXCEPT ![p] = t]
  /\ pc' = [pc EXCEPT ![t] = "allocate"]
  /\ \E n \in Size : want' = [want EXCEPT ![t] = n]
  /\ UNCHANGED <<known, shut, next, got, pooled, heap, pool, context, flying, past>>

Got(t, m, p) ==
  /\ got' = [got EXCEPT ![t] = m]
  /\ pooled' = [pooled EXCEPT ![t] = p]
  /\ pc' = [pc EXCEPT ![t] = "serialize"]
  /\ UNCHANGED <<known, want, mutex, shut>>

\* Shared memory for a large message, if the provider is there and has some.
GetShm(t) ==
  /\ pc[t] = "allocate" /\ want[t] >= Threshold
  /\ Got(t, Shm, FALSE)
  /\ UNCHANGED <<next, heap, pool, context, flying, past>>

GetFromPool(t) ==
  /\ pc[t] = "allocate"
  /\ \E b \in Buffer : AllocateFromPool(want[t], b) /\ Got(t, b, TRUE)
  /\ UNCHANGED <<next, context, flying>>

\* Memory of its own when the pool has none.
GetOwn(t) ==
  /\ pc[t] = "allocate"
  /\ AllocateFails(want[t])
  /\ \E b \in Buffer : Malloc(b, want[t]) /\ Got(t, b, FALSE)
  /\ UNCHANGED <<next, context, flying>>

\* There is no memory at all, and publish() returns RMW_RET_BAD_ALLOC.
BadAlloc(t) ==
  /\ MemoryShort /\ pc[t] = "allocate"
  /\ AllocateFails(want[t])
  /\ Return(t)
  /\ UNCHANGED <<known, next, heap, context, flying>>

\* The message is written.  Which message is told by the number it will get.
Serialize(t) ==
  LET p == PublisherOf[t] IN
  /\ pc[t] = "serialize"
  /\ content' = IF got[t] = Shm THEN content
                ELSE [content EXCEPT ![got[t]] = <<p, next[p]>>]
  /\ pc' = [pc EXCEPT ![t] = "put"]
  /\ UNCHANGED <<known, mutex, shut, next, want, got, pooled, memory, length,
                 pool, context, flying, past>>

\* The message cannot be serialized.  The scope exit frees memory of its own;
\* a buffer of the pool is dropped.
SerializeFails(t) ==
  /\ pc[t] = "serialize"
  /\ memory' = IF got[t] = Shm \/ pooled[t] THEN memory ELSE memory \ {got[t]}
  /\ failed' = TRUE
  /\ Return(t)
  /\ UNCHANGED <<known, next, length, content, pool, context, flying, refused>>

\* The payload is zenoh's, which drops it at once if the put fails.
Put(t) ==
  LET p == PublisherOf[t] IN
  /\ pc[t] = "put"
  /\ next' = [next EXCEPT ![p] = @ + 1]
  /\ flying' = IF got[t] = Shm THEN flying
               ELSE flying \cup {[pub |-> p, seq |-> next[p],
                                  buf |-> got[t], pooled |-> pooled[t]]}
  /\ Return(t)
  /\ UNCHANGED <<known, heap, pool, context, past>>

\* publish_serialized_message() takes the mutex and a sequence number of the
\* same series.  It does not look at is_shutdown_.
BeginSerialized(t) ==
  LET p == PublisherOf[t] IN
  /\ pc[t] = "found" /\ mutex[p] = None
  /\ mutex' = [mutex EXCEPT ![p] = t]
  /\ next' = [next EXCEPT ![p] = @ + 1]
  /\ pc' = [pc EXCEPT ![t] = "copy"]
  /\ UNCHANGED <<known, shut, want, got, pooled, heap, pool, context, flying, past>>

\* It hands zenoh a copy of the message.  A large one is copied to shared memory,
\* for which it asks *sess_, if there is some; any other to a vector.  Either is
\* zenoh's from then on.
PutSerialized(t) ==
  /\ pc[t] = "copy"
  /\ Return(t)
  /\ UNCHANGED <<known, next, heap, pool, context, flying, past>>

\* It returns before it takes the mutex: the message is not well-formed.
RefuseSerialized(t) ==
  /\ pc[t] = "found"
  /\ pc' = [pc EXCEPT ![t] = "idle"]
  /\ DropReference(t)
  /\ UNCHANGED <<known, mutex, next, want, got, pooled, heap, pool, context,
                 flying, past>>

\* rmw_destroy_publisher() takes the publisher out of the map, and with the
\* last reference shuts it down.
Destroy(p) ==
  /\ known[p]
  /\ known' = [known EXCEPT ![p] = FALSE]
  /\ shut' = [shut EXCEPT ![p] = Users(p) = {}]
  /\ UNCHANGED <<mutex, next, threads, heap, pool, context, flying, past>>

\* zenoh is done with a payload, and calls its deleter.
Release(m) ==
  /\ flying' = flying \ {m}
  /\ LET returned == IF m.pooled THEN Append(buffers, m.buf) ELSE buffers
         freed == IF m.pooled THEN {} ELSE {m.buf}
     IN IF Unreferenced(flying')
        THEN /\ buffers' = <<>>
             /\ memory' = memory \ (freed \cup {returned[i] : i \in DOMAIN returned})
        ELSE /\ buffers' = returned
             /\ memory' = memory \ freed
  /\ UNCHANGED <<known, mutex, shut, next, threads, length, content, size,
                 context, past>>

\* rmw_context_fini(), once the publishers of the context are gone.
DropContext ==
  /\ context /\ \A p \in Publisher : shut[p]
  /\ context' = FALSE
  /\ IF {m \in flying : m.pooled} = {}
     THEN buffers' = <<>> /\ memory' = memory \ InPool
     ELSE UNCHANGED <<buffers, memory>>
  /\ UNCHANGED <<known, mutex, shut, next, threads, length, content, size,
                 flying, past>>

ThreadStep(t) ==
  \/ Find(t)
  \/ Begin(t) \/ GetShm(t) \/ GetFromPool(t) \/ GetOwn(t) \/ BadAlloc(t)
  \/ Serialize(t) \/ SerializeFails(t) \/ Put(t)
  \/ BeginSerialized(t) \/ PutSerialized(t) \/ RefuseSerialized(t)

Next ==
  \/ \E t \in Thread : ThreadStep(t)
  \/ \E p \in Publisher : Destroy(p)
  \/ \E m \in flying : Release(m)
  \/ DropContext

Spec == Init /\ [][Next]_vars

-----------------------------------------------------------------------------
(* Properties *)

TypeOK ==
  /\ known \in [Publisher -> BOOLEAN]
  /\ mutex \in [Publisher -> Thread \cup {None}]
  /\ shut \in [Publisher -> BOOLEAN]
  /\ next \in [Publisher -> Nat]
  /\ pc \in [Thread -> Pc]
  /\ want \in [Thread -> Nat]
  /\ got \in [Thread -> Buffer \cup {None, Shm}]
  /\ pooled \in [Thread -> BOOLEAN]
  /\ memory \subseteq Buffer
  /\ length \in [Buffer -> Nat]
  /\ content \in [Buffer -> (Publisher \X Nat) \cup {None}]
  /\ buffers \in Seq(Buffer) /\ size \in Nat
  /\ context \in BOOLEAN
  /\ flying \subseteq Payload
  /\ refused \in BOOLEAN /\ failed \in BOOLEAN

\* Whatever other threads publish and whenever zenoh lets go, the memory of a
\* payload is not freed, and nothing is written into it, while zenoh has it.
PayloadIntact ==
  \A m \in flying : m.buf \in memory /\ content[m.buf] = <<m.pub, m.seq>>

\* The memory of the pool stays within its limit: the buffers in it, those
\* being written, those zenoh holds and those that were dropped.
PoolWithinLimit ==
  /\ SizeOf(memory \ OwnMemory) <= size
  /\ size <= MaxSize

\* Memory is not lost: unless a message could not be serialized, memory was
\* short or the pool refused to let a buffer grow, all that is allocated is in
\* the pool, with a thread or with zenoh, and size_ is what the pool has; and
\* when the context is gone and zenoh holds nothing, all has been freed.
NoMemoryLost ==
  ~refused /\ ~failed =>
    /\ memory = Owned
    /\ context => size = SizeOf(memory \ OwnMemory)
    /\ ~context /\ flying = {} => memory = {}

\* Whenever the publisher is destroyed, a call that has found it has the session
\* to its end: publish() is never refused, and sess_ is not null where
\* publish_serialized_message(), which does not look at is_shutdown_, asks it
\* for shared memory.
PublishHoldsSession ==
  \A t \in Thread : pc[t] # "idle" => ~shut[PublisherOf[t]]
=============================================================================
