---------------------------- MODULE Publish_proofs ----------------------------
(* Proofs about Publish, for any publishers, threads, buffers and sizes. *)
EXTENDS Publish, SequenceTheorems, FiniteSetTheorems, TLAPS

LEMMA Constants ==
  /\ \A t \in Thread : PublisherOf[t] \in Publisher
  /\ Size \subseteq Nat /\ MaxSize \in Nat
  /\ None \notin Buffer /\ None \notin Thread /\ Shm \notin Buffer /\ Shm # None
BY PublishAssumption

-----------------------------------------------------------------------------
(* The inductive invariant *)

\* A call has the mutex once it has begun, and memory when it needs it.
Busy ==
  \A t \in Thread :
    /\ pc[t] \notin {"idle", "found"} => mutex[PublisherOf[t]] = t
    /\ pc[t] \in {"serialize", "put"} => got[t] # None

\* No address is in two hands, and what is in any hand is allocated.
Disjoint ==
  /\ \A i, j \in DOMAIN buffers : buffers[i] = buffers[j] => i = j
  /\ \A i \in DOMAIN buffers :
       /\ buffers[i] \in memory
       /\ \A t \in Thread : got[t] # buffers[i]
       /\ \A m \in flying : m.buf # buffers[i]
  /\ \A t \in Thread : got[t] \in Buffer =>
       /\ got[t] \in memory
       /\ \A u \in Thread : got[u] = got[t] => u = t
       /\ \A m \in flying : m.buf # got[t]
  /\ \A m \in flying : m.buf \in memory
  /\ \A m, n \in flying : m.buf = n.buf => m = n

\* What has been serialized is there, for zenoh and for the thread that will
\* put it under the publisher's next number.
Written ==
  /\ \A m \in flying : content[m.buf] = <<m.pub, m.seq>>
  /\ \A t \in Thread : pc[t] = "put" /\ got[t] # Shm =>
       content[got[t]] = <<PublisherOf[t], next[PublisherOf[t]]>>

Inv == TypeOK /\ Busy /\ Disjoint /\ Written

LEMMA InitInv == Init => Inv
<1> SUFFICES ASSUME Init PROVE Inv
  OBVIOUS
<1>1. TypeOK
  <2>1. /\ next \in [Publisher -> Nat] /\ want \in [Thread -> Nat]
        /\ length \in [Buffer -> Nat] /\ size \in Nat
    BY DEF Init
  <2>2. /\ mutex \in [Publisher -> Thread \cup {None}]
        /\ pc \in [Thread -> Pc] /\ got \in [Thread -> Buffer \cup {None, Shm}]
        /\ content \in [Buffer -> (Publisher \X Nat) \cup {None}]
    BY DEF Init, Pc
  <2>3. /\ known \in [Publisher -> BOOLEAN] /\ shut \in [Publisher -> BOOLEAN]
        /\ pooled \in [Thread -> BOOLEAN]
    BY DEF Init
  <2>4. buffers \in Seq(Buffer) /\ memory \subseteq Buffer /\ flying \subseteq Payload
    BY DEF Init
  <2>5. context \in BOOLEAN /\ refused \in BOOLEAN /\ failed \in BOOLEAN
    BY DEF Init
  <2> QED BY <2>1, <2>2, <2>3, <2>4, <2>5 DEF TypeOK
<1>2. Busy /\ Disjoint /\ Written
  BY Constants DEF Init, Busy, Disjoint, Written
<1> QED BY <1>1, <1>2 DEF Inv

-----------------------------------------------------------------------------
(* The pool *)

LEMMA LenLess ==
  ASSUME NEW k \in Nat, k >= 1
  PROVE  /\ (IF 1 <= k - 1 THEN (k - 1) - 1 + 1 ELSE 0) = k - 1
         /\ \A i \in 1 .. k - 1 :
              i \in 1 .. (k - 1) - 1 + 1 /\ 1 + i - 1 = i /\ i \in 1 .. k /\ i # k
OBVIOUS

LEMMA TakenFromPool ==
  ASSUME buffers \in Seq(Buffer), buffers # <<>>
  PROVE  /\ Others \in Seq(Buffer) /\ Newest \in Buffer
         /\ Len(buffers) \in DOMAIN buffers
         /\ \A i \in DOMAIN Others :
              i \in DOMAIN buffers /\ Others[i] = buffers[i] /\ i # Len(buffers)
<1>1. PICK k \in Nat : Len(buffers) = k /\ k >= 1
  <2>1. Len(buffers) \in Nat /\ Len(buffers) >= 1
    OBVIOUS
  <2> QED BY <2>1
<1>2. Newest \in Buffer /\ Len(buffers) \in DOMAIN buffers
  BY <1>1 DEF Newest
<1>3. \A i \in 1 .. k - 1 : buffers[i] \in Buffer
  BY <1>1
<1>4. /\ Others \in Seq(Buffer)
      /\ Len(Others) = IF 1 <= k - 1 THEN (k - 1) - 1 + 1 ELSE 0
      /\ \A i \in 1 .. (k - 1) - 1 + 1 : Others[i] = buffers[1 + i - 1]
  BY <1>1, <1>3, SubSeqProperties DEF Others
<1>5. Len(Others) = k - 1 /\ \A i \in 1 .. k - 1 : Others[i] = buffers[i]
  BY <1>1, <1>4, LenLess
<1>6. DOMAIN Others = 1 .. k - 1 /\ DOMAIN buffers = 1 .. k
  BY <1>1, <1>4, <1>5
<1> QED BY <1>1, <1>2, <1>4, <1>5, <1>6, LenLess

\* Whether it comes from the pool or not, the memory a thread gets is in nobody
\* else's hands, and everybody else's stays as it is.
Takes(b) ==
  /\ b \in Buffer
  /\ memory' = memory \cup {b}
  /\ buffers' \in Seq(Buffer)
  /\ \A i \in DOMAIN buffers' :
       i \in DOMAIN buffers /\ buffers'[i] = buffers[i] /\ buffers[i] # b
  /\ \A u \in Thread : got[u] # b
  /\ \A m \in flying : m.buf # b
  /\ \A c \in Buffer \ {b} : content'[c] = content[c]
  /\ length' \in [Buffer -> Nat] /\ size' \in Nat
  /\ content' \in [Buffer -> (Publisher \X Nat) \cup {None}]
  /\ refused' \in BOOLEAN /\ failed' \in BOOLEAN

LEMMA TakesFromPool ==
  ASSUME Inv, NEW n \in Nat, NEW b \in Buffer, AllocateFromPool(n, b)
  PROVE  Takes(b)
<1> USE DEF Inv, TypeOK
<1>1. CASE AllocateNew(n, b)
  <2>1. b \notin memory /\ buffers' = <<>> /\ buffers = <<>>
    BY <1>1 DEF AllocateNew, Malloc
  <2>2. /\ length' = [length EXCEPT ![b] = n] /\ size' = size + n
        /\ content' = [content EXCEPT ![b] = None]
        /\ memory' = memory \cup {b} /\ UNCHANGED <<refused, failed>>
    BY <1>1 DEF AllocateNew, Malloc, past
  <2>3. \A u \in Thread : got[u] # b
    BY <2>1 DEF Disjoint
  <2>4. \A m \in flying : m.buf # b
    BY <2>1 DEF Disjoint
  <2>5. length' \in [Buffer -> Nat] /\ size' \in Nat
    BY <2>2
  <2>6. content' \in [Buffer -> (Publisher \X Nat) \cup {None}]
    BY <2>2
  <2> QED BY <2>1, <2>2, <2>3, <2>4, <2>5, <2>6 DEF Takes
<1>2. CASE Recycle(n, b)
  <2> DEFINE more == IF length[b] < n THEN n - length[b] ELSE 0
  <2>1. /\ buffers # <<>> /\ b = Newest /\ buffers' = Others
        /\ size' = size + more /\ length' = [length EXCEPT ![b] = @ + more]
        /\ UNCHANGED <<memory, content, refused, failed>>
    BY <1>2 DEF Recycle, past
  <2>2. more \in Nat
    OBVIOUS
  <2>3. length' \in [Buffer -> Nat] /\ size' \in Nat
    <3> HIDE DEF more
    <3> QED BY <2>1, <2>2
  <2>4. /\ Len(buffers) \in DOMAIN buffers /\ b = buffers[Len(buffers)]
        /\ buffers' \in Seq(Buffer)
    BY <2>1, TakenFromPool DEF Newest
  <2>5. b \in memory /\ (\A u \in Thread : got[u] # b) /\ \A m \in flying : m.buf # b
    BY <2>4 DEF Disjoint
  <2>6. \A i \in DOMAIN buffers' :
          i \in DOMAIN buffers /\ buffers'[i] = buffers[i] /\ buffers[i] # b
    BY <2>1, <2>4, TakenFromPool DEF Disjoint
  <2>7. memory' = memory \cup {b}
    BY <2>1, <2>5
  <2> QED BY <2>1, <2>3, <2>4, <2>5, <2>6, <2>7 DEF Takes
<1> QED BY <1>1, <1>2 DEF AllocateFromPool

\* What allocate() leaves of the pool when it fails.
LEMMA FailsKeepingOrder ==
  ASSUME Inv, NEW n \in Nat, AllocateFails(n)
  PROVE  /\ buffers' \in Seq(Buffer)
         /\ \A i \in DOMAIN buffers' : i \in DOMAIN buffers /\ buffers'[i] = buffers[i]
         /\ size' \in Nat /\ refused' \in BOOLEAN /\ failed' \in BOOLEAN
<1> USE DEF Inv, TypeOK
<1>1. CASE /\ buffers # <<>> /\ refused' = TRUE /\ buffers' = Others
           /\ UNCHANGED size /\ failed' \in BOOLEAN
  BY <1>1, TakenFromPool
<1>2. CASE /\ UNCHANGED <<buffers, refused>> /\ size' \in {size, size + n}
           /\ failed' \in BOOLEAN
  BY <1>2
<1> QED BY <1>1, <1>2 DEF AllocateFails, pool, past

LEMMA TakesOwn ==
  ASSUME Inv, NEW n \in Nat, NEW b \in Buffer, AllocateFails(n), Malloc(b, n)
  PROVE  Takes(b)
<1> USE DEF Inv, TypeOK
<1>1. /\ b \notin memory /\ memory' = memory \cup {b}
      /\ length' = [length EXCEPT ![b] = n]
      /\ content' = [content EXCEPT ![b] = None]
  BY DEF Malloc
<1>2. /\ \A u \in Thread : got[u] # b
      /\ \A m \in flying : m.buf # b
      /\ \A i \in DOMAIN buffers : buffers[i] # b
  BY <1>1 DEF Disjoint
<1>3. length' \in [Buffer -> Nat] /\ content' \in [Buffer -> (Publisher \X Nat) \cup {None}]
  BY <1>1
<1> QED BY <1>1, <1>2, <1>3, FailsKeepingOrder DEF Takes

\* A thread that has got memory, and the step in which it did.
Obtains(t, b, p) ==
  /\ t \in Thread /\ pc[t] = "allocate" /\ p \in BOOLEAN
  /\ Takes(b) /\ Got(t, b, p)
  /\ UNCHANGED <<next, context, flying>>

LEMMA MemoryIsObtained ==
  ASSUME Inv, NEW t \in Thread, GetFromPool(t) \/ GetOwn(t)
  PROVE  \E b \in Buffer, p \in BOOLEAN : Obtains(t, b, p)
<1>1. want[t] \in Nat
  BY DEF Inv, TypeOK
<1>2. CASE GetFromPool(t)
  <2>1. PICK b \in Buffer : AllocateFromPool(want[t], b) /\ Got(t, b, TRUE)
    BY <1>2 DEF GetFromPool
  <2>2. Obtains(t, b, TRUE)
    BY <1>1, <1>2, <2>1, TakesFromPool DEF GetFromPool, Obtains
  <2> QED BY <2>2
<1>3. CASE GetOwn(t)
  <2>1. PICK b \in Buffer : Malloc(b, want[t]) /\ Got(t, b, FALSE)
    BY <1>3 DEF GetOwn
  <2>2. AllocateFails(want[t])
    BY <1>3 DEF GetOwn
  <2>3. Obtains(t, b, FALSE)
    BY <1>1, <1>3, <2>1, <2>2, TakesOwn DEF GetOwn, Obtains
  <2> QED BY <2>3
<1> QED BY <1>2, <1>3

-----------------------------------------------------------------------------
(* The steps of a thread *)

LEMMA DroppedType ==
  ASSUME Inv, NEW t \in Thread, DropReference(t) \/ UNCHANGED shut
  PROVE  shut' \in [Publisher -> BOOLEAN]
<1>1. shut \in [Publisher -> BOOLEAN] /\ PublisherOf[t] \in Publisher
  BY Constants DEF Inv, TypeOK
<1>2. CASE DropReference(t)
  BY <1>1, <1>2, Zenon DEF DropReference
<1>3. CASE UNCHANGED shut
  BY <1>1, <1>3
<1> QED BY <1>2, <1>3

\* A call has found its publisher, or returns without having begun.
LEMMA FoundKeeps ==
  ASSUME Inv, NEW t \in Thread, Find(t) \/ RefuseSerialized(t)
  PROVE  Inv'
<1> USE DEF Inv, TypeOK
<1>1. /\ pc[t] \in {"idle", "found"}
      /\ \E s \in {"idle", "found"} : pc' = [pc EXCEPT ![t] = s]
      /\ UNCHANGED <<known, mutex, next, want, got, pooled, memory, length, content,
                     buffers, size, context, flying, refused, failed>>
  BY DEF Find, RefuseSerialized, heap, pool, past
<1>2. shut' \in [Publisher -> BOOLEAN]
  BY DroppedType DEF Find, RefuseSerialized
<1>3. pc' \in [Thread -> Pc]
  BY <1>1 DEF Pc
<1>4. TypeOK'
  BY <1>1, <1>2, <1>3
<1>5. Busy'
  BY <1>1 DEF Busy
<1>6. Disjoint' /\ Written'
  BY <1>1 DEF Disjoint, Written
<1> QED BY <1>4, <1>5, <1>6

\* A call begins: it has the mutex to itself.
LEMMA BeginKeeps ==
  ASSUME Inv, NEW t \in Thread, Begin(t) \/ BeginSerialized(t)
  PROVE  Inv'
<1> DEFINE p == PublisherOf[t]
<1> USE DEF Inv, TypeOK
<1>1. p \in Publisher
  BY Constants
<1>2. /\ mutex[p] = None /\ pc[t] = "found"
      /\ mutex' = [mutex EXCEPT ![p] = t]
      /\ UNCHANGED <<known, shut, got, pooled, memory, length, content, buffers,
                     size, context, flying, refused, failed>>
  BY DEF Begin, BeginSerialized, heap, pool, past
<1>3. /\ \E s \in {"allocate", "copy"} : pc' = [pc EXCEPT ![t] = s]
      /\ next' = next \/ next' = [next EXCEPT ![p] = @ + 1]
      /\ want' = want \/ \E n \in Size : want' = [want EXCEPT ![t] = n]
  BY DEF Begin, BeginSerialized
<1>4. \A u \in Thread : pc[u] \notin {"idle", "found"} =>
        PublisherOf[u] # p /\ PublisherOf[u] \in Publisher
  BY <1>2, Constants DEF Busy
<1> HIDE DEF p
<1>5. /\ mutex' \in [Publisher -> Thread \cup {None}] /\ pc' \in [Thread -> Pc]
      /\ next' \in [Publisher -> Nat]
  BY <1>1, <1>2, <1>3 DEF Pc
<1>6. want' \in [Thread -> Nat]
  BY <1>3, Constants
<1>7. TypeOK'
  BY <1>2, <1>5, <1>6
<1>8. \A u \in Thread \ {t} :
        /\ pc'[u] = pc[u]
        /\ pc[u] \notin {"idle", "found"} =>
             /\ mutex'[PublisherOf[u]] = mutex[PublisherOf[u]]
             /\ next'[PublisherOf[u]] = next[PublisherOf[u]]
  BY <1>2, <1>3, <1>4
<1>9. pc'[t] \in {"allocate", "copy"} /\ mutex'[PublisherOf[t]] = t
  BY <1>1, <1>2, <1>3 DEF p
<1>10. Busy'
  BY <1>2, <1>8, <1>9 DEF Busy
<1>11. Disjoint'
  BY <1>2 DEF Disjoint
<1>12. Written'
  BY <1>2, <1>8, <1>9 DEF Written
<1> QED BY <1>7, <1>10, <1>11, <1>12

LEMMA GetShmKeeps ==
  ASSUME Inv, NEW t \in Thread, GetShm(t)
  PROVE  Inv'
<1> USE DEF Inv, TypeOK
<1>1. /\ pc[t] = "allocate" /\ pc' = [pc EXCEPT ![t] = "serialize"]
      /\ got' = [got EXCEPT ![t] = Shm] /\ pooled' = [pooled EXCEPT ![t] = FALSE]
      /\ UNCHANGED <<known, mutex, shut, next, want, memory, length, content, buffers,
                     size, context, flying, refused, failed>>
  BY DEF GetShm, Got, heap, pool, past
<1>2. pc' \in [Thread -> Pc] /\ got' \in [Thread -> Buffer \cup {None, Shm}]
  BY <1>1 DEF Pc
<1>3. pooled' \in [Thread -> BOOLEAN]
  BY <1>1
<1>4. TypeOK'
  BY <1>1, <1>2, <1>3
<1>5. Busy'
  BY <1>1, Constants DEF Busy
<1>6. Disjoint'
  BY <1>1, Constants DEF Disjoint
<1>7. Written'
  BY <1>1 DEF Written
<1> QED BY <1>4, <1>5, <1>6, <1>7

LEMMA ObtainsKeeps ==
  ASSUME Inv, NEW t \in Thread, NEW b \in Buffer, NEW p \in BOOLEAN, Obtains(t, b, p)
  PROVE  Inv'
<1> USE DEF Inv, TypeOK
<1>1. /\ pc[t] = "allocate" /\ pc' = [pc EXCEPT ![t] = "serialize"]
      /\ got' = [got EXCEPT ![t] = b] /\ pooled' = [pooled EXCEPT ![t] = p]
      /\ UNCHANGED <<known, mutex, want, shut, next, context, flying>>
      /\ Takes(b)
  BY DEF Obtains, Got
<1>2. pc' \in [Thread -> Pc] /\ got' \in [Thread -> Buffer \cup {None, Shm}]
  BY <1>1 DEF Pc
<1>3. pooled' \in [Thread -> BOOLEAN]
  BY <1>1
<1>4. TypeOK'
  <2>1. /\ memory' \subseteq Buffer /\ length' \in [Buffer -> Nat] /\ size' \in Nat
        /\ content' \in [Buffer -> (Publisher \X Nat) \cup {None}]
        /\ buffers' \in Seq(Buffer)
    BY <1>1 DEF Takes
  <2>2. refused' \in BOOLEAN /\ failed' \in BOOLEAN
    BY <1>1 DEF Takes
  <2> QED BY <1>1, <1>2, <1>3, <2>1, <2>2
<1>5. Busy'
  BY <1>1, Constants DEF Busy
<1>6. Disjoint'
  <2>1. got'[t] = b /\ \A u \in Thread \ {t} : got'[u] = got[u] /\ got[u] # b
    BY <1>1 DEF Takes
  <2>2. \A i \in DOMAIN buffers' :
          i \in DOMAIN buffers /\ buffers'[i] = buffers[i] /\ buffers[i] # b
    BY <1>1 DEF Takes
  <2>3. memory' = memory \cup {b} /\ flying' = flying /\ \A m \in flying : m.buf # b
    BY <1>1 DEF Takes
  <2>4. \A i, j \in DOMAIN buffers' : buffers'[i] = buffers'[j] => i = j
    BY <2>2 DEF Disjoint
  <2>5. \A i \in DOMAIN buffers' :
          /\ buffers'[i] \in memory'
          /\ \A u \in Thread : got'[u] # buffers'[i]
          /\ \A m \in flying' : m.buf # buffers'[i]
    BY <2>1, <2>2, <2>3 DEF Disjoint
  <2>6. \A u \in Thread : got'[u] \in Buffer =>
          /\ got'[u] \in memory'
          /\ \A v \in Thread : got'[v] = got'[u] => v = u
          /\ \A m \in flying' : m.buf # got'[u]
    BY <2>1, <2>3 DEF Disjoint
  <2>7. /\ \A m \in flying' : m.buf \in memory'
        /\ \A m, n \in flying' : m.buf = n.buf => m = n
    BY <2>3 DEF Disjoint
  <2> QED BY <2>4, <2>5, <2>6, <2>7 DEF Disjoint
<1>7. Written'
  <2>1. \A m \in flying : m.buf \in Buffer \ {b}
    BY <1>1 DEF Takes, Payload
  <2>2. \A m \in flying' : content'[m.buf] = <<m.pub, m.seq>>
    BY <1>1, <2>1 DEF Takes, Written
  <2>3. ASSUME NEW u \in Thread, pc'[u] = "put", got'[u] # Shm
        PROVE  content'[got'[u]] = <<PublisherOf[u], next'[PublisherOf[u]]>>
    <3>1. u # t /\ pc[u] = "put" /\ got'[u] = got[u]
      BY <1>1, <2>3
    <3>2. got[u] \in Buffer \ {b}
      BY <1>1, <2>3, <3>1 DEF Takes, Busy
    <3> QED BY <1>1, <2>3, <3>1, <3>2 DEF Takes, Written
  <2> QED BY <2>2, <2>3 DEF Written
<1> QED BY <1>4, <1>5, <1>6, <1>7

\* A call returns: the mutex is free, and the others keep theirs.
LEMMA ReturnFrees ==
  ASSUME Inv, NEW t \in Thread, pc[t] \notin {"idle", "found"}, Return(t)
  PROVE  /\ shut' \in [Publisher -> BOOLEAN]
         /\ mutex' \in [Publisher -> Thread \cup {None}] /\ pc' \in [Thread -> Pc]
         /\ got' \in [Thread -> Buffer \cup {None, Shm}]
         /\ pooled' \in [Thread -> BOOLEAN] /\ want' \in [Thread -> Nat]
         /\ pc'[t] = "idle" /\ got'[t] = None
         /\ \A u \in Thread \ {t} : pc'[u] = pc[u] /\ got'[u] = got[u]
         /\ \A u \in Thread \ {t} :
              pc[u] \notin {"idle", "found"} => PublisherOf[u] # PublisherOf[t]
         /\ Busy'
<1> DEFINE p == PublisherOf[t]
<1> USE DEF Inv, TypeOK
<1>1. /\ p \in Publisher /\ mutex[p] = t
      /\ mutex' = [mutex EXCEPT ![p] = None] /\ pc' = [pc EXCEPT ![t] = "idle"]
      /\ got' = [got EXCEPT ![t] = None] /\ pooled' = [pooled EXCEPT ![t] = FALSE]
      /\ want' = [want EXCEPT ![t] = 0]
  BY Constants DEF Return, Busy
<1>2. \A u \in Thread \ {t} : pc[u] \notin {"idle", "found"} => PublisherOf[u] # p
  BY <1>1 DEF Busy
<1>3. /\ mutex' \in [Publisher -> Thread \cup {None}] /\ pc' \in [Thread -> Pc]
      /\ got' \in [Thread -> Buffer \cup {None, Shm}] /\ want' \in [Thread -> Nat]
  BY <1>1 DEF Pc
<1>4. pooled' \in [Thread -> BOOLEAN]
  BY <1>1
<1>5. /\ pc'[t] = "idle" /\ got'[t] = None
      /\ \A u \in Thread \ {t} : pc'[u] = pc[u] /\ got'[u] = got[u]
  BY <1>1
<1>6. Busy'
  <2> SUFFICES ASSUME NEW u \in Thread
               PROVE  /\ pc'[u] \notin {"idle", "found"} => mutex'[PublisherOf[u]] = u
                      /\ pc'[u] \in {"serialize", "put"} => got'[u] # None
    BY DEF Busy
  <2>1. CASE u = t
    BY <1>5, <2>1
  <2>2. CASE u # t
    <3>1. PublisherOf[u] \in Publisher /\ pc'[u] = pc[u] /\ got'[u] = got[u]
      BY <1>5, <2>2, Constants
    <3>2. pc[u] \notin {"idle", "found"} => mutex'[PublisherOf[u]] = mutex[PublisherOf[u]]
      <4> HIDE DEF p
      <4> QED BY <1>1, <1>2, <2>2, <3>1
    <3> QED BY <3>1, <3>2 DEF Busy
  <2> QED BY <2>1, <2>2
<1>7. shut' \in [Publisher -> BOOLEAN]
  BY DroppedType DEF Return
<1> QED BY <1>2, <1>3, <1>4, <1>5, <1>6, <1>7

LEMMA BadAllocKeeps ==
  ASSUME Inv, NEW t \in Thread, BadAlloc(t)
  PROVE  Inv'
<1>1. /\ Return(t) /\ pc[t] = "allocate" /\ AllocateFails(want[t])
      /\ UNCHANGED <<known, next, memory, length, content, context, flying>>
  BY DEF BadAlloc, heap
<1>2. want[t] \in Nat
  BY DEF Inv, TypeOK
<1>3. /\ buffers' \in Seq(Buffer)
      /\ \A i \in DOMAIN buffers' : i \in DOMAIN buffers /\ buffers'[i] = buffers[i]
      /\ size' \in Nat /\ refused' \in BOOLEAN /\ failed' \in BOOLEAN
  BY <1>1, <1>2, FailsKeepingOrder
<1>4. /\ pc'[t] = "idle" /\ got'[t] = None
      /\ \A u \in Thread \ {t} : pc'[u] = pc[u] /\ got'[u] = got[u]
  BY <1>1, ReturnFrees
<1>5. TypeOK' /\ Busy'
  BY <1>1, <1>3, ReturnFrees DEF Inv, TypeOK
<1>6. Disjoint'
  <2>1. /\ \A i, j \in DOMAIN buffers' : buffers'[i] = buffers'[j] => i = j
        /\ \A i \in DOMAIN buffers' :
             /\ buffers'[i] \in memory'
             /\ \A m \in flying' : m.buf # buffers'[i]
    BY <1>1, <1>3 DEF Inv, Disjoint
  <2>2. \A i \in DOMAIN buffers' : buffers'[i] \in Buffer
    BY <1>3
  <2>3. \A i \in DOMAIN buffers' : \A u \in Thread : got'[u] # buffers'[i]
    BY <1>3, <1>4, <2>2, Constants DEF Inv, Disjoint
  <2>4. \A u \in Thread : got'[u] \in Buffer =>
          /\ got'[u] \in memory'
          /\ \A v \in Thread : got'[v] = got'[u] => v = u
          /\ \A m \in flying' : m.buf # got'[u]
    BY <1>1, <1>4, Constants DEF Inv, Disjoint
  <2>5. /\ \A m \in flying' : m.buf \in memory'
        /\ \A m, n \in flying' : m.buf = n.buf => m = n
    BY <1>1 DEF Inv, Disjoint
  <2> QED BY <2>1, <2>3, <2>4, <2>5 DEF Disjoint
<1>7. Written'
  BY <1>1, <1>4 DEF Inv, Written
<1> QED BY <1>5, <1>6, <1>7 DEF Inv

LEMMA SerializeKeeps ==
  ASSUME Inv, NEW t \in Thread, Serialize(t)
  PROVE  Inv'
<1> DEFINE p == PublisherOf[t]
<1> USE DEF Inv, TypeOK
<1>1. /\ pc[t] = "serialize" /\ pc' = [pc EXCEPT ![t] = "put"]
      /\ UNCHANGED <<known, mutex, shut, next, want, got, pooled, memory, length,
                     buffers, size, context, flying, refused, failed>>
      /\ content' = IF got[t] = Shm THEN content
                    ELSE [content EXCEPT ![got[t]] = <<p, next[p]>>]
  BY DEF Serialize, pool, past
<1>2. got[t] \in Buffer \cup {Shm} /\ p \in Publisher /\ next[p] \in Nat
  BY <1>1, Constants DEF Busy
<1> HIDE DEF p
<1>3. pc' \in [Thread -> Pc]
  BY <1>1 DEF Pc
<1>4. content' \in [Buffer -> (Publisher \X Nat) \cup {None}]
  BY <1>1, <1>2
<1>5. TypeOK'
  BY <1>1, <1>3, <1>4
<1>6. Busy'
  BY <1>1 DEF Busy
<1>7. Disjoint'
  BY <1>1 DEF Disjoint
<1>8. Written'
  <2>1. \A c \in Buffer : c # got[t] => content'[c] = content[c]
    BY <1>1, <1>2
  <2>2. \A m \in flying : m.buf \in Buffer /\ m.buf # got[t]
    BY <1>2, Constants DEF Disjoint, Payload
  <2>3. \A m \in flying' : content'[m.buf] = <<m.pub, m.seq>>
    BY <1>1, <2>1, <2>2 DEF Written
  <2>4. ASSUME NEW u \in Thread, pc'[u] = "put", got'[u] # Shm
        PROVE  content'[got'[u]] = <<PublisherOf[u], next'[PublisherOf[u]]>>
    <3>1. CASE u = t
      <4>1. got[t] \in Buffer /\ got[t] # Shm /\ got'[u] = got[t]
        BY <1>1, <1>2, <2>4, <3>1
      <4>2. content'[got[t]] = <<p, next[p]>>
        BY <1>1, <4>1
      <4> QED BY <1>1, <3>1, <4>1, <4>2 DEF p
    <3>2. CASE u # t
      <4>1. pc[u] = "put" /\ got'[u] = got[u] /\ got[u] \in Buffer
        BY <1>1, <2>4, <3>2 DEF Busy
      <4>2. got[u] # got[t]
        BY <3>2, <4>1 DEF Disjoint
      <4> QED BY <1>1, <2>1, <2>4, <4>1, <4>2 DEF Written
    <3> QED BY <3>1, <3>2
  <2> QED BY <2>3, <2>4 DEF Written
<1> QED BY <1>5, <1>6, <1>7, <1>8

LEMMA SerializeFailsKeeps ==
  ASSUME Inv, NEW t \in Thread, SerializeFails(t)
  PROVE  Inv'
<1>1. /\ Return(t) /\ pc[t] = "serialize"
      /\ memory' \in {memory, memory \ {got[t]}}
      /\ failed' = TRUE
      /\ UNCHANGED <<known, next, length, content, buffers, size, context, flying, refused>>
  BY DEF SerializeFails, pool
<1>2. /\ pc'[t] = "idle" /\ got'[t] = None
      /\ \A u \in Thread \ {t} : pc'[u] = pc[u] /\ got'[u] = got[u]
  BY <1>1, ReturnFrees
<1>3. memory' \subseteq Buffer /\ failed' \in BOOLEAN
  BY <1>1 DEF Inv, TypeOK
<1>4. TypeOK' /\ Busy'
  BY <1>1, <1>3, ReturnFrees DEF Inv, TypeOK
<1>5. got[t] \in Buffer \cup {Shm}
  BY <1>1 DEF Inv, TypeOK, Busy
<1>6. Disjoint'
  <2>1. \A i \in DOMAIN buffers : buffers[i] \in Buffer
    BY DEF Inv, TypeOK
  <2>2. \A i \in DOMAIN buffers' :
          /\ buffers'[i] \in memory'
          /\ \A u \in Thread : got'[u] # buffers'[i]
          /\ \A m \in flying' : m.buf # buffers'[i]
    BY <1>1, <1>2, <2>1, Constants DEF Inv, Disjoint
  <2>3. \A u \in Thread : got'[u] \in Buffer =>
          /\ got'[u] \in memory'
          /\ \A v \in Thread : got'[v] = got'[u] => v = u
          /\ \A m \in flying' : m.buf # got'[u]
    BY <1>1, <1>2, Constants DEF Inv, Disjoint
  <2>4. \A m \in flying' : m.buf \in memory'
    <3>1. \A m \in flying : m.buf \in Buffer
      BY DEF Inv, TypeOK, Payload
    <3> QED BY <1>1, <1>5, <3>1, Constants DEF Inv, Disjoint
  <2>5. /\ \A m, n \in flying' : m.buf = n.buf => m = n
        /\ \A i, j \in DOMAIN buffers' : buffers'[i] = buffers'[j] => i = j
    BY <1>1 DEF Inv, Disjoint
  <2> QED BY <2>2, <2>3, <2>4, <2>5 DEF Disjoint
<1>7. Written'
  BY <1>1, <1>2 DEF Inv, Written
<1> QED BY <1>4, <1>6, <1>7 DEF Inv

LEMMA PutKeeps ==
  ASSUME Inv, NEW t \in Thread, Put(t)
  PROVE  Inv'
<1> DEFINE p == PublisherOf[t]
           x == [pub |-> p, seq |-> next[p], buf |-> got[t], pooled |-> pooled[t]]
<1>1. /\ Return(t) /\ pc[t] = "put"
      /\ next' = [next EXCEPT ![p] = @ + 1]
      /\ flying' = IF got[t] = Shm THEN flying ELSE flying \cup {x}
      /\ UNCHANGED <<known, memory, length, content, buffers, size, context,
                     refused, failed>>
  BY DEF Put, heap, pool, past
<1>2. /\ pc'[t] = "idle" /\ got'[t] = None
      /\ \A u \in Thread \ {t} : pc'[u] = pc[u] /\ got'[u] = got[u]
      /\ \A u \in Thread \ {t} :
           pc[u] \notin {"idle", "found"} => PublisherOf[u] # p
  BY <1>1, ReturnFrees
<1>3. p \in Publisher /\ next[p] \in Nat /\ got[t] \in Buffer \cup {Shm}
  BY <1>1, Constants DEF Inv, TypeOK, Busy
<1>4. next' \in [Publisher -> Nat]
  BY <1>1, <1>3 DEF Inv, TypeOK
<1>5. pooled[t] \in BOOLEAN
  BY DEF Inv, TypeOK
<1>6. got[t] # Shm => x \in Payload
  BY <1>3, <1>5 DEF Payload
<1>7. x.pub = p /\ x.seq = next[p] /\ x.buf = got[t]
  OBVIOUS
<1> HIDE DEF x, p
<1>8. flying' \subseteq Payload
  BY <1>1, <1>6 DEF Inv, TypeOK
<1>9. TypeOK' /\ Busy'
  BY <1>1, <1>4, <1>8, ReturnFrees DEF Inv, TypeOK
<1>10. Disjoint'
  <2>1. \A m \in flying' : m \in flying \/ (m = x /\ got[t] # Shm)
    BY <1>1
  <2>2. \A i \in DOMAIN buffers : buffers[i] \in Buffer
    BY DEF Inv, TypeOK
  <2>3. got[t] # Shm => got[t] \in Buffer /\ got[t] \in memory
                        /\ \A m \in flying : m.buf # got[t]
    BY <1>3 DEF Inv, Disjoint
  <2>4. \A i \in DOMAIN buffers' :
          /\ buffers'[i] \in memory'
          /\ \A u \in Thread : got'[u] # buffers'[i]
          /\ \A m \in flying' : m.buf # buffers'[i]
    BY <1>1, <1>2, <1>7, <2>1, <2>2, Constants DEF Inv, Disjoint
  <2>5. \A u \in Thread : got'[u] \in Buffer =>
          /\ got'[u] \in memory'
          /\ \A v \in Thread : got'[v] = got'[u] => v = u
          /\ \A m \in flying' : m.buf # got'[u]
    <3> SUFFICES ASSUME NEW u \in Thread, got'[u] \in Buffer
                 PROVE  /\ got'[u] \in memory'
                        /\ \A v \in Thread : got'[v] = got'[u] => v = u
                        /\ \A m \in flying' : m.buf # got'[u]
      OBVIOUS
    <3>1. u # t /\ got'[u] = got[u]
      BY <1>2, Constants
    <3>2. got[u] \in memory /\ got[u] # got[t] /\ \A m \in flying : m.buf # got[u]
      BY <3>1 DEF Inv, Disjoint
    <3>3. \A v \in Thread : got'[v] = got'[u] => v = u
      BY <1>2, <3>1, Constants DEF Inv, Disjoint
    <3>4. \A m \in flying' : m.buf # got'[u]
      BY <1>7, <2>1, <3>1, <3>2
    <3> QED BY <1>1, <3>1, <3>2, <3>3, <3>4
  <2>6. \A m \in flying' : m.buf \in memory'
    BY <1>1, <1>7, <2>1, <2>3 DEF Inv, Disjoint
  <2>7. \A m, n \in flying' : m.buf = n.buf => m = n
    BY <1>7, <2>1, <2>3 DEF Inv, Disjoint
  <2>8. \A i, j \in DOMAIN buffers' : buffers'[i] = buffers'[j] => i = j
    BY <1>1 DEF Inv, Disjoint
  <2> QED BY <2>4, <2>5, <2>6, <2>7, <2>8 DEF Disjoint
<1>11. Written'
  <2>1. got[t] # Shm => content[got[t]] = <<p, next[p]>>
    BY <1>1 DEF Inv, Written, p
  <2>2. \A m \in flying' : content'[m.buf] = <<m.pub, m.seq>>
    BY <1>1, <1>7, <2>1 DEF Inv, Written
  <2>3. ASSUME NEW u \in Thread, pc'[u] = "put", got'[u] # Shm
        PROVE  content'[got'[u]] = <<PublisherOf[u], next'[PublisherOf[u]]>>
    <3>1. u # t /\ pc[u] = "put" /\ got'[u] = got[u] /\ PublisherOf[u] # p
      BY <1>2, <2>3
    <3>2. PublisherOf[u] \in Publisher
      BY Constants
    <3>3. next'[PublisherOf[u]] = next[PublisherOf[u]]
      BY <1>1, <3>1, <3>2 DEF Inv, TypeOK
    <3> QED BY <1>1, <2>3, <3>1, <3>3 DEF Inv, Written
  <2> QED BY <2>2, <2>3 DEF Written
<1> QED BY <1>9, <1>10, <1>11 DEF Inv

\* publish_serialized_message() has none of the memory here.
LEMMA PutSerializedKeeps ==
  ASSUME Inv, NEW t \in Thread, PutSerialized(t)
  PROVE  Inv'
<1>1. /\ Return(t) /\ pc[t] = "copy"
      /\ UNCHANGED <<known, next, memory, length, content, buffers, size, context,
                     flying, refused, failed>>
  BY DEF PutSerialized, heap, pool, past
<1>2. /\ pc'[t] = "idle" /\ got'[t] = None
      /\ \A u \in Thread \ {t} : pc'[u] = pc[u] /\ got'[u] = got[u]
  BY <1>1, ReturnFrees
<1>3. TypeOK' /\ Busy'
  BY <1>1, ReturnFrees DEF Inv, TypeOK
<1>4. \A i \in DOMAIN buffers : buffers[i] \in Buffer
  BY DEF Inv, TypeOK
<1>5. Disjoint'
  BY <1>1, <1>2, <1>4, Constants DEF Inv, Disjoint
<1>6. Written'
  BY <1>1, <1>2 DEF Inv, Written
<1> QED BY <1>3, <1>5, <1>6 DEF Inv

-----------------------------------------------------------------------------
(* Destruction, and zenoh *)

LEMMA DestroyKeeps ==
  ASSUME Inv, NEW p \in Publisher, Destroy(p)
  PROVE  Inv'
<1> USE DEF Inv, TypeOK
<1>1. /\ known' = [known EXCEPT ![p] = FALSE]
      /\ shut' = [shut EXCEPT ![p] = Users(p) = {}]
      /\ UNCHANGED <<mutex, next, pc, want, got, pooled, memory, length, content,
                     buffers, size, context, flying, refused, failed>>
  BY DEF Destroy, threads, heap, pool, past
<1>2. known' \in [Publisher -> BOOLEAN] /\ shut' \in [Publisher -> BOOLEAN]
  BY <1>1, Zenon
<1>3. TypeOK' /\ Busy' /\ Disjoint' /\ Written'
  BY <1>1, <1>2 DEF Busy, Disjoint, Written
<1> QED BY <1>3

\* Memory that no thread and no payload has may be freed, and the pool given up.
Frees(F, B) ==
  /\ flying' = flying \ F
  /\ UNCHANGED <<known, mutex, shut, next, pc, want, got, pooled, length, content,
                 size, refused, failed>>
  /\ context' \in BOOLEAN
  /\ buffers' \in Seq(Buffer) /\ memory' = memory \ B
  /\ \A i, j \in DOMAIN buffers' : buffers'[i] = buffers'[j] => i = j
  /\ \A i \in DOMAIN buffers' :
       /\ buffers'[i] \in memory'
       /\ \A u \in Thread : got[u] # buffers'[i]
       /\ \A m \in flying \ F : m.buf # buffers'[i]
  /\ \A b \in B : /\ \A u \in Thread : got[u] # b
                  /\ \A m \in flying \ F : m.buf # b

LEMMA FreeingKeeps ==
  ASSUME Inv, NEW F, NEW B, Frees(F, B)
  PROVE  Inv'
<1> USE DEF Inv, TypeOK, Frees
<1>1. flying' \subseteq flying /\ memory' \subseteq memory
  OBVIOUS
<1>2. TypeOK'
  BY <1>1
<1>3. Busy'
  BY DEF Busy
<1>4. Disjoint'
  <2>1. \A u \in Thread : got'[u] \in Buffer =>
          /\ got'[u] \in memory'
          /\ \A v \in Thread : got'[v] = got'[u] => v = u
          /\ \A m \in flying' : m.buf # got'[u]
    BY <1>1 DEF Disjoint
  <2>2. \A m \in flying' : m.buf \in Buffer /\ m.buf \in memory
    BY <1>1 DEF Disjoint, Payload
  <2>3. \A m \in flying' : m.buf \notin B
    BY <2>2
  <2>4. \A m \in flying' : m.buf \in memory'
    BY <2>2, <2>3
  <2>5. \A m, n \in flying' : m.buf = n.buf => m = n
    BY <1>1 DEF Disjoint
  <2> QED BY <2>1, <2>4, <2>5 DEF Disjoint
<1>5. Written'
  BY <1>1 DEF Written
<1> QED BY <1>2, <1>3, <1>4, <1>5

LEMMA Returned ==
  ASSUME Inv, NEW b \in Buffer, NEW r, r = Append(buffers, b)
  PROVE  /\ r \in Seq(Buffer)
         /\ \A i \in DOMAIN r :
              (i \in DOMAIN buffers /\ r[i] = buffers[i]) \/ (i = Len(buffers) + 1 /\ r[i] = b)
<1>1. buffers \in Seq(Buffer)
  BY DEF Inv, TypeOK
<1>2. PICK k \in Nat : Len(buffers) = k
  BY <1>1
<1>3. /\ r \in Seq(Buffer) /\ Len(r) = k + 1
      /\ r[k + 1] = b /\ \A i \in 1 .. k : r[i] = buffers[i]
  BY <1>1, <1>2
<1>4. DOMAIN r = 1 .. k + 1 /\ DOMAIN buffers = 1 .. k
  BY <1>1, <1>2, <1>3
<1>5. \A i \in 1 .. k + 1 : i \in 1 .. k \/ i = k + 1
  OBVIOUS
<1>6. \A i \in DOMAIN r :
        (i \in DOMAIN buffers /\ r[i] = buffers[i]) \/ (i = k + 1 /\ r[i] = b)
  BY <1>3, <1>4, <1>5
<1> QED BY <1>2, <1>3, <1>6

LEMMA ReleaseKeeps ==
  ASSUME Inv, NEW m \in flying, Release(m)
  PROVE  Inv'
<1> DEFINE r == IF m.pooled THEN Append(buffers, m.buf) ELSE buffers
           f == IF m.pooled THEN {} ELSE {m.buf}
           R == {r[i] : i \in DOMAIN r}
<1>1. /\ flying' = flying \ {m}
      /\ \/ buffers' = <<>> /\ memory' = memory \ (f \cup R)
         \/ buffers' = r /\ memory' = memory \ f
      /\ UNCHANGED <<known, mutex, shut, next, pc, want, got, pooled, length, content,
                     size, context, refused, failed>>
  BY DEF Release, threads, past
<1>2. /\ m.buf \in Buffer /\ m.buf \in memory
      /\ \A u \in Thread : got[u] # m.buf
      /\ \A n \in flying \ {m} : n.buf # m.buf
      /\ \A i \in DOMAIN buffers : m.buf # buffers[i]
  BY DEF Inv, TypeOK, Disjoint, Payload
<1>3. /\ r \in Seq(Buffer)
      /\ \A i \in DOMAIN r :
           \/ i \in DOMAIN buffers /\ r[i] = buffers[i]
           \/ m.pooled /\ i = Len(buffers) + 1 /\ r[i] = m.buf
  <2>1. CASE m.pooled
    <3>1. r = Append(buffers, m.buf)
      BY <2>1
    <3>2. m.buf \in Buffer
      BY <1>2
    <3> HIDE DEF r
    <3>3. /\ r \in Seq(Buffer)
          /\ \A i \in DOMAIN r :
               \/ i \in DOMAIN buffers /\ r[i] = buffers[i]
               \/ i = Len(buffers) + 1 /\ r[i] = m.buf
      BY <3>1, <3>2, Returned
    <3> QED BY <2>1, <3>3
  <2>2. CASE ~m.pooled
    BY <2>2 DEF Inv, TypeOK
  <2> QED BY <2>1, <2>2
<1> HIDE DEF r
<1>4. \A i \in DOMAIN r :
        /\ r[i] \in memory
        /\ \A u \in Thread : got[u] # r[i]
        /\ \A n \in flying \ {m} : n.buf # r[i]
  BY <1>2, <1>3 DEF Inv, Disjoint
<1>5. \A i, j \in DOMAIN r : r[i] = r[j] => i = j
  BY <1>2, <1>3 DEF Inv, Disjoint
<1>6. \A i \in DOMAIN r : r[i] \notin f
  BY <1>2, <1>3
<1>7. context' \in BOOLEAN
  BY <1>1 DEF Inv, TypeOK
<1>8. CASE buffers' = <<>> /\ memory' = memory \ (f \cup R)
  <2>1. \A b \in f \cup R : /\ \A u \in Thread : got[u] # b
                            /\ \A n \in flying \ {m} : n.buf # b
    BY <1>2, <1>4
  <2>2. buffers' \in Seq(Buffer) /\ DOMAIN buffers' = {}
    BY <1>8
  <2>3. /\ \A i, j \in DOMAIN buffers' : buffers'[i] = buffers'[j] => i = j
        /\ \A i \in DOMAIN buffers' :
             /\ buffers'[i] \in memory'
             /\ \A u \in Thread : got[u] # buffers'[i]
             /\ \A n \in flying \ {m} : n.buf # buffers'[i]
    BY <2>2
  <2>4. Frees({m}, f \cup R)
    BY <1>1, <1>7, <1>8, <2>1, <2>2, <2>3 DEF Frees
  <2> QED BY <2>4, FreeingKeeps
<1>9. CASE buffers' = r /\ memory' = memory \ f
  <2>1. \A b \in f : /\ \A u \in Thread : got[u] # b
                     /\ \A n \in flying \ {m} : n.buf # b
    BY <1>2
  <2>2. \A i \in DOMAIN r : r[i] \in memory \ f
    BY <1>4, <1>6
  <2>3. buffers' \in Seq(Buffer) /\ memory' = memory \ f
    BY <1>3, <1>9
  <2>4. /\ \A i, j \in DOMAIN buffers' : buffers'[i] = buffers'[j] => i = j
        /\ \A i \in DOMAIN buffers' :
             /\ buffers'[i] \in memory'
             /\ \A u \in Thread : got[u] # buffers'[i]
             /\ \A n \in flying \ {m} : n.buf # buffers'[i]
    BY <1>4, <1>5, <1>9, <2>2
  <2> HIDE DEF f
  <2>5. Frees({m}, f)
    BY <1>1, <1>7, <2>1, <2>3, <2>4 DEF Frees
  <2> QED BY <2>5, FreeingKeeps
<1> QED BY <1>1, <1>8, <1>9

LEMMA DropContextKeeps ==
  ASSUME Inv, DropContext
  PROVE  Inv'
<1>1. /\ context' = FALSE
      /\ \/ buffers' = <<>> /\ memory' = memory \ InPool
         \/ UNCHANGED <<buffers, memory>>
      /\ UNCHANGED <<known, mutex, shut, next, pc, want, got, pooled, length, content,
                     size, flying, refused, failed>>
  BY DEF DropContext, threads, past
<1>2. flying' = flying \ {} /\ context' \in BOOLEAN
  BY <1>1
<1>3. CASE buffers' = <<>> /\ memory' = memory \ InPool
  <2>1. \A b \in InPool : /\ \A u \in Thread : got[u] # b
                          /\ \A n \in flying \ {} : n.buf # b
    BY DEF Inv, Disjoint, InPool
  <2>2. buffers' \in Seq(Buffer) /\ DOMAIN buffers' = {}
    BY <1>3
  <2>3. /\ \A i, j \in DOMAIN buffers' : buffers'[i] = buffers'[j] => i = j
        /\ \A i \in DOMAIN buffers' :
             /\ buffers'[i] \in memory'
             /\ \A u \in Thread : got[u] # buffers'[i]
             /\ \A n \in flying \ {} : n.buf # buffers'[i]
    BY <2>2
  <2>4. Frees({}, InPool)
    BY <1>1, <1>2, <1>3, <2>1, <2>2, <2>3 DEF Frees
  <2> QED BY <2>4, FreeingKeeps
<1>4. CASE UNCHANGED <<buffers, memory>>
  <2>1. memory' = memory \ {} /\ buffers' \in Seq(Buffer)
    BY <1>4 DEF Inv, TypeOK
  <2>2. /\ \A i, j \in DOMAIN buffers' : buffers'[i] = buffers'[j] => i = j
        /\ \A i \in DOMAIN buffers' :
             /\ buffers'[i] \in memory'
             /\ \A u \in Thread : got[u] # buffers'[i]
             /\ \A m \in flying \ {} : m.buf # buffers'[i]
    BY <1>4 DEF Inv, Disjoint
  <2>3. Frees({}, {})
    BY <1>1, <1>2, <2>1, <2>2 DEF Frees
  <2> QED BY <2>3, FreeingKeeps
<1> QED BY <1>1, <1>3, <1>4

-----------------------------------------------------------------------------
(* The theorems *)

LEMMA NextInv == Inv /\ [Next]_vars => Inv'
<1> SUFFICES ASSUME Inv, [Next]_vars PROVE Inv'
  OBVIOUS
<1>1. ASSUME NEW t \in Thread, ThreadStep(t) PROVE Inv'
  <2>1. CASE GetFromPool(t) \/ GetOwn(t)
    <3>1. PICK b \in Buffer, p \in BOOLEAN : Obtains(t, b, p)
      BY <2>1, MemoryIsObtained
    <3> QED BY <3>1, ObtainsKeeps
  <2> QED BY <1>1, <2>1, FoundKeeps, BeginKeeps, GetShmKeeps, BadAllocKeeps,
             SerializeKeeps, SerializeFailsKeeps, PutKeeps, PutSerializedKeeps
          DEF ThreadStep
<1>2. CASE UNCHANGED vars
  BY <1>2 DEF vars, threads, heap, pool, past, Inv, TypeOK, Busy, Disjoint, Written
<1> QED BY <1>1, <1>2, DestroyKeeps, ReleaseKeeps, DropContextKeeps DEF Next

LEMMA InvHolds == Spec => []Inv
<1>1. Init => Inv
  BY InitInv
<1>2. Inv /\ [Next]_vars => Inv'
  BY NextInv
<1> QED BY <1>1, <1>2, PTL DEF Spec

\* Every variable of Publish keeps its type: a thread that serializes has memory
\* to do it in, and a payload names a buffer, never shared memory.
THEOREM TypeCorrect == Spec => []TypeOK
<1>1. Inv => TypeOK
  BY DEF Inv
<1> QED BY <1>1, InvHolds, PTL

\* The memory of a payload is neither freed nor written while zenoh has it, for
\* any publishers and threads that share the pool.
THEOREM PayloadsAreIntact == Spec => []PayloadIntact
<1>1. Inv => PayloadIntact
  BY DEF Inv, Disjoint, Written, PayloadIntact
<1> QED BY <1>1, InvHolds, PTL

-----------------------------------------------------------------------------
(* References to a publisher *)

\* Neither the map nor a call refers to a publisher that has been shut down.
Referred ==
  /\ \A t \in Thread : pc[t] # "idle" => ~shut[PublisherOf[t]]
  /\ \A p \in Publisher : known[p] => ~shut[p]

\* A call drops its reference: there is another one, or nobody is left who
\* could miss the publisher.
LEMMA DropKeepsReferred ==
  ASSUME Inv, Referred, NEW t \in Thread, pc[t] # "idle", DropReference(t),
         pc' = [pc EXCEPT ![t] = "idle"], UNCHANGED known
  PROVE  Referred'
<1> DEFINE p == PublisherOf[t]
<1>1. p \in Publisher /\ shut \in [Publisher -> BOOLEAN] /\ pc \in [Thread -> Pc]
  BY Constants DEF Inv, TypeOK
<1>2. /\ \A q \in Publisher \ {p} : shut'[q] = shut[q]
      /\ shut'[p] => shut[p] \/ (~known[p] /\ Users(p) = {t})
  BY <1>1 DEF DropReference
<1>3. ASSUME NEW u \in Thread, pc'[u] # "idle" PROVE ~shut'[PublisherOf[u]]
  <2>1. u # t /\ pc[u] # "idle" /\ PublisherOf[u] \in Publisher
    BY <1>1, <1>3, Constants
  <2>2. PublisherOf[u] = p => u \in Users(p)
    BY <2>1 DEF Users
  <2>3. PublisherOf[u] = p => Users(p) # {t}
    BY <2>1, <2>2
  <2> QED BY <1>2, <2>1, <2>3 DEF Referred
<1>4. ASSUME NEW q \in Publisher, known'[q] PROVE ~shut'[q]
  BY <1>2, <1>4 DEF Referred
<1> QED BY <1>3, <1>4 DEF Referred

LEMMA ReferredKept ==
  ASSUME Inv, Referred, [Next]_vars
  PROVE  Referred'
<1> USE DEF Inv, TypeOK
<1>1. CASE UNCHANGED <<known, shut, pc>>
  BY <1>1 DEF Referred
<1>2. ASSUME NEW t \in Thread, ThreadStep(t) PROVE Referred'
  <2>1. CASE Find(t)
    <3>1. known[PublisherOf[t]] /\ pc' = [pc EXCEPT ![t] = "found"]
      BY <2>1 DEF Find
    <3>2. UNCHANGED <<known, shut>> /\ ~shut[PublisherOf[t]]
      BY <2>1, <3>1, Constants DEF Find, Referred
    <3> QED BY <3>1, <3>2 DEF Referred
  <2>2. CASE Return(t) \/ RefuseSerialized(t)
    <3>1. /\ pc[t] # "idle" /\ DropReference(t)
          /\ pc' = [pc EXCEPT ![t] = "idle"] /\ UNCHANGED known
      <4>1. CASE RefuseSerialized(t)
        BY <4>1 DEF RefuseSerialized
      <4>2. CASE Return(t)
        <5>1. pc'[t] = "idle" /\ DropReference(t) /\ pc' = [pc EXCEPT ![t] = "idle"]
          BY <4>2 DEF Return
        <5>2. pc[t] # "idle" /\ UNCHANGED known
          BY <1>2, <5>1 DEF ThreadStep, Find, Begin, GetShm, GetFromPool, GetOwn, Got,
             BadAlloc, Serialize, SerializeFails, Put, BeginSerialized, PutSerialized,
             RefuseSerialized
        <5> QED BY <5>1, <5>2
      <4> QED BY <2>2, <4>1, <4>2
    <3> QED BY <3>1, DropKeepsReferred
  <2>3. CASE /\ UNCHANGED <<known, shut>> /\ pc[t] # "idle"
             /\ \E s \in Pc : pc' = [pc EXCEPT ![t] = s]
    BY <2>3 DEF Referred
  <2> QED BY <1>2, <2>1, <2>2, <2>3
          DEF ThreadStep, Begin, GetShm, GetFromPool, GetOwn, Got, BadAlloc, Serialize,
              SerializeFails, Put, BeginSerialized, PutSerialized, Pc
<1>3. ASSUME NEW p \in Publisher, Destroy(p) PROVE Referred'
  <2>1. /\ known' = [known EXCEPT ![p] = FALSE] /\ UNCHANGED pc
        /\ \A q \in Publisher \ {p} : shut'[q] = shut[q]
        /\ shut'[p] => Users(p) = {}
    BY <1>3 DEF Destroy, threads
  <2>2. ASSUME NEW u \in Thread, pc'[u] # "idle" PROVE ~shut'[PublisherOf[u]]
    <3>1. PublisherOf[u] \in Publisher /\ u \in Users(PublisherOf[u])
      BY <2>1, <2>2, Constants DEF Users
    <3> QED BY <2>1, <2>2, <3>1 DEF Referred
  <2>3. ASSUME NEW q \in Publisher, known'[q] PROVE ~shut'[q]
    BY <2>1, <2>3 DEF Referred
  <2> QED BY <2>2, <2>3 DEF Referred
<1> QED BY <1>1, <1>2, <1>3 DEF Next, Release, DropContext, vars, threads

LEMMA InitReferred == Init => Referred
BY Constants DEF Init, Referred

\* Whenever its publisher is destroyed, a call has the session from the moment it
\* has found the publisher until it returns.
THEOREM PublishingHoldsSession == Spec => []PublishHoldsSession
<1>1. Referred => PublishHoldsSession
  BY DEF Referred, PublishHoldsSession
<1>2. Inv /\ Referred /\ [Next]_vars => Referred'
  BY ReferredKept
<1> QED BY <1>1, <1>2, InitReferred, InvHolds, PTL DEF Spec

-----------------------------------------------------------------------------
(* The limit of the pool *)

LEMMA SizeStep ==
  ASSUME Inv, size <= MaxSize, [Next]_vars
  PROVE  size' <= MaxSize
<1>1. size \in Nat /\ length \in [Buffer -> Nat]
  BY DEF Inv, TypeOK
<1>2. ASSUME NEW t \in Thread, ThreadStep(t) PROVE size' <= MaxSize
  <2>1. CASE GetFromPool(t)
    <3>1. PICK b \in Buffer : AllocateFromPool(want[t], b)
      BY <2>1 DEF GetFromPool
    <3>2. CASE AllocateNew(want[t], b)
      BY <3>2 DEF AllocateNew
    <3>3. CASE Recycle(want[t], b)
      <4> DEFINE more == IF length[b] < want[t] THEN want[t] - length[b] ELSE 0
      <4>1. size' = size + more /\ (size + more <= MaxSize \/ more = 0)
        BY <3>3 DEF Recycle
      <4> HIDE DEF more
      <4> QED BY <1>1, <4>1
    <3> QED BY <3>1, <3>2, <3>3 DEF AllocateFromPool
  <2>2. CASE AllocateFails(want[t])
    BY <2>2 DEF AllocateFails, pool
  <2>3. CASE UNCHANGED size
    BY <2>3
  <2> QED BY <1>2, <2>1, <2>2, <2>3
          DEF ThreadStep, Find, Begin, GetShm, GetOwn, BadAlloc, Serialize,
              SerializeFails, Put, BeginSerialized, PutSerialized,
              RefuseSerialized, pool
<1> QED BY <1>2 DEF Next, Destroy, Release, DropContext, vars, pool

\* What allocate() accounts for stays within the limit of the pool, whatever
\* grows, fails or is dropped.
LEMMA PoolIsLimited == Spec => [](size <= MaxSize)
<1>1. Init => size <= MaxSize
  BY Constants DEF Init
<1>2. Inv /\ size <= MaxSize /\ [Next]_vars => (size <= MaxSize)'
  BY SizeStep
<1> QED BY <1>1, <1>2, InvHolds, PTL DEF Spec

-----------------------------------------------------------------------------
(* Sums over finite sets *)

\* The sum of f over a set, and the equation of the fold that computes it.
Sum(f, S) == MapThenSumSet(LAMBDA b : f[b], S)

Element(s) == CHOOSE x \in s : TRUE
Sumstep(f, g, s) == IF s = {} THEN 0 ELSE f[Element(s)] + g[s \ {Element(s)}]
Sumfold(f, S) == CHOOSE g : g = [s \in SUBSET S |-> Sumstep(f, g, s)]

LEMMA SumIsFold ==
  ASSUME NEW f, NEW S
  PROVE  Sum(f, S) = Sumfold(f, S)[S]
BY DEF Sum, MapThenSumSet, MapThenFoldSet, Sumfold, Sumstep, Element

LEMMA ElementIn == \A s : s # {} => Element(s) \in s
BY DEF Element

LEMMA LeastNumber ==
  ASSUME NEW T \in SUBSET Nat, T # {}
  PROVE  \E n \in T : \A m \in T : ~(m < n)
<1>1. \E n \in T : \A m \in T : ~(<<m, n>> \in OpToRel(<, Nat))
  BY NatLessThanWellFounded, WFMin
<1>2. \A m, n \in T : m < n => <<m, n>> \in OpToRel(<, Nat)
  BY DEF OpToRel
<1> QED BY <1>1, <1>2

LEMMA LeastSet ==
  ASSUME NEW S, IsFiniteSet(S), NEW T \in SUBSET SUBSET S, T # {}
  PROVE  \E U \in T : \A V \in T : V \subseteq U => V = U
<1>1. IsWellFoundedOn(StrictSubsetOrdering(S), SUBSET S)
  BY FS_StrictSubsetOrderingWellFounded, FS_FiniteSubsetsOfFinite
<1>2. \E U \in T : \A V \in T : ~(<<V, U>> \in StrictSubsetOrdering(S))
  BY <1>1, WFMin
<1>3. \A U, V \in T : V \subseteq U /\ V # U => <<V, U>> \in StrictSubsetOrdering(S)
  BY DEF StrictSubsetOrdering
<1> QED BY <1>2, <1>3

\* Solves the equation for the sets of at most n elements.
Solves(f, S, g, n) ==
  /\ g = [s \in SUBSET S |-> g[s]]
  /\ \A s \in SUBSET S : Cardinality(s) <= n => g[s] = Sumstep(f, g, s)

LEMMA FoldSolves ==
  ASSUME NEW f, NEW S, IsFiniteSet(S)
  PROVE  \A s \in SUBSET S : Sumfold(f, S)[s] = Sumstep(f, Sumfold(f, S), s)
<1> DEFINE Bad == {n \in Nat : ~\E g : Solves(f, S, g, n)}
<1>0. \A s \in SUBSET S : IsFiniteSet(s) /\ Cardinality(s) \in Nat
                          /\ Cardinality(s) <= Cardinality(S)
  BY FS_Subset, FS_CardinalityType
<1>1. 0 \notin Bad
  <2> DEFINE z == [s \in SUBSET S |-> 0]
  <2>1. z = [s \in SUBSET S |-> z[s]]
    OBVIOUS
  <2>2. \A s \in SUBSET S : Cardinality(s) <= 0 => s = {}
    BY <1>0, FS_EmptySet
  <2>3. Sumstep(f, z, {}) = 0
    BY DEF Sumstep
  <2>4. Solves(f, S, z, 0)
    BY <2>1, <2>2, <2>3 DEF Solves
  <2> QED BY <2>4
<1>2. ASSUME NEW n \in Nat, n \notin Bad
      PROVE  n + 1 \notin Bad
  <2>1. PICK g : Solves(f, S, g, n)
    BY <1>2
  <2> DEFINE h == [s \in SUBSET S |-> Sumstep(f, g, s)]
  <2>2. ASSUME NEW s \in SUBSET S, Cardinality(s) <= n + 1
        PROVE  h[s] = Sumstep(f, h, s)
    <3>1. CASE s = {}
      BY <3>1 DEF Sumstep
    <3>2. CASE s # {}
      <4>1. Element(s) \in s
        BY <3>2, ElementIn
      <4> DEFINE r == s \ {Element(s)}
      <4>2. r \in SUBSET S /\ Cardinality(r) <= n
        <5>1. Cardinality(r) = Cardinality(s) - 1
          BY <1>0, <4>1, FS_RemoveElement
        <5> QED BY <1>0, <2>2, <5>1
      <4>3. h[r] = g[r]
        BY <2>1, <4>2 DEF Solves
      <4> QED BY <3>2, <4>3 DEF Sumstep
    <3> QED BY <3>1, <3>2
  <2>3. Solves(f, S, h, n + 1)
    BY <2>2 DEF Solves
  <2> QED BY <2>3
<1> HIDE DEF Bad
<1>3. Bad = {}
  <2> SUFFICES ASSUME Bad # {} PROVE FALSE
    OBVIOUS
  <2>1. Bad \in SUBSET Nat
    BY DEF Bad
  <2>2. PICK n \in Bad : \A m \in Bad : ~(m < n)
    BY <2>1, LeastNumber
  <2>3. n \in Nat /\ n # 0
    BY <1>1, <2>1, <2>2
  <2>4. n - 1 \in Nat /\ n - 1 \notin Bad /\ (n - 1) + 1 = n
    BY <2>2, <2>3
  <2> QED BY <1>2, <2>2, <2>4
<1>4. PICK g : Solves(f, S, g, Cardinality(S))
  BY <1>0, <1>3 DEF Bad
<1>5. g = [s \in SUBSET S |-> Sumstep(f, g, s)]
  BY <1>0, <1>4 DEF Solves
<1>6. Sumfold(f, S) = [s \in SUBSET S |-> Sumstep(f, Sumfold(f, S), s)]
  BY <1>5 DEF Sumfold
<1> QED BY <1>6

\* Whatever the set the fold runs over, it gives a subset the same sum.
LEMMA FoldOfSubset ==
  ASSUME NEW f, NEW S, IsFiniteSet(S), NEW T \in SUBSET S
  PROVE  Sumfold(f, S)[T] = Sum(f, T)
<1> DEFINE Bad == {U \in SUBSET T : Sumfold(f, S)[U] # Sumfold(f, T)[U]}
<1>1. IsFiniteSet(T)
  BY FS_Subset
<1>2. /\ \A U \in SUBSET T : Sumfold(f, S)[U] = Sumstep(f, Sumfold(f, S), U)
      /\ \A U \in SUBSET T : Sumfold(f, T)[U] = Sumstep(f, Sumfold(f, T), U)
  BY <1>1, FoldSolves
<1>3. Bad = {}
  <2> SUFFICES ASSUME Bad # {} PROVE FALSE
    OBVIOUS
  <2>1. PICK U \in Bad : \A V \in Bad : V \subseteq U => V = U
    <3>1. Bad \in SUBSET SUBSET T
      OBVIOUS
    <3> HIDE DEF Bad
    <3> QED BY <1>1, <3>1, LeastSet
  <2>2. CASE U = {}
    BY <1>2, <2>1, <2>2 DEF Sumstep
  <2>3. CASE U # {}
    <3> DEFINE r == U \ {Element(U)}
    <3>1. r \in SUBSET T /\ r \subseteq U /\ r # U
      BY <2>3, ElementIn
    <3>2. Sumfold(f, S)[r] = Sumfold(f, T)[r]
      BY <2>1, <3>1
    <3> QED BY <1>2, <2>1, <2>3, <3>2 DEF Sumstep
  <2> QED BY <2>2, <2>3
<1> QED BY <1>3, SumIsFold

LEMMA SumSteps ==
  ASSUME NEW f, NEW S, IsFiniteSet(S)
  PROVE  Sum(f, S) = IF S = {} THEN 0
                     ELSE f[Element(S)] + Sum(f, S \ {Element(S)})
<1>2. Sumfold(f, S)[S] = Sumstep(f, Sumfold(f, S), S)
  BY FoldSolves
<1>3. \A T \in SUBSET S : Sumfold(f, S)[T] = Sum(f, T)
  BY FoldOfSubset
<1> QED BY <1>2, <1>3 DEF Sumstep

\* The sum of numbers is a number, and does not depend on the order.
LEMMA SumRemove ==
  ASSUME NEW B, IsFiniteSet(B), NEW f \in [B -> Nat], NEW S \in SUBSET B
  PROVE  /\ Sum(f, S) \in Nat
         /\ \A x \in S : Sum(f, S) = f[x] + Sum(f, S \ {x})
<1> DEFINE Good(U) == Sum(f, U) \in Nat /\ \A x \in U : Sum(f, U) = f[x] + Sum(f, U \ {x})
           Bad == {U \in SUBSET B : ~Good(U)}
<1>1. \A U \in SUBSET B : Sum(f, U) = IF U = {} THEN 0
                                      ELSE f[Element(U)] + Sum(f, U \ {Element(U)})
  BY SumSteps, FS_Subset
<1>2. Bad = {}
  <2> SUFFICES ASSUME Bad # {} PROVE FALSE
    OBVIOUS
  <2>1. PICK U \in Bad : \A V \in Bad : V \subseteq U => V = U
    <3>1. Bad \in SUBSET SUBSET B
      OBVIOUS
    <3> HIDE DEF Bad
    <3> QED BY <3>1, LeastSet
  <2>2. \A x \in U : Good(U \ {x})
    BY <2>1
  <2>3. U # {}
    <3>1. Sum(f, {}) = 0
      BY <1>1
    <3>2. Good({})
      BY <3>1
    <3> QED BY <2>1, <3>2
  <2> DEFINE c == Element(U)
  <2>4. c \in U /\ c \in B
    BY <2>3, ElementIn
  <2>5. Sum(f, U) = f[c] + Sum(f, U \ {c}) /\ Sum(f, U \ {c}) \in Nat
    BY <1>1, <2>2, <2>3, <2>4
  <2>6. Sum(f, U) \in Nat
    BY <2>4, <2>5
  <2> HIDE DEF c
  <2>7. ASSUME NEW x \in U
        PROVE  Sum(f, U) = f[x] + Sum(f, U \ {x})
    <3>1. CASE x = c
      BY <2>5, <3>1
    <3>2. CASE x # c
      <4>1. Sum(f, U \ {c}) = f[x] + Sum(f, (U \ {c}) \ {x})
        BY <2>2, <2>4, <3>2
      <4>2. Sum(f, U \ {x}) = f[c] + Sum(f, (U \ {x}) \ {c})
        BY <2>2, <2>4, <3>2
      <4>3. (U \ {c}) \ {x} = (U \ {x}) \ {c}
        OBVIOUS
      <4>4. f[x] \in Nat /\ f[c] \in Nat /\ Sum(f, (U \ {x}) \ {c}) \in Nat
        <5>1. (U \ {x}) \ {c} \in SUBSET B /\ (U \ {x}) \ {c} \subseteq U
              /\ (U \ {x}) \ {c} # U
          BY <2>4
        <5> QED BY <2>1, <2>4, <5>1
      <4> HIDE DEF Good, Bad
      <4> DEFINE z == Sum(f, (U \ {x}) \ {c})
      <4>5. Sum(f, U) = f[c] + (f[x] + z) /\ Sum(f, U \ {x}) = f[c] + z
        BY <2>5, <4>1, <4>2, <4>3
      <4>6. z \in Nat
        BY <4>4
      <4> HIDE DEF z
      <4> QED BY <4>4, <4>5, <4>6
    <3> QED BY <3>1, <3>2
  <2> QED BY <2>1, <2>6, <2>7
<1> QED BY <1>2

LEMMA SumAdd ==
  ASSUME NEW B, IsFiniteSet(B), NEW f \in [B -> Nat], NEW S \in SUBSET B,
         NEW x \in B, x \notin S
  PROVE  Sum(f, S \cup {x}) = f[x] + Sum(f, S)
<1>1. (S \cup {x}) \ {x} = S /\ S \cup {x} \in SUBSET B /\ x \in S \cup {x}
  OBVIOUS
<1> QED BY <1>1, SumRemove

\* Only what f is on the set matters.
LEMMA SumAgree ==
  ASSUME NEW B, IsFiniteSet(B), NEW f \in [B -> Nat], NEW g \in [B -> Nat],
         NEW S \in SUBSET B, \A x \in S : f[x] = g[x]
  PROVE  Sum(f, S) = Sum(g, S)
<1> DEFINE Bad == {U \in SUBSET S : Sum(f, U) # Sum(g, U)}
<1>1. Bad = {}
  <2> SUFFICES ASSUME Bad # {} PROVE FALSE
    OBVIOUS
  <2>1. IsFiniteSet(S)
    BY FS_Subset
  <2>2. PICK U \in Bad : \A V \in Bad : V \subseteq U => V = U
    <3>1. Bad \in SUBSET SUBSET S
      OBVIOUS
    <3> HIDE DEF Bad
    <3> QED BY <2>1, <3>1, LeastSet
  <2>3. U \in SUBSET B /\ U \subseteq S
    BY <2>2
  <2>4. CASE U = {}
    <3>1. Sum(f, {}) = 0 /\ Sum(g, {}) = 0
      BY SumSteps, FS_EmptySet
    <3> QED BY <2>2, <2>4, <3>1
  <2>5. CASE U # {}
    <3>1. PICK x \in U : TRUE
      BY <2>5
    <3>2. Sum(f, U \ {x}) = Sum(g, U \ {x})
      BY <2>2, <3>1
    <3>3. Sum(f, U) = f[x] + Sum(f, U \ {x})
      BY <2>3, <3>1, SumRemove
    <3>4. Sum(g, U) = g[x] + Sum(g, U \ {x})
      BY <2>3, <3>1, SumRemove
    <3> QED BY <2>2, <2>3, <3>1, <3>2, <3>3, <3>4
  <2> QED BY <2>4, <2>5
<1> QED BY <1>1

LEMMA SumSubset ==
  ASSUME NEW B, IsFiniteSet(B), NEW f \in [B -> Nat], NEW S \in SUBSET B,
         NEW T \in SUBSET S
  PROVE  Sum(f, T) <= Sum(f, S)
<1> DEFINE Bad == {U \in SUBSET S : T \subseteq U /\ ~(Sum(f, T) <= Sum(f, U))}
<1>1. Bad = {}
  <2> SUFFICES ASSUME Bad # {} PROVE FALSE
    OBVIOUS
  <2>1. IsFiniteSet(S)
    BY FS_Subset
  <2>2. PICK U \in Bad : \A V \in Bad : V \subseteq U => V = U
    <3>1. Bad \in SUBSET SUBSET S
      OBVIOUS
    <3> HIDE DEF Bad
    <3> QED BY <2>1, <3>1, LeastSet
  <2>3. U \in SUBSET B /\ U \subseteq S /\ T \subseteq U /\ T \in SUBSET B
    BY <2>2
  <2>4. Sum(f, T) \in Nat /\ Sum(f, U) \in Nat
    BY <2>3, SumRemove
  <2>5. PICK x \in U : x \notin T
    <3>1. U # T
      BY <2>2, <2>4
    <3> QED BY <2>3, <3>1
  <2>6. Sum(f, T) <= Sum(f, U \ {x})
    BY <2>2, <2>3, <2>5
  <2>7. Sum(f, U) = f[x] + Sum(f, U \ {x}) /\ Sum(f, U \ {x}) \in Nat
    <3>1. U \ {x} \in SUBSET B
      BY <2>3
    <3> QED BY <2>3, <2>5, <3>1, SumRemove
  <2>8. f[x] \in Nat /\ ~(Sum(f, T) <= Sum(f, U))
    BY <2>2, <2>3, <2>5
  <2> QED BY <2>4, <2>6, <2>7, <2>8
<1> QED BY <1>1

\* A sum grows by as much as one of its terms.
LEMMA SumGrow ==
  ASSUME NEW B, IsFiniteSet(B), NEW f \in [B -> Nat], NEW S \in SUBSET B,
         NEW x \in S, NEW k \in Nat, NEW g \in [B -> Nat],
         g[x] = f[x] + k, \A y \in S \ {x} : f[y] = g[y]
  PROVE  Sum(g, S) = Sum(f, S) + k
<1>1. x \in B /\ f[x] \in Nat /\ S \ {x} \in SUBSET B
  OBVIOUS
<1>2. Sum(f, S \ {x}) = Sum(g, S \ {x}) /\ Sum(f, S \ {x}) \in Nat
  BY <1>1, SumAgree, SumRemove
<1>3. Sum(f, S) = f[x] + Sum(f, S \ {x})
  BY SumRemove
<1>4. Sum(g, S) = g[x] + Sum(g, S \ {x})
  BY SumRemove
<1> QED BY <1>1, <1>2, <1>3, <1>4

-----------------------------------------------------------------------------
(* The ledger of the pool *)

\* What the pool has allocated, lent or dropped, and what somebody still has.
Accounted == memory \ OwnMemory
Somebodys(b) ==
  \/ \E i \in DOMAIN buffers : buffers[i] = b
  \/ \E t \in Thread : got[t] = b
  \/ \E m \in flying : m.buf = b

\* A thread has no memory before it has looked for some.
Empty ==
  \A t \in Thread : pc[t] \in {"idle", "found", "allocate", "copy"} => got[t] = None

\* After the context there are no publishers, and no pool once zenoh is done.
Gone == ~context =>
  /\ \A p \in Publisher : shut[p]
  /\ {m \in flying : m.pooled} = {} => buffers = <<>>

\* size_ is what the pool has, or more once memory has been short.
Balance ==
  /\ Sum(length, Accounted) <= size
  /\ context /\ ~failed => size = Sum(length, Accounted)

NothingLost == ~refused /\ ~failed => \A b \in memory : Somebodys(b)

Ledger == Referred /\ Empty /\ Gone /\ Balance /\ NothingLost

LEMMA InOwnMemory ==
  ASSUME NEW b \in Buffer
  PROVE  /\ b \in OwnMemory <=> \/ \E t \in Thread : got[t] = b /\ ~pooled[t]
                                \/ \E m \in flying : m.buf = b /\ ~m.pooled
         /\ b \in OwnMemory' <=> \/ \E t \in Thread : got'[t] = b /\ ~pooled'[t]
                                 \/ \E m \in flying' : m.buf = b /\ ~m.pooled
BY DEF OwnMemory, Held

LEMMA SizeIsSum ==
  SizeOf(memory \ OwnMemory) = Sum(length, Accounted)
BY DEF SizeOf, Sum, Accounted

LEMMA InitLedger == Init => Ledger
<1> SUFFICES ASSUME Init PROVE Ledger
  OBVIOUS
<1>1. Empty /\ Gone /\ NothingLost
  BY DEF Init, Empty, Gone, NothingLost
<1>2. Sum(length, Accounted) = 0 /\ size = 0
  <2>1. Accounted = {} /\ size = 0
    BY DEF Init, Accounted
  <2>2. Sum(length, {}) = 0
    BY SumSteps, FS_EmptySet
  <2> QED BY <2>1, <2>2
<1> QED BY <1>1, <1>2, InitReferred DEF Ledger, Balance

\* What a step may do to the accounts: nothing but to give a size away, to buy
\* a buffer, to let one grow, or to free.
Unspent ==
  /\ \A b \in Buffer : b \in Accounted' <=> b \in Accounted
  /\ \A b \in Accounted : length'[b] = length[b]
  /\ size' >= size
  /\ size' # size => failed'

Buys(b, n) ==
  /\ b \in Buffer /\ n \in Nat /\ b \notin Accounted
  /\ \A c \in Buffer : c \in Accounted' <=> c \in Accounted \/ c = b
  /\ length' = [length EXCEPT ![b] = n] /\ size' = size + n

Grows(b, k) ==
  /\ b \in Accounted /\ k \in Nat
  /\ \A c \in Buffer : c \in Accounted' <=> c \in Accounted
  /\ length' = [length EXCEPT ![b] = @ + k] /\ size' = size + k

Closes ==
  /\ \A b \in Buffer : b \in Accounted' => b \in Accounted
  /\ UNCHANGED <<length, size>> /\ ~context'

LEMMA BalanceKept ==
  ASSUME Inv, Inv', Balance, context' => context, ~failed' => ~failed,
         \/ Unspent \/ Closes
         \/ \E b \in Buffer, n \in Nat : Buys(b, n) \/ Grows(b, n)
  PROVE  Balance'
<1>1. /\ IsFiniteSet(Buffer) /\ size \in Nat /\ size' \in Nat
      /\ length \in [Buffer -> Nat] /\ length' \in [Buffer -> Nat]
      /\ Accounted \in SUBSET Buffer /\ Accounted' \in SUBSET Buffer
  BY PublishAssumption DEF Inv, TypeOK, Accounted
<1>2. Sum(length, Accounted) \in Nat /\ Sum(length', Accounted') \in Nat
  BY <1>1, SumRemove
<1>3. CASE Unspent
  <2>1. Accounted' = Accounted
    BY <1>1, <1>3 DEF Unspent
  <2>2. Sum(length', Accounted') = Sum(length, Accounted)
    BY <1>1, <1>3, <2>1, SumAgree DEF Unspent
  <2> QED BY <1>1, <1>2, <1>3, <2>2 DEF Unspent, Balance
<1>4. CASE Closes
  <2>1. Accounted' \in SUBSET Accounted /\ length' = length /\ size' = size
    BY <1>1, <1>4 DEF Closes
  <2>2. Sum(length, Accounted') <= Sum(length, Accounted)
    BY <1>1, <2>1, SumSubset
  <2> QED BY <1>1, <1>2, <1>4, <2>1, <2>2 DEF Closes, Balance
<1>5. ASSUME NEW b \in Buffer, NEW n \in Nat, Buys(b, n)
      PROVE  Balance'
  <2>1. Accounted' = Accounted \cup {b} /\ b \notin Accounted
    BY <1>1, <1>5 DEF Buys
  <2>2. length'[b] = n /\ \A c \in Accounted : length[c] = length'[c]
    BY <1>1, <1>5 DEF Buys
  <2>3. Sum(length', Accounted') = n + Sum(length', Accounted)
    BY <1>1, <2>1, <2>2, SumAdd
  <2>4. Sum(length', Accounted) = Sum(length, Accounted)
    BY <1>1, <2>2, SumAgree
  <2>5. size' = size + n
    BY <1>5 DEF Buys
  <2> QED BY <1>1, <1>2, <2>3, <2>4, <2>5 DEF Balance
<1>6. ASSUME NEW b \in Buffer, NEW k \in Nat, Grows(b, k)
      PROVE  Balance'
  <2>1. Accounted' = Accounted /\ b \in Accounted
    BY <1>1, <1>6 DEF Grows
  <2>2. Sum(length', Accounted') = Sum(length, Accounted) + k
    <3>1. length'[b] = length[b] + k /\ \A c \in Accounted \ {b} : length[c] = length'[c]
      BY <1>1, <1>6 DEF Grows
    <3>2. Sum(length', Accounted) = Sum(length, Accounted) + k
      BY <1>1, <2>1, <3>1, SumGrow
    <3> QED BY <2>1, <3>2
  <2>3. size' = size + k
    BY <1>6 DEF Grows
  <2> QED BY <1>1, <1>2, <2>2, <2>3 DEF Balance
<1> QED BY <1>3, <1>4, <1>5, <1>6

\* After the context nobody is in a call, and nobody comes.
LEMMA NobodyAfter ==
  ASSUME Inv, Referred, Gone, ~context
  PROVE  /\ \A t \in Thread : pc[t] = "idle"
         /\ \A t \in Thread : ~ThreadStep(t)
<1>1. \A t \in Thread : shut[PublisherOf[t]] /\ ~known[PublisherOf[t]]
  BY Constants DEF Gone, Referred
<1>2. \A t \in Thread : pc[t] = "idle"
  BY <1>1 DEF Referred
<1> QED BY <1>1, <1>2
        DEF ThreadStep, Find, Begin, GetShm, GetFromPool, GetOwn, BadAlloc, Serialize,
            SerializeFails, Put, BeginSerialized, PutSerialized, RefuseSerialized

LEMMA GoneKept ==
  ASSUME Inv, Referred, Gone, [Next]_vars
  PROVE  Gone'
<1>1. CASE UNCHANGED <<shut, context, flying, buffers>>
  BY <1>1 DEF Gone
<1>2. ASSUME NEW t \in Thread, ThreadStep(t) PROVE Gone'
  <2>1. context /\ context' = context
    BY <1>2, NobodyAfter DEF ThreadStep, Find, Begin, GetShm, GetFromPool, GetOwn,
       BadAlloc, Serialize, SerializeFails, Put, BeginSerialized, PutSerialized,
       RefuseSerialized
  <2> QED BY <2>1 DEF Gone
<1>3. ASSUME NEW p \in Publisher, Destroy(p) PROVE Gone'
  <2>1. known[p] /\ UNCHANGED context
    BY <1>3 DEF Destroy
  <2>2. context
    BY <2>1 DEF Gone, Referred
  <2> QED BY <2>1, <2>2 DEF Gone
<1>4. ASSUME NEW m \in flying, Release(m) PROVE Gone'
  <2>1. UNCHANGED <<shut, context>>
    BY <1>4 DEF Release
  <2>2. ~context /\ {n \in flying' : n.pooled} = {} => buffers' = <<>>
    BY <1>4 DEF Release, Unreferenced
  <2> QED BY <2>1, <2>2 DEF Gone
<1>5. CASE DropContext
  <2>1. UNCHANGED <<shut, flying>> /\ \A p \in Publisher : shut[p]
    BY <1>5 DEF DropContext
  <2>2. {m \in flying' : m.pooled} = {} => buffers' = <<>>
    BY <1>5, <2>1 DEF DropContext
  <2> QED BY <2>1, <2>2 DEF Gone
<1> QED BY <1>1, <1>2, <1>3, <1>4, <1>5 DEF Next, vars, pool

LEMMA EmptyKept ==
  ASSUME Inv, Empty, [Next]_vars
  PROVE  Empty'
<1> USE DEF Inv, TypeOK
<1>1. CASE UNCHANGED <<pc, got>>
  BY <1>1 DEF Empty
<1>2. ASSUME NEW t \in Thread, ThreadStep(t) PROVE Empty'
  <2>1. CASE Find(t) \/ Begin(t) \/ BeginSerialized(t) \/ RefuseSerialized(t)
    <3>1. /\ pc[t] \in {"idle", "found"} /\ UNCHANGED got
          /\ \E s \in Pc : pc' = [pc EXCEPT ![t] = s]
      BY <2>1 DEF Find, Begin, BeginSerialized, RefuseSerialized, Pc
    <3> QED BY <3>1 DEF Empty
  <2>2. ASSUME NEW x, NEW p, Got(t, x, p) PROVE Empty'
    <3>1. pc' = [pc EXCEPT ![t] = "serialize"] /\ got' = [got EXCEPT ![t] = x]
      BY <2>2 DEF Got
    <3> QED BY <3>1 DEF Empty
  <2>3. CASE Return(t)
    <3>1. pc' = [pc EXCEPT ![t] = "idle"] /\ got' = [got EXCEPT ![t] = None]
      BY <2>3 DEF Return
    <3> QED BY <3>1 DEF Empty
  <2>4. CASE Serialize(t)
    <3>1. pc' = [pc EXCEPT ![t] = "put"] /\ UNCHANGED got
      BY <2>4 DEF Serialize
    <3> QED BY <3>1 DEF Empty
  <2> QED BY <1>1, <1>2, <2>1, <2>2, <2>3, <2>4
          DEF ThreadStep, GetShm, GetFromPool, GetOwn, BadAlloc, SerializeFails,
              Put, PutSerialized
<1> QED BY <1>1, <1>2 DEF Next, Destroy, Release, DropContext, vars, threads

-----------------------------------------------------------------------------
(* What each step does to the accounts *)

\* The steps that move no memory.
Idle(t) ==
  /\ UNCHANGED <<memory, length, flying, buffers, size, context, refused, failed>>
  /\ \A u \in Thread \ {t} : got'[u] = got[u] /\ pooled'[u] = pooled[u]
  /\ got[t] # got'[t] => got[t] \notin Buffer /\ got'[t] \notin Buffer
  /\ pooled[t] # pooled'[t] => got[t] \notin Buffer

LEMMA IdleKeeps ==
  ASSUME Inv, Inv', NothingLost, NEW t \in Thread, Idle(t)
  PROVE  Unspent /\ NothingLost'
<1>1. \A b \in Buffer : b \in OwnMemory' <=> b \in OwnMemory
  BY InOwnMemory DEF Idle
<1>2. \A b \in Buffer : b \in Accounted' <=> b \in Accounted
  BY <1>1 DEF Accounted, Idle
<1>3. Unspent
  BY <1>2 DEF Unspent, Idle, Inv, TypeOK
<1>4. \A b \in Buffer : Somebodys(b) => Somebodys(b)'
  BY DEF Somebodys, Idle
<1>5. NothingLost'
  BY <1>4 DEF NothingLost, Idle, Inv, TypeOK
<1> QED BY <1>3, <1>5

LEMMA IdleSteps ==
  ASSUME Inv, Empty, NEW t \in Thread,
         \/ Find(t) \/ Begin(t) \/ GetShm(t) \/ Serialize(t) \/ BeginSerialized(t)
         \/ PutSerialized(t) \/ RefuseSerialized(t)
         \/ Put(t) /\ got[t] = Shm
  PROVE  Idle(t)
<1> USE DEF Inv, TypeOK, Idle
<1>1. CASE Find(t) \/ Begin(t) \/ Serialize(t) \/ BeginSerialized(t) \/ RefuseSerialized(t)
  BY <1>1 DEF Find, Begin, Serialize, BeginSerialized, RefuseSerialized, heap, pool, past
<1>2. CASE GetShm(t)
  <2>1. /\ got' = [got EXCEPT ![t] = Shm] /\ pooled' = [pooled EXCEPT ![t] = FALSE]
        /\ UNCHANGED <<memory, length, flying, buffers, size, context, refused, failed>>
        /\ got[t] = None
    BY <1>2 DEF GetShm, Got, heap, pool, past, Empty
  <2> QED BY <2>1, Constants
<1>3. CASE PutSerialized(t) \/ (Put(t) /\ got[t] = Shm)
  <2>1. /\ got' = [got EXCEPT ![t] = None] /\ pooled' = [pooled EXCEPT ![t] = FALSE]
        /\ UNCHANGED <<memory, length, flying, buffers, size, context, refused, failed>>
    BY <1>3 DEF Put, PutSerialized, Return, heap, pool, past
  <2>2. got[t] \notin Buffer
    BY <1>3, Constants DEF PutSerialized, Empty
  <2> QED BY <2>1, <2>2, Constants
<1> QED BY <1>1, <1>2, <1>3

\* The last element is all that taking from the pool takes.
LEMMA NewestOrOther ==
  ASSUME buffers \in Seq(Buffer), buffers # <<>>, NEW i \in DOMAIN buffers
  PROVE  buffers[i] = Newest \/ \E j \in DOMAIN Others : Others[j] = buffers[i]
<1>1. PICK k \in Nat : Len(buffers) = k /\ k >= 1
  <2>1. Len(buffers) \in Nat /\ Len(buffers) >= 1
    OBVIOUS
  <2> QED BY <2>1
<1>2. \A j \in 1 .. k - 1 : buffers[j] \in Buffer
  BY <1>1
<1>3. /\ Others \in Seq(Buffer)
      /\ Len(Others) = IF 1 <= k - 1 THEN (k - 1) - 1 + 1 ELSE 0
  BY <1>1, <1>2, SubSeqProperties DEF Others
<1>4. DOMAIN Others = 1 .. k - 1 /\ DOMAIN buffers = 1 .. k
  BY <1>1, <1>3, LenLess
<1>5. \A j \in DOMAIN Others : Others[j] = buffers[j]
  BY TakenFromPool
<1>6. i \in 1 .. k /\ (i \in 1 .. k - 1 \/ i = k)
  BY <1>4
<1> QED BY <1>1, <1>4, <1>5, <1>6 DEF Newest

\* Memory of the pool goes to a thread: what it owns itself is what it was.
LEMMA OwnAfterPool ==
  ASSUME Inv, NEW t \in Thread, NEW b \in Buffer, got[t] = None,
         Got(t, b, TRUE), UNCHANGED flying
  PROVE  \A c \in Buffer : c \in OwnMemory' <=> c \in OwnMemory
<1>1. /\ got'[t] = b /\ pooled'[t] = TRUE
      /\ \A u \in Thread \ {t} : got'[u] = got[u] /\ pooled'[u] = pooled[u]
  BY DEF Got, Inv, TypeOK
<1> QED BY <1>1, InOwnMemory, Constants

LEMMA OwnIsAllocated ==
  ASSUME Inv, NEW b \in Buffer, b \in OwnMemory
  PROVE  b \in memory /\ \A i \in DOMAIN buffers : buffers[i] # b
BY InOwnMemory DEF Inv, Disjoint

LEMMA NewIsBought ==
  ASSUME Inv, Empty, NothingLost, NEW t \in Thread, NEW b \in Buffer,
         AllocateNew(want[t], b), Got(t, b, TRUE), pc[t] = "allocate", UNCHANGED flying
  PROVE  Buys(b, want[t]) /\ NothingLost'
<1>1. /\ b \notin memory /\ memory' = memory \cup {b}
      /\ length' = [length EXCEPT ![b] = want[t]] /\ size' = size + want[t]
      /\ UNCHANGED <<buffers, refused, failed>>
  BY DEF AllocateNew, Malloc, past
<1>2. got[t] = None /\ want[t] \in Nat
  BY DEF Empty, Inv, TypeOK
<1>3. \A c \in Buffer : c \in OwnMemory' <=> c \in OwnMemory
  BY <1>2, OwnAfterPool
<1>4. b \notin OwnMemory
  BY <1>1, OwnIsAllocated
<1>5. \A c \in Buffer : c \in Accounted' <=> c \in Accounted \/ c = b
  BY <1>1, <1>3, <1>4 DEF Accounted
<1>6. Buys(b, want[t])
  BY <1>1, <1>2, <1>5 DEF Buys, Accounted
<1>7. /\ got'[t] = b
      /\ \A u \in Thread \ {t} : got'[u] = got[u]
  BY DEF Got, Inv, TypeOK
<1>8. \A c \in Buffer : Somebodys(c) \/ c = b => Somebodys(c)'
  BY <1>1, <1>2, <1>7, Constants DEF Somebodys
<1>9. NothingLost'
  BY <1>1, <1>8 DEF NothingLost, Inv, TypeOK
<1> QED BY <1>6, <1>9

LEMMA RecycledGrows ==
  ASSUME Inv, Empty, NothingLost, NEW t \in Thread, NEW b \in Buffer,
         Recycle(want[t], b), Got(t, b, TRUE), pc[t] = "allocate", UNCHANGED flying
  PROVE  (\E k \in Nat : Grows(b, k)) /\ NothingLost'
<1> DEFINE n == want[t]
           more == IF length[b] < n THEN n - length[b] ELSE 0
<1>1. /\ buffers # <<>> /\ b = Newest /\ buffers' = Others
      /\ size' = size + more /\ length' = [length EXCEPT ![b] = @ + more]
      /\ UNCHANGED <<memory, refused, failed>>
  BY DEF Recycle, past
<1>2. n \in Nat /\ length[b] \in Nat /\ got[t] = None /\ buffers \in Seq(Buffer)
  BY DEF Empty, Inv, TypeOK
<1>3. more \in Nat
  BY <1>2
<1> HIDE DEF more
<1>4. Len(buffers) \in DOMAIN buffers /\ buffers[Len(buffers)] = b
  BY <1>1, <1>2, TakenFromPool DEF Newest
<1>5. b \in memory /\ b \notin OwnMemory
  BY <1>4, OwnIsAllocated DEF Inv, Disjoint
<1>6. \A c \in Buffer : c \in Accounted' <=> c \in Accounted
  BY <1>1, <1>2, OwnAfterPool DEF Accounted
<1>7. Grows(b, more)
  BY <1>1, <1>3, <1>5, <1>6 DEF Grows, Accounted
<1>8. /\ got'[t] = b
      /\ \A u \in Thread \ {t} : got'[u] = got[u]
  BY DEF Got, Inv, TypeOK
<1>9. \A i \in DOMAIN buffers :
        buffers[i] = b \/ \E j \in DOMAIN buffers' : buffers'[j] = buffers[i]
  BY <1>1, <1>2, NewestOrOther
<1>10. \A c \in Buffer : Somebodys(c) => Somebodys(c)'
  BY <1>2, <1>8, <1>9, Constants DEF Somebodys
<1>11. NothingLost'
  BY <1>1, <1>10 DEF NothingLost, Inv, TypeOK
<1> QED BY <1>3, <1>7, <1>11

\* allocate() fails: a size may stay accounted for, a buffer may be dropped.
LEMMA FailureIsNoted ==
  ASSUME Inv, NEW t \in Thread, AllocateFails(want[t])
  PROVE  /\ size' >= size /\ (size' # size => failed') /\ (failed => failed')
         /\ \/ UNCHANGED buffers /\ UNCHANGED refused
            \/ refused'
<1>1. size \in Nat /\ want[t] \in Nat
  BY DEF Inv, TypeOK
<1> QED BY <1>1 DEF AllocateFails, pool, past

LEMMA OwnIsUnspent ==
  ASSUME Inv, Inv', Empty, NothingLost, NEW t \in Thread, GetOwn(t)
  PROVE  Unspent /\ NothingLost' /\ (failed => failed')
<1>1. PICK b \in Buffer : Malloc(b, want[t]) /\ Got(t, b, FALSE)
  BY DEF GetOwn
<1>2. /\ AllocateFails(want[t]) /\ pc[t] = "allocate" /\ UNCHANGED flying
      /\ b \notin memory /\ memory' = memory \cup {b}
      /\ length' = [length EXCEPT ![b] = want[t]]
  BY <1>1 DEF GetOwn, Malloc
<1>3. /\ got[t] = None /\ got'[t] = b /\ pooled'[t] = FALSE
      /\ \A u \in Thread \ {t} : got'[u] = got[u] /\ pooled'[u] = pooled[u]
  BY <1>1, <1>2 DEF Got, Empty, Inv, TypeOK
<1>4. \A c \in Buffer : c \in OwnMemory' <=> c \in OwnMemory \/ c = b
  BY <1>2, <1>3, InOwnMemory, Constants
<1>5. \A c \in Buffer : c \in Accounted' <=> c \in Accounted
  BY <1>2, <1>4 DEF Accounted
<1>6. \A c \in Accounted : length'[c] = length[c]
  BY <1>2 DEF Accounted, Inv, TypeOK
<1>7. Unspent /\ (failed => failed')
  BY <1>2, <1>5, <1>6, FailureIsNoted DEF Unspent
<1>8. CASE UNCHANGED <<buffers, refused>>
  <2>1. \A c \in Buffer : Somebodys(c) \/ c = b => Somebodys(c)'
    BY <1>2, <1>3, <1>8, Constants DEF Somebodys
  <2>2. NothingLost'
    BY <1>2, <1>7, <1>8, <2>1 DEF NothingLost, Inv, TypeOK
  <2> QED BY <1>7, <2>2
<1>9. CASE refused'
  BY <1>7, <1>9 DEF NothingLost
<1> QED BY <1>2, <1>8, <1>9, FailureIsNoted

LEMMA BadAllocIsUnspent ==
  ASSUME Inv, Inv', Empty, NothingLost, NEW t \in Thread, BadAlloc(t)
  PROVE  Unspent /\ NothingLost' /\ (failed => failed')
<1>1. /\ AllocateFails(want[t]) /\ pc[t] = "allocate"
      /\ UNCHANGED <<flying, memory, length>>
      /\ got' = [got EXCEPT ![t] = None] /\ pooled' = [pooled EXCEPT ![t] = FALSE]
  BY DEF BadAlloc, Return, heap
<1>2. /\ got[t] = None /\ got'[t] = None
      /\ \A u \in Thread \ {t} : got'[u] = got[u] /\ pooled'[u] = pooled[u]
  BY <1>1 DEF Empty, Inv, TypeOK
<1>3. \A c \in Buffer : c \in OwnMemory' <=> c \in OwnMemory
  BY <1>1, <1>2, InOwnMemory, Constants
<1>4. Unspent /\ (failed => failed')
  BY <1>1, <1>3, FailureIsNoted DEF Unspent, Accounted
<1>5. CASE UNCHANGED <<buffers, refused>>
  <2>1. \A c \in Buffer : Somebodys(c) => Somebodys(c)'
    BY <1>1, <1>2, <1>5, Constants DEF Somebodys
  <2>2. NothingLost'
    BY <1>1, <1>4, <1>5, <2>1 DEF NothingLost, Inv, TypeOK
  <2> QED BY <1>4, <2>2
<1>6. CASE refused'
  BY <1>4, <1>6 DEF NothingLost
<1> QED BY <1>1, <1>5, <1>6, FailureIsNoted

LEMMA SerializeFailsIsUnspent ==
  ASSUME Inv, Inv', NEW t \in Thread, SerializeFails(t)
  PROVE  Unspent /\ NothingLost' /\ (failed => failed')
<1>1. /\ failed' = TRUE /\ UNCHANGED <<flying, length, size>>
      /\ memory' = IF got[t] = Shm \/ pooled[t] THEN memory ELSE memory \ {got[t]}
      /\ got' = [got EXCEPT ![t] = None] /\ pooled' = [pooled EXCEPT ![t] = FALSE]
      /\ got[t] \in Buffer \cup {Shm}
  BY DEF SerializeFails, Return, pool, Inv, Busy, TypeOK
<1>2. /\ got'[t] = None
      /\ \A u \in Thread \ {t} : got'[u] = got[u] /\ pooled'[u] = pooled[u]
  BY <1>1 DEF Inv, TypeOK
<1>3. CASE got[t] = Shm \/ pooled[t]
  <2>1. \A c \in Buffer : c \in OwnMemory' <=> c \in OwnMemory
    BY <1>1, <1>2, <1>3, InOwnMemory, Constants
  <2> QED BY <1>1, <1>3, <2>1 DEF Unspent, NothingLost, Accounted, Inv, TypeOK
<1>4. CASE got[t] \in Buffer /\ ~pooled[t]
  <2>1. \A u \in Thread \ {t} : got[u] # got[t]
    BY <1>4 DEF Inv, Disjoint
  <2>2. got[t] \in OwnMemory
    BY <1>4, InOwnMemory
  <2>3. \A m \in flying : m.buf # got[t]
    BY <1>4 DEF Inv, Disjoint
  <2>4. \A c \in Buffer : c \in OwnMemory' <=> c \in OwnMemory /\ c # got[t]
    BY <1>1, <1>2, <1>4, <2>1, <2>3, InOwnMemory, Constants
  <2>5. memory' = memory \ {got[t]}
    BY <1>1, <1>4, Constants
  <2>6. \A c \in Buffer : c \in Accounted' <=> c \in Accounted
    BY <2>2, <2>4, <2>5 DEF Accounted
  <2> QED BY <1>1, <2>6 DEF Unspent, NothingLost, Inv, TypeOK
<1> QED BY <1>1, <1>3, <1>4

\* What a thread had is zenoh's.
LEMMA PutIsUnspent ==
  ASSUME Inv, Inv', NothingLost, NEW t \in Thread, Put(t), got[t] # Shm
  PROVE  Unspent /\ NothingLost' /\ UNCHANGED failed
<1> DEFINE x == [pub |-> PublisherOf[t], seq |-> next[PublisherOf[t]],
                 buf |-> got[t], pooled |-> pooled[t]]
<1>1. /\ UNCHANGED <<memory, length, buffers, size, refused, failed>>
      /\ flying' = flying \cup {x}
      /\ got' = [got EXCEPT ![t] = None] /\ pooled' = [pooled EXCEPT ![t] = FALSE]
  BY DEF Put, Return, heap, pool, past
<1>2. x.buf = got[t] /\ x.pooled = pooled[t]
  OBVIOUS
<1> HIDE DEF x
<1>3. /\ got'[t] = None
      /\ \A u \in Thread \ {t} : got'[u] = got[u] /\ pooled'[u] = pooled[u]
  BY <1>1 DEF Inv, TypeOK
<1>4. \A c \in Buffer : c \in OwnMemory' <=> c \in OwnMemory
  BY <1>1, <1>2, <1>3, InOwnMemory, Constants
<1>5. \A c \in Buffer : Somebodys(c) => Somebodys(c)'
  BY <1>1, <1>2, <1>3, Constants DEF Somebodys
<1>6. Unspent
  BY <1>1, <1>4 DEF Unspent, Accounted, Inv, TypeOK
<1>7. NothingLost'
  BY <1>1, <1>5 DEF NothingLost, Inv, TypeOK
<1> QED BY <1>1, <1>6, <1>7

\* zenoh's memory goes back to the pool or is freed, and with the last of it
\* the pool when the context is gone.
LEMMA ReleaseIsUnspent ==
  ASSUME Inv, Inv', NothingLost, NEW m \in flying, Release(m)
  PROVE  (Unspent \/ Closes) /\ NothingLost'
<1> DEFINE r == IF m.pooled THEN Append(buffers, m.buf) ELSE buffers
           f == IF m.pooled THEN {} ELSE {m.buf}
           R == {r[i] : i \in DOMAIN r}
<1>1. /\ flying' = flying \ {m}
      /\ \/ ~context /\ buffers' = <<>> /\ memory' = memory \ (f \cup R)
         \/ buffers' = r /\ memory' = memory \ f
      /\ UNCHANGED <<got, pooled, length, size, context, refused, failed>>
  BY DEF Release, Unreferenced, threads, past
<1>2. /\ m.buf \in Buffer /\ m.buf \in memory
      /\ \A n \in flying \ {m} : n.buf # m.buf
      /\ \A u \in Thread : got[u] # m.buf
      /\ m.pooled \in BOOLEAN
  BY DEF Inv, TypeOK, Disjoint, Payload
<1>3. /\ \A i \in DOMAIN buffers : i \in DOMAIN r /\ r[i] = buffers[i]
      /\ m.pooled => \E i \in DOMAIN r : r[i] = m.buf
  <2>1. CASE m.pooled
    <3>1. PICK k \in Nat : Len(buffers) = k
      BY DEF Inv, TypeOK
    <3>2. r = Append(buffers, m.buf) /\ buffers \in Seq(Buffer)
      BY <2>1 DEF Inv, TypeOK
    <3> HIDE DEF r
    <3>3. /\ DOMAIN r = 1 .. k + 1 /\ DOMAIN buffers = 1 .. k /\ r[k + 1] = m.buf
          /\ \A i \in 1 .. k : r[i] = buffers[i]
      BY <1>2, <3>1, <3>2
    <3>4. k + 1 \in 1 .. k + 1 /\ \A i \in 1 .. k : i \in 1 .. k + 1
      OBVIOUS
    <3> QED BY <3>3, <3>4
  <2>2. CASE ~m.pooled
    BY <2>2
  <2> QED BY <2>1, <2>2
<1>4. \A c \in Buffer : c \in f <=> ~m.pooled /\ c = m.buf
  BY <1>2
<1>5. \A c \in Buffer : c \in OwnMemory' <=> c \in OwnMemory /\ c \notin f
  BY <1>1, <1>2, <1>4, InOwnMemory
<1>6. \A c \in f : c \in OwnMemory
  BY <1>2, InOwnMemory
<1> HIDE DEF f, r
<1>7. CASE ~context /\ buffers' = <<>> /\ memory' = memory \ (f \cup R)
  <2>1. \A c \in Buffer : c \in Accounted' => c \in Accounted
    BY <1>5, <1>7 DEF Accounted
  <2>2. Closes
    BY <1>1, <1>7, <2>1 DEF Closes
  <2>3. \A c \in memory' : (\A i \in DOMAIN buffers : buffers[i] # c) /\ c # m.buf
    BY <1>2, <1>3, <1>4, <1>7 DEF Inv, TypeOK
  <2>4. \A c \in memory' : Somebodys(c) => Somebodys(c)'
    BY <1>1, <2>3 DEF Somebodys
  <2>5. NothingLost'
    BY <1>1, <1>7, <2>4 DEF NothingLost
  <2> QED BY <2>2, <2>5
<1>8. CASE buffers' = r /\ memory' = memory \ f
  <2>1. \A c \in Buffer : c \in Accounted' <=> c \in Accounted
    BY <1>5, <1>6, <1>8 DEF Accounted
  <2>2. Unspent
    BY <1>1, <2>1 DEF Unspent, Inv, TypeOK
  <2>3. \A c \in Buffer : Somebodys(c) /\ c \notin f => Somebodys(c)'
    BY <1>1, <1>2, <1>3, <1>4, <1>8 DEF Somebodys
  <2>4. NothingLost'
    BY <1>1, <1>8, <2>3 DEF NothingLost, Inv, TypeOK
  <2> QED BY <2>2, <2>4
<1> QED BY <1>1, <1>7, <1>8

LEMMA DropContextCloses ==
  ASSUME Inv, Inv', NothingLost, DropContext
  PROVE  Closes /\ NothingLost' /\ UNCHANGED failed
<1>1. /\ ~context' /\ UNCHANGED <<got, pooled, flying, length, size, refused, failed>>
      /\ \/ UNCHANGED <<buffers, memory>>
         \/ buffers' = <<>> /\ memory' = memory \ InPool
  BY DEF DropContext, threads, past
<1>2. \A c \in Buffer : c \in OwnMemory' <=> c \in OwnMemory
  BY <1>1, InOwnMemory
<1>3. Closes
  BY <1>1, <1>2 DEF Closes, Accounted
<1>4. \A c \in memory' : Somebodys(c) => Somebodys(c)'
  BY <1>1 DEF Somebodys, InPool
<1>5. NothingLost'
  BY <1>1, <1>4 DEF NothingLost
<1> QED BY <1>1, <1>3, <1>5

LEMMA ThreadLedger ==
  ASSUME Inv, Inv', Ledger, NEW t \in Thread, ThreadStep(t)
  PROVE  Balance' /\ NothingLost'
<1> USE DEF Ledger
<1>1. context' = context
  BY DEF ThreadStep, Find, Begin, GetShm, GetFromPool, GetOwn, BadAlloc, Serialize,
         SerializeFails, Put, BeginSerialized, PutSerialized, RefuseSerialized
<1>2. ASSUME Idle(t) PROVE Balance' /\ NothingLost'
  BY <1>1, <1>2, IdleKeeps, BalanceKept DEF Idle
<1>3. CASE GetFromPool(t)
  <2>1. PICK b \in Buffer : AllocateFromPool(want[t], b) /\ Got(t, b, TRUE)
    BY <1>3 DEF GetFromPool
  <2>2. pc[t] = "allocate" /\ UNCHANGED flying /\ want[t] \in Nat
    BY <1>3 DEF GetFromPool, Inv, TypeOK
  <2>3. UNCHANGED failed
    BY <2>1 DEF AllocateFromPool, AllocateNew, Recycle, past
  <2>4. NothingLost' /\ \E n \in Nat : Buys(b, n) \/ Grows(b, n)
    BY <2>1, <2>2, NewIsBought, RecycledGrows DEF AllocateFromPool
  <2> QED BY <1>1, <2>3, <2>4, BalanceKept
<1>4. CASE GetOwn(t) \/ BadAlloc(t)
  BY <1>1, <1>4, OwnIsUnspent, BadAllocIsUnspent, BalanceKept
<1>5. CASE SerializeFails(t)
  BY <1>1, <1>5, SerializeFailsIsUnspent, BalanceKept
<1>6. CASE Put(t) /\ got[t] # Shm
  BY <1>1, <1>6, PutIsUnspent, BalanceKept
<1>7. CASE Put(t) /\ got[t] = Shm
  BY <1>2, <1>7, IdleSteps
<1>8. CASE Find(t) \/ Begin(t) \/ GetShm(t) \/ Serialize(t)
  BY <1>2, <1>8, IdleSteps
<1>9. CASE BeginSerialized(t) \/ PutSerialized(t) \/ RefuseSerialized(t)
  BY <1>2, <1>9, IdleSteps
<1> HIDE DEF Ledger
<1> QED BY <1>3, <1>4, <1>5, <1>6, <1>7, <1>8, <1>9 DEF ThreadStep

LEMMA LedgerKept ==
  ASSUME Inv, Inv', Ledger, [Next]_vars
  PROVE  Ledger'
<1>1. Referred' /\ Empty' /\ Gone'
  BY ReferredKept, EmptyKept, GoneKept DEF Ledger
<1>2. CASE UNCHANGED vars
  <2>1. UNCHANGED <<memory, OwnMemory, length, size, context, failed, refused>>
    BY <1>2 DEF vars, threads, heap, pool, past, OwnMemory, Held
  <2>2. Balance'
    BY <2>1 DEF Ledger, Balance, Accounted
  <2>3. \A b \in memory : Somebodys(b) => Somebodys(b)'
    BY <1>2 DEF vars, threads, pool, Somebodys
  <2> QED BY <1>1, <2>1, <2>2, <2>3 DEF Ledger, NothingLost
<1>3. ASSUME NEW p \in Publisher, Destroy(p) PROVE Ledger'
  <2>1. UNCHANGED <<memory, OwnMemory, length, size, context, failed, refused>>
    BY <1>3 DEF Destroy, threads, heap, pool, past, OwnMemory, Held
  <2>2. Balance'
    BY <2>1 DEF Ledger, Balance, Accounted
  <2>3. \A b \in memory : Somebodys(b) => Somebodys(b)'
    BY <1>3 DEF Destroy, threads, pool, Somebodys
  <2> QED BY <1>1, <2>1, <2>2, <2>3 DEF Ledger, NothingLost
<1>4. ASSUME NEW t \in Thread, ThreadStep(t) PROVE Ledger'
  BY <1>1, <1>4, ThreadLedger DEF Ledger
<1>5. ASSUME NEW m \in flying, Release(m) PROVE Ledger'
  <2>1. (Unspent \/ Closes) /\ NothingLost'
    BY <1>5, ReleaseIsUnspent DEF Ledger
  <2>2. UNCHANGED <<context, failed>>
    BY <1>5 DEF Release, past
  <2>3. Balance'
    BY <2>1, <2>2, BalanceKept DEF Ledger
  <2> QED BY <1>1, <2>1, <2>3 DEF Ledger
<1>6. CASE DropContext
  <2>1. Closes /\ NothingLost' /\ UNCHANGED failed
    BY <1>6, DropContextCloses DEF Ledger
  <2>2. context' => context
    BY <1>6 DEF DropContext
  <2>3. Balance'
    BY <2>1, <2>2, BalanceKept DEF Ledger
  <2> QED BY <1>1, <2>1, <2>3 DEF Ledger
<1> QED BY <1>2, <1>3, <1>4, <1>5, <1>6 DEF Next

LEMMA LedgerHolds == Spec => []Ledger
<1>1. Inv /\ Ledger /\ Inv' /\ [Next]_vars => Ledger'
  BY LedgerKept
<1> QED BY <1>1, InitLedger, InvHolds, PTL DEF Spec

\* The buffers of the pool, those threads and zenoh have and those that were
\* dropped take together no more than size_, which never passes the limit: for
\* any number of publishers, threads, buffers and message sizes, and whatever
\* malloc, realloc or a serialization does.
THEOREM PoolStaysWithinLimit == Spec => []PoolWithinLimit
<1>1. Ledger /\ size <= MaxSize => PoolWithinLimit
  BY SizeIsSum DEF Ledger, Balance, PoolWithinLimit
<1> QED BY <1>1, LedgerHolds, PoolIsLimited, PTL

LEMMA NothingLeft ==
  ASSUME Inv, Ledger, ~context, flying = {}, \A b \in memory : Somebodys(b)
  PROVE  memory = {}
<1>1. buffers = <<>>
  BY DEF Ledger, Gone
<1>2. \A t \in Thread : got[t] = None
  BY NobodyAfter DEF Ledger, Empty
<1>3. \A b \in Buffer : ~Somebodys(b)
  BY <1>1, <1>2, Constants DEF Somebodys
<1> QED BY <1>3 DEF Inv, TypeOK

\* Unless memory was short, a serialization failed or the pool dropped a buffer,
\* what is allocated is in somebody's hands, size_ is exact, and all has been
\* freed once the context is gone and zenoh is done.
THEOREM MemoryIsNotLost == Spec => []NoMemoryLost
<1>1. ASSUME Inv, Ledger PROVE NoMemoryLost
  <2> SUFFICES ASSUME ~refused, ~failed
               PROVE  /\ memory = Owned
                      /\ context => size = SizeOf(memory \ OwnMemory)
                      /\ ~context /\ flying = {} => memory = {}
    BY DEF NoMemoryLost
  <2>1. \A b \in memory : Somebodys(b)
    BY <1>1 DEF Ledger, NothingLost
  <2>2. memory \subseteq Owned
    <3> SUFFICES ASSUME NEW b \in memory PROVE b \in Owned
      OBVIOUS
    <3>1. b \in Buffer /\ Somebodys(b)
      BY <1>1, <2>1 DEF Inv, TypeOK
    <3> QED BY <3>1 DEF Somebodys, Owned, InPool, Held
  <2>3. Owned \subseteq memory
    BY <1>1 DEF Owned, InPool, Held, Inv, Disjoint
  <2>4. context => size = SizeOf(memory \ OwnMemory)
    BY <1>1, SizeIsSum DEF Ledger, Balance
  <2> QED BY <1>1, <2>1, <2>2, <2>3, <2>4, NothingLeft
<1> QED BY <1>1, InvHolds, LedgerHolds, PTL
=============================================================================
