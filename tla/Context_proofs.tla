---------------------------- MODULE Context_proofs ----------------------------
(* Proofs about Context, for any threads, nodes and handles. *)
EXTENDS Context, TLAPS

-----------------------------------------------------------------------------
(* The inductive invariant *)

Creating == {"node", "entity", "session", "make", "declare"}

\* What a thread has with it at each place in a call.
PlaceOf(t) ==
  /\ pc[t] \notin {"make", "declare", "finish", "drop"} => job[t].id = None
  /\ pc[t] \in {"make", "declare", "finish", "drop"} => job[t].id \in Nat
  /\ pc[t] \in Creating \cup {"finish"} => job[t].node \in Node
  /\ pc[t] \in {"entity", "session", "make", "declare", "finish"} =>
       job[t].kind \in Kinds
  /\ pc[t] \in {"session", "make", "declare", "finish"} => job[t].handle \in Handle
  /\ pc[t] \notin {"make", "declare"} => ~job[t].holds
  /\ pc[t] = "declare" => job[t].holds
  /\ pc[t] = "finish" => Entry(job[t]) \in entries \ owned

Places == \A t \in Thread : PlaceOf(t)

\* Identifiers count up, so a new one is nobody's yet.
Counted ==
  /\ \A x \in nodes : x.id < next_entity_id
  /\ \A e \in entries : e.id < next_entity_id
  /\ \A t \in Thread : job[t].id # None => job[t].id < next_entity_id

Ids ==
  /\ \A x \in nodes, e \in entries : x.id # e.id
  /\ \A x, y \in nodes : x.id = y.id => x = y
  /\ \A d, e \in entries : d.id = e.id => d = e
  /\ \A t, u \in Thread : job[t].id # None /\ job[t].id = job[u].id => t = u
  /\ \A t \in Thread, x \in nodes : x.id # job[t].id
  /\ \A t \in Thread, e \in entries : pc[t] # "finish" => e.id # job[t].id

\* As long as nothing was left behind, the maps have what rcl has or is about to
\* get, and nobody keeps the mutex.
Books ==
  ~orphaned =>
    /\ mutex = None
    /\ \A e \in entries :
         e \in owned \/ \E t \in Thread : pc[t] = "finish" /\ Entry(job[t]) = e

\* A session that is not there was taken away by rmw_shutdown().
Stopping ==
  /\ impl = "none" => ~is_shutdown /\ \A t \in Thread : pc[t] = "idle"
  /\ impl # "none" /\ ~session => is_shutdown
  /\ \A t \in Thread : pc[t] = "reset" => is_shutdown
  /\ \A t \in Thread : pc[t] = "make" /\ ~job[t].holds => is_shutdown
  /\ is_shutdown => \A t \in Thread : pc[t] \in Creating => t \in raced
  /\ crashed # None => crashed \in raced

\* Who closes the session is the last who had it, and nobody gets it again.
Gone ==
  closed \/ (\E t \in Thread : pc[t] = "close") =>
    /\ impl # "none"
    /\ ~Shared(session, entries, pc, job, callback)

\* The tokens are those of the nodes and of the data somebody has.
Shown ==
  /\ callback.what = "data" <=> callback.id # None
  /\ ~closed => tokens = {n.id : n \in nodes} \cup Data(entries, pc, job, callback)

\* Nothing happens before rmw_init().
Before ==
  impl = "none" => ~subscribed /\ entries = {} /\ callback = Quiet

Inv ==
  /\ TypeOK /\ Places /\ Counted /\ Ids /\ Books /\ Stopping /\ Gone /\ Shown
  /\ Before

LEMMA Constants ==
  None \notin Thread /\ None \notin Node /\ None \notin Nat
BY ContextAssumption

LEMMA InitInv == Init => Inv
<1> SUFFICES ASSUME Init PROVE Inv
  OBVIOUS
<1>1. NoJob \in JobType
  BY DEF NoJob, JobType
<1>2. TypeOK
  <2>1. pc \in [Thread -> Pc] /\ job \in [Thread -> JobType]
    BY <1>1 DEF Init, Pc
  <2>2. callback \in [what : {"idle", "graph", "data"}, id : Nat \cup {None}]
    BY DEF Init, Quiet
  <2>3. is_shutdown \in BOOLEAN /\ session \in BOOLEAN /\ subscribed \in BOOLEAN
        /\ closed \in BOOLEAN /\ orphaned \in BOOLEAN
    BY DEF Init
  <2>4. /\ impl \in {"none", "up", "fini"} /\ next_entity_id \in Nat
        /\ mutex \in Thread \cup {None} /\ building \in [Node -> Thread \cup {None}]
        /\ nodes \subseteq [node : Node, id : Nat]
        /\ entries \subseteq EntryType /\ owned \subseteq entries
        /\ tokens \subseteq Nat /\ raced \subseteq Thread /\ crashed \in Thread \cup {None}
    BY DEF Init
  <2> QED BY <2>1, <2>2, <2>3, <2>4 DEF TypeOK
<1>3. \A t \in Thread : pc[t] = "idle" /\ job[t] = NoJob
  BY DEF Init
<1>4. Places /\ Counted /\ Ids
  <2>1. Places
    BY <1>3 DEF Places, PlaceOf, NoJob, Creating
  <2>2. Counted
    BY <1>3 DEF Init, Counted, NoJob
  <2>3. Ids
    BY <1>3 DEF Init, Ids, NoJob
  <2> QED BY <2>1, <2>2, <2>3
<1>5. Books /\ Stopping /\ Gone
  BY <1>3 DEF Init, Books, Stopping, Gone, Creating
<1>6. Shown
  <2>1. Data(entries, pc, job, callback) = {}
    BY <1>3 DEF Init, Data, Quiet
  <2>2. {n.id : n \in nodes} = {} /\ tokens = {}
    BY DEF Init
  <2>3. callback.what = "idle" /\ callback.id = None
    BY DEF Init, Quiet
  <2> QED BY <2>1, <2>2, <2>3 DEF Shown
<1>7. Before
  BY DEF Init, Before
<1> QED BY <1>2, <1>4, <1>5, <1>6, <1>7 DEF Inv

-----------------------------------------------------------------------------
(* How a thread moves *)

Moves(t) ==
  /\ pc' \in [Thread -> Pc] /\ job' \in [Thread -> JobType]
  /\ \A u \in Thread \ {t} : pc'[u] = pc[u] /\ job'[u] = job[u]

LEMMA GotoMoves ==
  ASSUME TypeOK, NEW t \in Thread, NEW p \in Pc, NEW j \in JobType, Goto(t, p, j)
  PROVE  Moves(t) /\ pc'[t] = p /\ job'[t] = j
BY DEF Goto, Moves, TypeOK

\* A thread that is not dropping has no data that counts, whatever its job.
LEMMA DataOfOthers ==
  ASSUME NEW t \in Thread, NEW e, NEW p, NEW j, NEW q, NEW k, NEW c,
         \A u \in Thread \ {t} : q[u] = p[u] /\ k[u] = j[u],
         p[t] # "drop", q[t] # "drop"
  PROVE  Data(e, q, k, c) = Data(e, p, j, c)
<1>1. {j[u].id : u \in {v \in Thread : p[v] = "drop"}}
        = {k[u].id : u \in {v \in Thread : q[v] = "drop"}}
  OBVIOUS
<1> QED BY <1>1 DEF Data

LEMMA ReturnMoves ==
  ASSUME TypeOK, NEW t \in Thread, NEW s, Return(t, s)
  PROVE  /\ Moves(t) /\ job'[t] = NoJob
         /\ pc'[t] \in {"idle", "close"}
         /\ pc'[t] = "close" => ~Shared(s, entries, pc', job', callback)
<1> DEFINE p == [pc EXCEPT ![t] = "idle"]
           j == [job EXCEPT ![t] = NoJob]
<1>1. NoJob \in JobType
  BY DEF NoJob, JobType
<1>2. /\ job' = j
      /\ pc' = IF LetsGoLast(s, entries, p, j, callback)
               THEN [pc EXCEPT ![t] = "close"] ELSE p
  BY DEF Return
<1>3. pc \in [Thread -> Pc] /\ job \in [Thread -> JobType]
  BY DEF TypeOK
<1>4. Moves(t) /\ job'[t] = NoJob /\ pc'[t] \in {"idle", "close"}
  BY <1>1, <1>2, <1>3 DEF Moves, Pc
<1>5. ASSUME pc'[t] = "close" PROVE ~Shared(s, entries, pc', job', callback)
  <2>1. ~Shared(s, entries, p, j, callback)
    BY <1>2, <1>3, <1>5 DEF LetsGoLast
  <2>2. \A u \in Thread \ {t} : pc'[u] = p[u] /\ job'[u] = j[u]
    BY <1>2, <1>3
  <2>3. p[t] # "drop" /\ pc'[t] # "drop"
    BY <1>3, <1>5
  <2>4. Data(entries, pc', job', callback) = Data(entries, p, j, callback)
    <3> HIDE DEF p, j
    <3> QED BY <2>2, <2>3, DataOfOthers
  <2>5. job' = j
    BY <1>2
  <2> HIDE DEF p, j
  <2> QED BY <2>1, <2>4, <2>5 DEF Shared
<1> QED BY <1>4, <1>5

-----------------------------------------------------------------------------
(* A call goes on *)

\* Thread t goes on with the creation of something; nobody else is disturbed.
Onward(t) ==
  /\ Moves(t) /\ PlaceOf(t)'
  /\ impl # "none"
  /\ pc[t] \in {"idle"} \cup Creating /\ pc'[t] \in Creating
  /\ pc[t] = "idle" => ~is_shutdown
  /\ job'[t].holds => session \/ job[t].holds
  /\ pc'[t] = "make" /\ ~job'[t].holds => is_shutdown
  /\ building' \in [Node -> Thread \cup {None}]
  /\ UNCHANGED <<impl, is_shutdown, session, subscribed, mutex, maps, tokens,
                 closed, callback, past, crashed>>

\* The identifier it has then is the one it had, or a new one.
Numbered(t) ==
  \/ job'[t].id \in {None, job[t].id} /\ UNCHANGED next_entity_id
  \/ job'[t].id = next_entity_id /\ next_entity_id' = next_entity_id + 1

LEMMA OnwardKeeps ==
  ASSUME Inv, NEW t \in Thread, Onward(t), Numbered(t)
  PROVE  Inv'
<1>1. /\ pc \in [Thread -> Pc] /\ job \in [Thread -> JobType]
      /\ next_entity_id \in Nat /\ pc' \in [Thread -> Pc] /\ job' \in [Thread -> JobType]
      /\ \A u \in Thread \ {t} : pc'[u] = pc[u] /\ job'[u] = job[u]
  BY DEF Inv, TypeOK, Onward, Moves
<1>2. TypeOK'
  <2>1. next_entity_id' \in Nat
    BY <1>1 DEF Numbered
  <2>2. pc' \in [Thread -> Pc] /\ job' \in [Thread -> JobType]
    BY <1>1
  <2> QED BY <2>1, <2>2 DEF Inv, TypeOK, Onward, maps, past
<1>3. Places'
  <2> SUFFICES ASSUME NEW u \in Thread PROVE PlaceOf(u)'
    BY DEF Places
  <2>1. CASE u = t
    BY <2>1 DEF Onward
  <2>2. CASE u # t
    <3>1. PlaceOf(u)
      BY DEF Inv, Places
    <3> QED BY <1>1, <2>2, <3>1 DEF PlaceOf, Entry, Onward, maps
  <2> QED BY <2>1, <2>2
<1>4. Counted'
  <2>1. nodes' = nodes /\ entries' = entries
    BY DEF Onward, maps
  <2>2. nodes \subseteq [node : Node, id : Nat] /\ entries \subseteq EntryType
    BY DEF Inv, TypeOK
  <2>3. \A u \in Thread : job[u].id \in Nat \cup {None} /\ job'[u].id \in Nat \cup {None}
    BY <1>1 DEF JobType
  <2>4. Counted /\ None \notin Nat
    BY Constants DEF Inv
  <2> QED BY <1>1, <2>1, <2>2, <2>3, <2>4 DEF Counted, Numbered, EntryType
<1>5. Ids'
  <2>1. nodes' = nodes /\ entries' = entries
    BY DEF Onward, maps
  <2>2. nodes \subseteq [node : Node, id : Nat] /\ entries \subseteq EntryType
    BY DEF Inv, TypeOK
  <2>3. \A u \in Thread : job[u].id \in Nat \cup {None} /\ job'[u].id \in Nat \cup {None}
    BY <1>1 DEF JobType
  <2>4. Counted /\ Ids /\ None \notin Nat
    BY Constants DEF Inv
  <2>5. pc[t] # "finish"
    BY DEF Onward, Creating
  <2>6. \A u \in Thread : u # t /\ job'[u].id # None => job'[u].id # job'[t].id
    BY <1>1, <2>3, <2>4 DEF Ids, Counted, Numbered
  <2>7. \A x \in nodes \cup entries : x.id # job'[t].id
    BY <1>1, <2>2, <2>4, <2>5 DEF Ids, Counted, Numbered, EntryType
  <2>8. \A u, v \in Thread : job'[u].id # None /\ job'[u].id = job'[v].id => u = v
    BY <1>1, <2>4, <2>6 DEF Ids
  <2> QED BY <1>1, <2>1, <2>4, <2>7, <2>8 DEF Ids
<1>6. Books'
  <2>1. pc[t] # "finish"
    BY DEF Onward, Creating
  <2> QED BY <1>1, <2>1 DEF Inv, Books, Entry, Onward, maps, past
<1>7. Stopping'
  <2>1. pc'[t] \notin {"reset"} /\ (pc[t] \notin Creating => ~is_shutdown)
    BY DEF Onward, Creating
  <2> QED BY <1>1, <2>1 DEF Inv, Stopping, Onward, past
<1>8. Data(entries', pc', job', callback') = Data(entries, pc, job, callback)
  <2>1. pc[t] # "drop" /\ pc'[t] # "drop"
    BY DEF Onward, Creating
  <2>2. entries' = entries /\ callback' = callback
    BY DEF Onward, maps
  <2> QED BY <1>1, <2>1, <2>2, DataOfOthers
<1>9. Gone'
  <2>1. pc'[t] # "close"
    BY DEF Onward, Creating
  <2> QED BY <1>1, <1>8, <2>1 DEF Inv, Gone, Shared, Onward, maps
<1>10. Shown'
  BY <1>8 DEF Inv, Shown, Onward, maps
<1>11. Before'
  BY DEF Before, Onward
<1> QED BY <1>2, <1>3, <1>4, <1>5, <1>6, <1>7, <1>9, <1>10, <1>11 DEF Inv

LEMMA CreateNodeKeeps ==
  ASSUME Inv, NEW t \in Thread, CreateNode(t)
  PROVE  Inv'
<1>1. PICK n \in Node : Goto(t, "node", [NoJob EXCEPT !.node = n])
  BY DEF CreateNode
<1> DEFINE j == [NoJob EXCEPT !.node = n]
<1>2. /\ j \in JobType /\ j.id = None /\ ~j.holds /\ j.node \in Node
  BY DEF NoJob, JobType
<1> HIDE DEF j
<1>3. Moves(t) /\ pc'[t] = "node" /\ job'[t] = j
  BY <1>1, <1>2, GotoMoves DEF Inv, Pc, j
<1>4. PlaceOf(t)'
  BY <1>2, <1>3 DEF PlaceOf, Creating
<1>5. /\ impl = "up" /\ pc[t] = "idle" /\ ~is_shutdown /\ building' = building
      /\ next_entity_id' = next_entity_id
      /\ UNCHANGED <<impl, is_shutdown, session, subscribed, mutex, maps, tokens,
                     closed, callback, past, crashed>>
  BY DEF CreateNode, Calls, data
<1>6. building \in [Node -> Thread \cup {None}]
  BY DEF Inv, TypeOK
<1>7. Onward(t) /\ Numbered(t)
  BY <1>2, <1>3, <1>4, <1>5, <1>6 DEF Onward, Numbered, Creating
<1> QED BY <1>7, OnwardKeeps

LEMMA CreateEntityKeeps ==
  ASSUME Inv, NEW t \in Thread, NEW k \in Kinds, CreateEntity(t, k)
  PROVE  Inv'
<1>1. PICK x \in nodes :
        Goto(t, "entity", [NoJob EXCEPT !.node = x.node, !.kind = k])
  BY DEF CreateEntity
<1> DEFINE j == [NoJob EXCEPT !.node = x.node, !.kind = k]
<1>2. /\ j \in JobType /\ j.id = None /\ ~j.holds /\ j.node \in Node /\ j.kind \in Kinds
  <2>1. x.node \in Node
    BY DEF Inv, TypeOK
  <2> QED BY <2>1 DEF NoJob, JobType
<1> HIDE DEF j
<1>3. Moves(t) /\ pc'[t] = "entity" /\ job'[t] = j
  BY <1>1, <1>2, GotoMoves DEF Inv, Pc, j
<1>4. PlaceOf(t)'
  BY <1>2, <1>3 DEF PlaceOf, Creating
<1>5. /\ impl = "up" /\ pc[t] = "idle" /\ ~is_shutdown /\ building' = building
      /\ next_entity_id' = next_entity_id
      /\ UNCHANGED <<impl, is_shutdown, session, subscribed, mutex, maps, tokens,
                     closed, callback, past, crashed>>
  BY DEF CreateEntity, Calls, data
<1>6. building \in [Node -> Thread \cup {None}]
  BY DEF Inv, TypeOK
<1>7. Onward(t) /\ Numbered(t)
  BY <1>2, <1>3, <1>4, <1>5, <1>6 DEF Onward, Numbered, Creating
<1> QED BY <1>7, OnwardKeeps

\* A call in progress: there is a context, and the thread has what its place
\* says.
LEMMA InCall ==
  ASSUME Inv, NEW t \in Thread, pc[t] # "idle"
  PROVE  /\ impl # "none" /\ PlaceOf(t) /\ job[t] \in JobType
         /\ is_shutdown /\ pc[t] \in Creating => t \in raced
BY DEF Inv, Stopping, Places, TypeOK

\* A crash can only be that of a call that rmw_shutdown() came in the middle of.
LEMMA CrashKeeps ==
  ASSUME Inv, NEW t \in Thread, pc[t] \in Creating, NoSession \/ is_shutdown, Crash(t)
  PROVE  Inv'
<1>1. is_shutdown
  <2>1. impl # "none"
    BY InCall DEF Creating
  <2> QED BY <2>1 DEF Inv, Stopping, NoSession, Torn
<1>2. t \in raced /\ crashed' = t
  BY <1>1, InCall DEF Creating, Crash
<1>3. TypeOK'
  BY <1>2 DEF Inv, TypeOK, Crash, data, maps, past
<1>4. Places'
  BY DEF Inv, Places, PlaceOf, Entry, Crash, maps
<1>5. Counted' /\ Ids' /\ Books'
  BY DEF Inv, Counted, Ids, Books, Entry, Crash, maps, data, past
<1>6. Stopping'
  BY <1>2 DEF Inv, Stopping, Crash, data, past
<1>7. Gone' /\ Shown'
  <2>1. UNCHANGED <<impl, session, nodes, entries, pc, job, callback, closed, tokens>>
    BY DEF Crash, data, maps
  <2>2. Data(entries', pc', job', callback') = Data(entries, pc, job, callback)
    BY <2>1
  <2>3. Shared(session', entries', pc', job', callback')
          = Shared(session, entries, pc, job, callback)
    BY <2>1
  <2>4. Gone'
    BY <2>1, <2>3 DEF Inv, Gone
  <2> QED BY <2>1, <2>2, <2>4 DEF Inv, Shown
<1>8. Before'
  <2>1. impl # "none" /\ impl' = impl
    BY InCall DEF Creating, Crash
  <2> QED BY <2>1 DEF Before
<1> QED BY <1>3, <1>4, <1>5, <1>6, <1>7, <1>8 DEF Inv

LEMMA CheckSessionKeeps ==
  ASSUME Inv, NEW t \in Thread, NEW k, CheckSession(t, k)
  PROVE  Inv'
<1>1. CASE NoSession /\ Crash(t)
  <2>1. pc[t] \in Creating
    BY DEF CheckSession, Creating
  <2> QED BY <1>1, <2>1, CrashKeeps
<1>2. CASE \E h \in Handle : /\ Goto(t, "session", [job[t] EXCEPT !.handle = h])
                             /\ UNCHANGED <<impl, data, mutex, maps, building, tokens,
                                  closed, callback, past, crashed>>
  <2>1. PICK h \in Handle : Goto(t, "session", [job[t] EXCEPT !.handle = h])
    BY <1>2
  <2> DEFINE j == [job[t] EXCEPT !.handle = h]
  <2>2. pc[t] = "entity"
    BY DEF CheckSession
  <2>3. impl # "none" /\ PlaceOf(t) /\ job[t] \in JobType
    BY <2>2, InCall
  <2>4. /\ j \in JobType /\ j.id = None /\ ~j.holds /\ j.node \in Node
        /\ j.kind \in Kinds /\ j.handle \in Handle
    BY <2>2, <2>3 DEF PlaceOf, Creating, JobType
  <2> HIDE DEF j
  <2>5. Moves(t) /\ pc'[t] = "session" /\ job'[t] = j
    BY <2>1, <2>4, GotoMoves DEF Inv, Pc, j
  <2>6. PlaceOf(t)'
    BY <2>4, <2>5 DEF PlaceOf, Creating
  <2>7. building' \in [Node -> Thread \cup {None}]
    BY <1>2 DEF Inv, TypeOK
  <2>8. Onward(t) /\ Numbered(t)
    BY <1>2, <2>2, <2>3, <2>4, <2>5, <2>6, <2>7 DEF Onward, Numbered, Creating, data
  <2> QED BY <2>8, OnwardKeeps
<1> QED BY <1>1, <1>2 DEF CheckSession

LEMMA GetSessionKeeps ==
  ASSUME Inv, NEW t \in Thread, GetSession(t)
  PROVE  Inv'
<1>0. pc[t] = "session"
  BY DEF GetSession
<1>1. CASE Torn /\ Crash(t)
  BY <1>0, <1>1, CrashKeeps DEF NoSession, Creating
<1>2. CASE /\ next_entity_id' = next_entity_id + 1
           /\ Goto(t, "make", [job[t] EXCEPT !.id = next_entity_id, !.holds = session])
           /\ UNCHANGED <<impl, is_shutdown, session, subscribed, mutex, maps,
                          building, tokens, closed, callback, past, crashed>>
  <2> DEFINE j == [job[t] EXCEPT !.id = next_entity_id, !.holds = session]
  <2>3. impl # "none" /\ PlaceOf(t) /\ job[t] \in JobType
    BY <1>0, InCall
  <2>4. next_entity_id \in Nat /\ session \in BOOLEAN
    BY DEF Inv, TypeOK
  <2>5. j \in JobType /\ j.id = next_entity_id /\ j.holds = session
        /\ j.node \in Node /\ j.kind \in Kinds /\ j.handle \in Handle
    BY <1>0, <2>3, <2>4 DEF PlaceOf, Creating, JobType
  <2> HIDE DEF j
  <2>6. Moves(t) /\ pc'[t] = "make" /\ job'[t] = j
    BY <1>2, <2>5, GotoMoves DEF Inv, Pc, j
  <2>7. PlaceOf(t)'
    BY <2>4, <2>5, <2>6 DEF PlaceOf, Creating
  <2>8. building' \in [Node -> Thread \cup {None}]
    BY <1>2 DEF Inv, TypeOK
  <2>9. ~session => is_shutdown
    BY <2>3 DEF Inv, Stopping
  <2>10. Onward(t) /\ Numbered(t)
    BY <1>0, <1>2, <2>3, <2>5, <2>6, <2>7, <2>8, <2>9 DEF Onward, Numbered, Creating
  <2> QED BY <2>10, OnwardKeeps
<1> QED BY <1>1, <1>2 DEF GetSession

-----------------------------------------------------------------------------
(* A call returns *)

\* Thread t is done, and leaves the context's session_ as s.
Done(t, s) ==
  /\ pc[t] \in {"make", "declare", "drop", "reset"}
  /\ Return(t, s)
  /\ session' = s /\ s \in BOOLEAN /\ (s => session) /\ (~s => ~session \/ is_shutdown)
  /\ building' \in [Node -> Thread \cup {None}]
  /\ \/ pc[t] # "drop" /\ UNCHANGED tokens
     \/ tokens' = tokens \cap TokensOf(entries, pc', job', callback)
  /\ next_entity_id' = next_entity_id
  /\ UNCHANGED <<impl, is_shutdown, subscribed, mutex, maps, closed, callback,
                 past, crashed>>

LEMMA DoneKeeps ==
  ASSUME Inv, NEW t \in Thread, NEW s, Done(t, s)
  PROVE  Inv'
<1>1. /\ Moves(t) /\ job'[t] = NoJob
      /\ pc'[t] \in {"idle", "close"}
      /\ pc'[t] = "close" => ~Shared(s, entries, pc', job', callback)
  BY ReturnMoves DEF Inv, Done
<1>2. /\ pc \in [Thread -> Pc] /\ job \in [Thread -> JobType]
      /\ pc' \in [Thread -> Pc] /\ job' \in [Thread -> JobType]
      /\ \A u \in Thread \ {t} : pc'[u] = pc[u] /\ job'[u] = job[u]
  BY <1>1 DEF Inv, TypeOK, Moves
<1>3. nodes' = nodes /\ entries' = entries /\ owned' = owned /\ callback' = callback
  BY DEF Done, maps
<1>4. job'[t].id = None /\ ~job'[t].holds
  BY <1>1 DEF NoJob
<1>5. TypeOK'
  <2>1. session' \in BOOLEAN /\ tokens' \subseteq Nat
    BY DEF Done, Inv, TypeOK
  <2> QED BY <1>2, <2>1 DEF Inv, TypeOK, Done, maps, past
<1>6. Places'
  <2> SUFFICES ASSUME NEW u \in Thread PROVE PlaceOf(u)'
    BY DEF Places
  <2>1. CASE u = t
    BY <1>1, <1>4, <2>1 DEF PlaceOf, Creating
  <2>2. CASE u # t
    <3>1. PlaceOf(u)
      BY DEF Inv, Places
    <3> QED BY <1>2, <1>3, <2>2, <3>1 DEF PlaceOf, Entry
  <2> QED BY <2>1, <2>2
<1>7. Counted'
  <2>1. next_entity_id' = next_entity_id
    BY DEF Done
  <2> QED BY <1>2, <1>3, <1>4, <2>1 DEF Inv, Counted
<1>8. Ids'
  <2>1. nodes \subseteq [node : Node, id : Nat] /\ entries \subseteq EntryType
    BY DEF Inv, TypeOK
  <2>2. \A x \in nodes \cup entries : x.id # None
    BY <2>1, Constants DEF EntryType
  <2> QED BY <1>2, <1>3, <1>4, <2>2 DEF Inv, Ids
<1>9. Books'
  <2>1. pc[t] # "finish"
    BY DEF Done
  <2> QED BY <1>2, <1>3, <2>1 DEF Inv, Books, Entry, Done, past
<1>10. Stopping'
  <2>1. pc[t] # "idle" /\ pc'[t] \notin Creating \cup {"reset"}
    BY <1>1 DEF Done, Creating
  <2>2. impl # "none"
    BY <2>1, InCall
  <2>3. UNCHANGED <<impl, is_shutdown, raced, crashed>> /\ (~session' => ~session \/ is_shutdown)
    BY DEF Done, past
  <2>4. pc'[t] # "make"
    BY <2>1 DEF Creating
  <2> QED BY <1>2, <2>1, <2>2, <2>3, <2>4 DEF Inv, Stopping
<1>11. Data(entries', pc', job', callback') \subseteq Data(entries, pc, job, callback)
  <2>1. {job'[u].id : u \in {v \in Thread : pc'[v] = "drop"}}
          \subseteq {job[u].id : u \in {v \in Thread : pc[v] = "drop"}}
    BY <1>1, <1>2
  <2> QED BY <1>3, <2>1 DEF Data
<1>12. Gone'
  <2>1. pc[t] # "idle"
    BY DEF Done
  <2>2. impl # "none" /\ impl' = impl /\ closed' = closed /\ session' = s /\ (s => session)
    BY <2>1, InCall DEF Done
  <2>3. CASE pc'[t] = "close"
    BY <1>1, <1>3, <2>2, <2>3 DEF Gone
  <2>4. CASE pc'[t] # "close"
    <3> SUFFICES ASSUME closed \/ \E u \in Thread : pc[u] = "close"
                 PROVE  ~Shared(session', entries', pc', job', callback')
      BY <1>2, <2>2, <2>4 DEF Gone
    <3>1. ~Shared(session, entries, pc, job, callback)
      BY DEF Inv, Gone
    <3>2. \A u \in Thread : job'[u].holds => job[u].holds
      BY <1>2, <1>4
    <3> QED BY <1>11, <2>2, <3>1, <3>2 DEF Shared
  <2> QED BY <2>3, <2>4
<1>13. Shown'
  <2>1. callback'.what = "data" <=> callback'.id # None
    BY <1>3 DEF Inv, Shown
  <2>2. ASSUME ~closed PROVE tokens' = {n.id : n \in nodes'} \cup Data(entries', pc', job', callback')
    <3>1. tokens = {n.id : n \in nodes} \cup Data(entries, pc, job, callback)
      BY <2>2 DEF Inv, Shown
    <3>2. CASE pc[t] # "drop" /\ tokens' = tokens
      <4>1. pc'[t] # "drop"
        BY <1>1
      <4>2. Data(entries', pc', job', callback') = Data(entries, pc, job, callback)
        BY <1>2, <1>3, <3>2, <4>1, DataOfOthers
      <4> QED BY <1>3, <3>1, <3>2, <4>2
    <3>3. CASE tokens' = tokens \cap TokensOf(entries, pc', job', callback)
      <4>1. TokensOf(entries, pc', job', callback)
              = {n.id : n \in nodes'} \cup Data(entries', pc', job', callback')
        BY <1>3 DEF TokensOf
      <4> HIDE DEF TokensOf
      <4> QED BY <1>3, <1>11, <3>1, <3>3, <4>1
    <3> QED BY <3>2, <3>3 DEF Done
  <2>3. closed' = closed
    BY DEF Done
  <2> QED BY <2>1, <2>2, <2>3 DEF Shown
<1>14. Before'
  <2>1. impl # "none" /\ impl' = impl
    BY InCall DEF Done
  <2> QED BY <2>1 DEF Before
<1> QED BY <1>5, <1>6, <1>7, <1>8, <1>9, <1>10, <1>12, <1>13, <1>14 DEF Inv

LEMMA CreateDataKeeps ==
  ASSUME Inv, NEW t \in Thread, NEW k, CreateData(t, k)
  PROVE  Inv'
<1>0. pc[t] = "make"
  BY DEF CreateData
<1>1. impl # "none" /\ PlaceOf(t) /\ job[t] \in JobType
  BY <1>0, InCall
<1>2. session \in BOOLEAN /\ building \in [Node -> Thread \cup {None}]
      /\ pc \in [Thread -> Pc] /\ job \in [Thread -> JobType]
  BY DEF Inv, TypeOK
<1>3. CASE /\ Return(t, session)
           /\ UNCHANGED <<impl, data, mutex, maps, building, tokens, closed,
                          callback, past, crashed>>
  <2>1. Done(t, session)
    BY <1>0, <1>2, <1>3 DEF Done, data
  <2> QED BY <2>1, DoneKeeps
<1>4. CASE ~job[t].holds /\ Crash(t)
  <2>1. is_shutdown
    BY <1>0, <1>4 DEF Inv, Stopping
  <2> QED BY <1>0, <1>4, <2>1, CrashKeeps DEF Creating
<1>5. CASE /\ job[t].holds
           /\ building' = [building EXCEPT ![job[t].node] = t]
           /\ pc' = [pc EXCEPT ![t] = "declare"]
           /\ UNCHANGED <<impl, data, mutex, maps, tokens, closed, job, callback,
                          past, crashed>>
  <2>1. Moves(t) /\ pc'[t] = "declare" /\ job' = job
    BY <1>2, <1>5 DEF Moves, Pc
  <2>2. PlaceOf(t)'
    BY <1>0, <1>1, <1>5, <2>1 DEF PlaceOf, Creating
  <2>3. building' \in [Node -> Thread \cup {None}]
    BY <1>2, <1>5
  <2>4. Onward(t) /\ Numbered(t)
    BY <1>0, <1>1, <1>5, <2>1, <2>2, <2>3 DEF Onward, Numbered, Creating, data
  <2> QED BY <2>4, OnwardKeeps
<1> QED BY <1>3, <1>4, <1>5 DEF CreateData

LEMMA DropKeeps ==
  ASSUME Inv, NEW t \in Thread, NEW k, Drop(t, k)
  PROVE  Inv'
<1>1. session \in BOOLEAN /\ building \in [Node -> Thread \cup {None}]
  BY DEF Inv, TypeOK
<1>2. Done(t, session)
  BY <1>1 DEF Done, Drop, data
<1> QED BY <1>2, DoneKeeps

LEMMA ResetSessionKeeps ==
  ASSUME Inv, NEW t \in Thread, ResetSession(t)
  PROVE  Inv'
<1>1. building \in [Node -> Thread \cup {None}]
  BY DEF Inv, TypeOK
<1>2. is_shutdown
  BY DEF Inv, Stopping, ResetSession
<1>3. Done(t, FALSE)
  BY <1>1, <1>2 DEF Done, ResetSession
<1> QED BY <1>3, DoneKeeps

-----------------------------------------------------------------------------
(* Zenoh's thread, and the ends of the context *)

\* Steps that leave the threads, the maps and the mutex alone.
Apart ==
  UNCHANGED <<mutex, maps, next_entity_id, pc, job, past, crashed, is_shutdown,
              subscribed, building>>

LEMMA ApartKeeps ==
  ASSUME Inv, Apart
  PROVE  Places' /\ Counted' /\ Ids' /\ Books'
<1>1. Places'
  BY DEF Inv, Places, PlaceOf, Entry, Apart, maps
<1>2. Counted'
  BY DEF Inv, Counted, Apart, maps
<1>3. Ids'
  BY DEF Inv, Ids, Apart, maps
<1>4. Books'
  BY DEF Inv, Books, Entry, Apart, maps, past
<1> QED BY <1>1, <1>2, <1>3, <1>4

LEMMA InitContextKeeps == Inv /\ InitContext => Inv'
<1> SUFFICES ASSUME Inv, InitContext PROVE Inv'
  OBVIOUS
<1>1. /\ impl = "none" /\ impl' = "up" /\ session' = TRUE /\ subscribed' = TRUE
      /\ UNCHANGED <<is_shutdown, next_entity_id, mutex, maps, building, tokens,
                     closed, pc, job, callback, past, crashed>>
  BY DEF InitContext
<1>2. TypeOK'
  BY <1>1 DEF Inv, TypeOK, maps, past
<1>3. Places' /\ Counted' /\ Ids' /\ Books'
  <2>1. Places'
    BY <1>1 DEF Inv, Places, PlaceOf, Entry, maps
  <2>2. Counted' /\ Ids' /\ Books'
    BY <1>1 DEF Inv, Counted, Ids, Books, Entry, maps, past
  <2> QED BY <2>1, <2>2
<1>4. Stopping'
  <2>1. \A t \in Thread : pc[t] = "idle"
    BY <1>1 DEF Inv, Stopping
  <2> QED BY <1>1, <2>1 DEF Inv, Stopping, past
<1>5. Gone'
  <2>1. ~(closed \/ \E t \in Thread : pc[t] = "close")
    BY <1>1 DEF Inv, Gone
  <2> QED BY <1>1, <2>1 DEF Gone
<1>6. Shown'
  <2>1. UNCHANGED <<nodes, entries, pc, job, callback, closed, tokens>>
    BY <1>1 DEF maps
  <2>2. Data(entries', pc', job', callback') = Data(entries, pc, job, callback)
    BY <2>1
  <2> QED BY <2>1, <2>2 DEF Inv, Shown
<1>7. Before'
  BY <1>1 DEF Before
<1> QED BY <1>2, <1>3, <1>4, <1>5, <1>6, <1>7 DEF Inv

LEMMA FiniKeeps == Inv /\ Fini => Inv'
<1> SUFFICES ASSUME Inv, Fini PROVE Inv'
  OBVIOUS
<1>1. /\ impl = "up" /\ impl' = "fini"
      /\ UNCHANGED <<data, mutex, maps, building, tokens, closed, pc, job,
                     callback, past, crashed>>
  BY DEF Fini
<1>2. TypeOK'
  BY <1>1 DEF Inv, TypeOK, data, maps, past
<1>3. Places' /\ Counted' /\ Ids' /\ Books'
  BY <1>1, ApartKeeps DEF Apart, data
<1>4. Stopping'
  BY <1>1 DEF Inv, Stopping, data, past
<1>5. Gone' /\ Shown'
  <2>1. UNCHANGED <<session, nodes, entries, pc, job, callback, closed, tokens>>
    BY <1>1 DEF data, maps
  <2>2. /\ Data(entries', pc', job', callback') = Data(entries, pc, job, callback)
        /\ Shared(session', entries', pc', job', callback')
             = Shared(session, entries, pc, job, callback)
    BY <2>1
  <2>3. Gone'
    BY <1>1, <2>1, <2>2 DEF Inv, Gone
  <2> QED BY <2>1, <2>2, <2>3 DEF Inv, Shown
<1>6. Before'
  BY <1>1 DEF Before
<1> QED BY <1>2, <1>3, <1>4, <1>5, <1>6 DEF Inv

\* A callback begins, or ends without having had anything.
LEMMA CallbackKeeps ==
  ASSUME Inv, impl # "none",
         UNCHANGED <<impl, data, mutex, maps, building, tokens, closed, pc, job,
                     past, crashed>>,
         callback' \in [what : {"idle", "graph", "data"}, id : Nat \cup {None}],
         callback'.what = "data" <=> callback'.id # None,
         Data(entries, pc, job, callback') = Data(entries, pc, job, callback)
  PROVE  Inv'
<1>1. TypeOK'
  BY DEF Inv, TypeOK, data, maps, past
<1>2. Places' /\ Counted' /\ Ids' /\ Books'
  BY ApartKeeps DEF Apart, data
<1>3. Stopping'
  BY DEF Inv, Stopping, data, past
<1>4. UNCHANGED <<session, nodes, entries, pc, job>>
  BY DEF data, maps
<1>5. Data(entries', pc', job', callback') = Data(entries, pc, job, callback)
  BY <1>4
<1>6. Gone'
  BY <1>4, <1>5 DEF Inv, Gone, Shared
<1>7. Shown'
  BY <1>4, <1>5 DEF Inv, Shown
<1>8. Before'
  BY DEF Before
<1> QED BY <1>1, <1>2, <1>3, <1>6, <1>7, <1>8 DEF Inv

LEMMA TokenArrivesKeeps == Inv /\ TokenArrives => Inv'
<1> SUFFICES ASSUME Inv, TokenArrives PROVE Inv'
  OBVIOUS
<1>1. callback = Quiet /\ callback' = [what |-> "graph", id |-> None]
  BY DEF TokenArrives, Starts
<1>2. Data(entries, pc, job, callback') = Data(entries, pc, job, callback)
  BY <1>1 DEF Data, Quiet
<1>3. impl # "none"
  BY DEF TokenArrives, Inv, Before
<1> QED BY <1>1, <1>2, <1>3, CallbackKeeps DEF TokenArrives

LEMMA UpdateGraphKeeps == Inv /\ UpdateGraph => Inv'
<1> SUFFICES ASSUME Inv, UpdateGraph PROVE Inv'
  OBVIOUS
<1>1. callback.id = None /\ callback' = [what |-> "idle", id |-> None]
  BY DEF UpdateGraph, Quiet, Inv, Shown
<1>2. Data(entries, pc, job, callback') = Data(entries, pc, job, callback)
  BY <1>1 DEF Data
<1>3. impl # "none"
  BY DEF UpdateGraph, Inv, Before, Quiet
<1> QED BY <1>1, <1>2, <1>3, CallbackKeeps DEF UpdateGraph

LEMMA SampleArrivesKeeps == Inv /\ SampleArrives => Inv'
<1> SUFFICES ASSUME Inv, SampleArrives PROVE Inv'
  OBVIOUS
<1>1. PICK e \in entries : callback' = [what |-> "data", id |-> e.id]
  BY DEF SampleArrives
<1>2. e.id \in Nat /\ e.id # None
  BY Constants DEF Inv, TypeOK, EntryType
<1>3. callback = Quiet
  BY DEF SampleArrives, Starts
<1>4. Data(entries, pc, job, callback') = Data(entries, pc, job, callback)
  BY <1>1, <1>2, <1>3 DEF Data, Quiet
<1>5. impl # "none"
  BY <1>1 DEF Inv, Before
<1> QED BY <1>1, <1>2, <1>4, <1>5, CallbackKeeps DEF SampleArrives

LEMMA SampleDoneKeeps == Inv /\ SampleDone => Inv'
<1> SUFFICES ASSUME Inv, SampleDone PROVE Inv'
  OBVIOUS
<1>1. /\ callback' = Quiet
      /\ UNCHANGED <<impl, data, mutex, maps, building, pc, job, past, crashed>>
  BY DEF SampleDone
<1>2. Quiet \in [what : {"idle", "graph", "data"}, id : Nat \cup {None}]
      /\ Quiet.what = "idle" /\ Quiet.id = None
  BY DEF Quiet
<1> DEFINE Left == Data(entries, pc, job, Quiet)
<1>3. Left \subseteq Data(entries, pc, job, callback)
  BY <1>2 DEF Data
<1>4. UNCHANGED <<session, nodes, entries, pc, job, impl>>
  BY <1>1 DEF data, maps
<1>5. Data(entries', pc', job', callback') = Left
  BY <1>1, <1>4
<1>6. \/ /\ closed' = TRUE /\ tokens' = {}
         /\ ~Shared(session, entries, pc, job, Quiet)
         /\ Shared(session, entries, pc, job, callback)
      \/ closed' = closed /\ tokens' = tokens \cap TokensOf(entries, pc, job, Quiet)
  BY DEF SampleDone, LetsGoLast, HadByAny
<1>7. TypeOK'
  <2>1. closed' \in BOOLEAN /\ tokens' \subseteq Nat
    BY <1>6 DEF Inv, TypeOK
  <2> QED BY <1>1, <1>2, <2>1 DEF Inv, TypeOK, data, maps, past
<1>8. Places' /\ Counted' /\ Ids' /\ Books'
  BY <1>1, ApartKeeps DEF Apart, data
<1>9. Stopping'
  BY <1>1 DEF Inv, Stopping, data, past
<1>10. impl # "none" /\ impl' = impl
  BY <1>1 DEF SampleDone, Inv, Before, Quiet
<1>11. Gone'
  <2>1. Shared(session', entries', pc', job', callback')
          = Shared(session, entries, pc, job, Quiet)
    BY <1>1, <1>4
  <2>2. CASE ~Shared(session, entries, pc, job, Quiet)
    BY <1>4, <1>10, <2>1, <2>2 DEF Gone
  <2>3. CASE Shared(session, entries, pc, job, Quiet)
    <3>1. Shared(session, entries, pc, job, callback)
      BY <1>3, <2>3 DEF Shared
    <3>2. closed' = closed
      BY <1>6, <2>3
    <3>3. ~(closed \/ \E t \in Thread : pc[t] = "close")
      BY <3>1 DEF Inv, Gone
    <3> QED BY <1>4, <3>2, <3>3 DEF Gone
  <2> QED BY <2>2, <2>3
<1>12. Shown'
  <2>1. callback'.what = "data" <=> callback'.id # None
    BY <1>1, <1>2
  <2>2. ASSUME ~closed' PROVE tokens' = {n.id : n \in nodes'} \cup Data(entries', pc', job', callback')
    <3>1. ~closed /\ tokens' = tokens \cap TokensOf(entries, pc, job, Quiet)
      BY <1>6, <2>2
    <3>2. tokens = {n.id : n \in nodes} \cup Data(entries, pc, job, callback)
      BY <3>1 DEF Inv, Shown
    <3>3. TokensOf(entries, pc, job, Quiet) = {n.id : n \in nodes'} \cup Left
      BY DEF TokensOf
    <3> HIDE DEF Left
    <3> QED BY <1>3, <1>4, <1>5, <3>1, <3>2, <3>3
  <2> QED BY <2>1, <2>2 DEF Shown
<1>13. Before'
  BY <1>10 DEF Before
<1> QED BY <1>7, <1>8, <1>9, <1>11, <1>12, <1>13 DEF Inv

-----------------------------------------------------------------------------
(* Nodes and entities come and go *)

LEMMA CreateNodeDataKeeps ==
  ASSUME Inv, NEW t \in Thread, CreateNodeData(t)
  PROVE  Inv'
<1>0. pc[t] = "node"
  BY DEF CreateNodeData
<1>1. CASE NoSession /\ Crash(t)
  BY <1>0, <1>1, CrashKeeps DEF Creating
<1>2. CASE /\ session /\ next_entity_id' = next_entity_id + 1
           /\ \/ /\ nodes' = nodes \cup {[node |-> job[t].node, id |-> next_entity_id]}
                 /\ tokens' = tokens \cup {next_entity_id}
              \/ UNCHANGED <<nodes, tokens>>
           /\ Goto(t, "idle", NoJob)
           /\ UNCHANGED <<impl, is_shutdown, session, subscribed, mutex, entries,
                          owned, building, closed, callback, past, crashed>>
  <2> DEFINE x == [node |-> job[t].node, id |-> next_entity_id]
  <2>1. /\ impl # "none" /\ PlaceOf(t) /\ job[t].id = None /\ job[t].node \in Node
        /\ next_entity_id \in Nat
    BY <1>0, InCall DEF PlaceOf, Creating, Inv, TypeOK
  <2>2. x \in [node : Node, id : Nat] /\ x.id = next_entity_id
    BY <2>1
  <2>3. nodes' \in {nodes, nodes \cup {x}}
    BY <1>2
  <2> HIDE DEF x
  <2>4. NoJob \in JobType /\ NoJob.id = None /\ ~NoJob.holds
    BY DEF NoJob, JobType
  <2>5. Moves(t) /\ pc'[t] = "idle" /\ job'[t] = NoJob
    BY <1>2, <2>4, GotoMoves DEF Inv, Pc
  <2>6. /\ pc \in [Thread -> Pc] /\ job \in [Thread -> JobType]
        /\ pc' \in [Thread -> Pc] /\ job' \in [Thread -> JobType]
        /\ \A u \in Thread \ {t} : pc'[u] = pc[u] /\ job'[u] = job[u]
    BY <2>5 DEF Inv, TypeOK, Moves
  <2>7. nodes \subseteq [node : Node, id : Nat] /\ entries \subseteq EntryType
    BY DEF Inv, TypeOK
  <2>8. TypeOK'
    <3>1. next_entity_id' \in Nat /\ nodes' \subseteq [node : Node, id : Nat]
      BY <1>2, <2>1, <2>2, <2>3, <2>7
    <3>2. tokens' \subseteq Nat
      BY <1>2, <2>1 DEF Inv, TypeOK
    <3> QED BY <1>2, <2>6, <3>1, <3>2 DEF Inv, TypeOK, past
  <2>9. Places'
    <3> SUFFICES ASSUME NEW u \in Thread PROVE PlaceOf(u)'
      BY DEF Places
    <3>1. CASE u = t
      BY <2>4, <2>5, <3>1 DEF PlaceOf, Creating
    <3>2. CASE u # t
      <4>1. PlaceOf(u)
        BY DEF Inv, Places
      <4> QED BY <1>2, <2>6, <3>2, <4>1 DEF PlaceOf, Entry
    <3> QED BY <3>1, <3>2
  <2>10. \A u \in Thread : job[u].id \in Nat \cup {None} /\ job'[u].id \in {job[u].id, None}
    BY <2>4, <2>5, <2>6 DEF JobType
  <2>11. Counted /\ Ids /\ None \notin Nat
    BY Constants DEF Inv
  <2>12. Counted'
    <3>1. \A y \in nodes' : y.id < next_entity_id'
      BY <1>2, <2>1, <2>2, <2>3, <2>7, <2>11 DEF Counted
    <3>2. \A e \in entries' : e.id < next_entity_id'
      BY <1>2, <2>1, <2>7, <2>11 DEF Counted, EntryType
    <3>3. \A u \in Thread : job'[u].id # None => job'[u].id < next_entity_id'
      BY <1>2, <2>1, <2>10, <2>11 DEF Counted
    <3> QED BY <3>1, <3>2, <3>3 DEF Counted
  <2>13. Ids'
    <3>1. entries' = entries
      BY <1>2
    <3>2. \A y \in nodes' : \A e \in entries : y.id # e.id
      BY <2>1, <2>2, <2>3, <2>7, <2>11 DEF Ids, Counted, EntryType
    <3>3. \A y, z \in nodes' : y.id = z.id => y = z
      BY <2>1, <2>2, <2>3, <2>7, <2>11 DEF Ids, Counted
    <3>4. \A u, v \in Thread : job'[u].id # None /\ job'[u].id = job'[v].id => u = v
      BY <2>4, <2>5, <2>6, <2>11 DEF Ids
    <3>5. \A u \in Thread, y \in nodes' : y.id # job'[u].id
      BY <2>1, <2>2, <2>3, <2>7, <2>10, <2>11 DEF Ids, Counted
    <3>6. \A u \in Thread, e \in entries : pc'[u] # "finish" => e.id # job'[u].id
      BY <2>4, <2>5, <2>6, <2>7, <2>11 DEF Ids, EntryType
    <3> QED BY <2>11, <3>1, <3>2, <3>3, <3>4, <3>5, <3>6 DEF Ids
  <2>14. Books'
    BY <1>0, <1>2, <2>6 DEF Inv, Books, Entry, past
  <2>15. Stopping'
    BY <1>2, <2>1, <2>5, <2>6 DEF Inv, Stopping, Creating, past
  <2>16. Data(entries', pc', job', callback') = Data(entries, pc, job, callback)
    <3>1. pc'[t] # "drop" /\ pc[t] # "drop"
      BY <1>0, <2>5
    <3>2. entries' = entries /\ callback' = callback
      BY <1>2
    <3> QED BY <2>6, <3>1, <3>2, DataOfOthers
  <2>17. ~closed /\ \A u \in Thread : pc[u] # "close"
    BY <1>2 DEF Inv, Gone, Shared
  <2>18. Gone'
    BY <1>2, <2>5, <2>6, <2>17 DEF Gone
  <2>19. Shown'
    <3>1. tokens = {n.id : n \in nodes} \cup Data(entries, pc, job, callback)
      BY <2>17 DEF Inv, Shown
    <3>2. \/ nodes' = nodes \cup {x} /\ tokens' = tokens \cup {x.id}
          \/ nodes' = nodes /\ tokens' = tokens
      BY <1>2, <2>2 DEF x
    <3>3. tokens' = {n.id : n \in nodes'} \cup Data(entries, pc, job, callback)
      BY <3>1, <3>2
    <3>4. callback' = callback
      BY <1>2
    <3> QED BY <2>16, <3>3, <3>4 DEF Inv, Shown
  <2>20. Before'
    BY <1>2, <2>1 DEF Before
  <2> QED BY <2>8, <2>9, <2>12, <2>13, <2>14, <2>15, <2>18, <2>19, <2>20 DEF Inv
<1> QED BY <1>1, <1>2 DEF CreateNodeData

LEMMA DestroyNodeKeeps ==
  ASSUME Inv, NEW t \in Thread, DestroyNode(t)
  PROVE  Inv'
<1>0. /\ impl = "up" /\ pc[t] = "idle" /\ mutex = None
      /\ UNCHANGED <<impl, data, owned, building, closed, job, callback, past, crashed>>
  BY DEF DestroyNode, Calls, Free
<1>1. PICK x \in nodes :
        /\ \A e \in owned : e.node # x.node
        /\ \A u \in Thread : job[u].node # x.node
        /\ nodes' = nodes \ {x}
        /\ entries' = {e \in entries : e.node # x.node}
  BY DEF DestroyNode
<1>2. \/ /\ ~Shared(session, entries', pc, job, callback)
         /\ Shared(session, entries, pc, job, callback)
         /\ pc' = [pc EXCEPT ![t] = "close"] /\ mutex' = t
      \/ /\ \/ Shared(session, entries', pc, job, callback)
            \/ ~Shared(session, entries, pc, job, callback)
         /\ pc' = pc /\ mutex' = mutex
  BY DEF DestroyNode, LetsGoLast, HadByAny
<1>3. /\ pc \in [Thread -> Pc] /\ job \in [Thread -> JobType]
      /\ pc' \in [Thread -> Pc] /\ pc'[t] \in {"idle", "close"}
      /\ \A u \in Thread \ {t} : pc'[u] = pc[u]
  BY <1>0, <1>2 DEF Inv, TypeOK, Pc
<1>4. entries' \subseteq entries /\ owned' = owned /\ job' = job /\ callback' = callback
      /\ nodes' \subseteq nodes
  BY <1>0, <1>1
<1>5. TypeOK'
  <2>1. owned \subseteq entries'
    BY <1>1 DEF Inv, TypeOK
  <2>2. tokens' \subseteq Nat /\ mutex' \in Thread \cup {None}
    BY <1>2 DEF Inv, TypeOK, DestroyNode
  <2> QED BY <1>0, <1>3, <1>4, <2>1, <2>2 DEF Inv, TypeOK, data, past
<1>6. Places'
  <2> SUFFICES ASSUME NEW u \in Thread PROVE PlaceOf(u)'
    BY DEF Places
  <2>1. PlaceOf(u)
    BY DEF Inv, Places
  <2>2. CASE u = t
    BY <1>0, <1>3, <1>4, <2>1, <2>2 DEF PlaceOf, Creating
  <2>3. CASE u # t
    <3>1. pc[u] = "finish" => Entry(job[u]) \in entries' \ owned
      <4>1. Entry(job[u]).node = job[u].node
        BY DEF Entry
      <4> QED BY <1>1, <2>1, <4>1 DEF PlaceOf
    <3>2. pc'[u] = pc[u]
      BY <1>3, <2>3
    <3>3. Entry(job'[u]) = Entry(job[u])
      BY <1>4
    <3> QED BY <1>4, <2>1, <3>1, <3>2, <3>3 DEF PlaceOf
  <2> QED BY <2>2, <2>3
<1>7. Counted'
  BY <1>0, <1>4 DEF Inv, Counted, data
<1>8. Ids'
  BY <1>0, <1>3, <1>4 DEF Inv, Ids
<1>9. Books'
  <2> SUFFICES ASSUME ~orphaned PROVE Books'
    BY <1>0 DEF Books, past
  <2>1. \A e \in entries :
          e \in owned \/ \E u \in Thread : pc[u] = "finish" /\ Entry(job[u]) = e
    BY DEF Inv, Books
  <2>2. \A e \in entries : e.node # x.node
    BY <1>1, <2>1 DEF Entry
  <2>3. entries' = entries
    BY <1>1, <2>2
  <2>4. mutex' = None /\ pc' = pc
    BY <1>0, <1>2, <2>3
  <2> QED BY <1>4, <2>1, <2>3, <2>4 DEF Books
<1>10. Stopping'
  BY <1>0, <1>3 DEF Inv, Stopping, Creating, data, past
<1>11. Data(entries', pc', job', callback') = Data(entries', pc, job, callback)
  BY <1>0, <1>3, <1>4, DataOfOthers
<1>12. Data(entries', pc, job, callback) \subseteq Data(entries, pc, job, callback)
  BY <1>4 DEF Data
<1>13. Gone'
  <2>1. Shared(session', entries', pc', job', callback')
          <=> Shared(session, entries', pc, job, callback)
    BY <1>0, <1>11 DEF Shared, data
  <2>2. CASE ~Shared(session, entries', pc, job, callback)
    BY <1>0, <2>1, <2>2 DEF Gone
  <2>3. CASE Shared(session, entries', pc, job, callback)
    <3>1. Shared(session, entries, pc, job, callback)
      BY <1>12, <2>3 DEF Shared
    <3>2. pc' = pc /\ closed' = closed
      BY <1>0, <1>2, <2>3
    <3> QED BY <3>1, <3>2 DEF Inv, Gone
  <2> QED BY <2>2, <2>3
<1>14. Shown'
  <2>1. tokens' = tokens \cap ({n.id : n \in nodes'} \cup Data(entries', pc, job, callback))
    BY DEF DestroyNode, TokensOf
  <2>2. ASSUME ~closed
        PROVE  tokens' = {n.id : n \in nodes'} \cup Data(entries', pc', job', callback')
    <3>1. tokens = {n.id : n \in nodes} \cup Data(entries, pc, job, callback)
      BY <2>2 DEF Inv, Shown
    <3>2. {n.id : n \in nodes'} \subseteq {n.id : n \in nodes}
      BY <1>4
    <3> QED BY <1>11, <1>12, <2>1, <3>1, <3>2
  <2> QED BY <1>0, <2>2 DEF Inv, Shown
<1>15. Before'
  BY <1>0 DEF Before
<1> QED BY <1>5, <1>6, <1>7, <1>8, <1>9, <1>10, <1>13, <1>14, <1>15 DEF Inv

\* The entity is declared and put into the map.
Declared(t) ==
  /\ pc[t] = "declare"
  /\ building' \in [Node -> Thread \cup {None}]
  /\ entries' = entries \cup {Entry(job[t])}
  /\ tokens' = tokens \cup {job[t].id}
  /\ Goto(t, "finish", [job[t] EXCEPT !.holds = FALSE])
  /\ UNCHANGED <<impl, data, mutex, nodes, owned, closed, callback, past, crashed>>

LEMMA DeclaredKeeps ==
  ASSUME Inv, NEW t \in Thread, Declared(t)
  PROVE  Inv'
<1> DEFINE j == [job[t] EXCEPT !.holds = FALSE]
           e == Entry(job[t])
<1>0. /\ pc[t] = "declare" /\ entries' = entries \cup {e} /\ tokens' = tokens \cup {job[t].id}
      /\ UNCHANGED <<impl, data, mutex, nodes, owned, closed, callback, past, crashed>>
  BY DEF Declared
<1>1. /\ impl # "none" /\ PlaceOf(t) /\ job[t] \in JobType /\ job[t].id \in Nat
      /\ job[t].node \in Node /\ job[t].kind \in Kinds /\ job[t].handle \in Handle
      /\ job[t].holds
  BY <1>0, InCall DEF PlaceOf, Creating
<1>2. j \in JobType /\ j.id = job[t].id /\ ~j.holds /\ Entry(j) = e
      /\ j.node \in Node /\ j.kind \in Kinds /\ j.handle \in Handle
  BY <1>1 DEF JobType, Entry
<1>3. e \in EntryType /\ e.id = job[t].id
  BY <1>1 DEF Entry, EntryType
<1>4. Moves(t) /\ pc'[t] = "finish" /\ job'[t] = j
  <2> HIDE DEF e
  <2>1. Goto(t, "finish", j)
    BY DEF Declared
  <2> HIDE DEF j
  <2> QED BY <1>2, <2>1, GotoMoves DEF Inv, Pc
<1> HIDE DEF j, e
<1>5. /\ pc \in [Thread -> Pc] /\ job \in [Thread -> JobType]
      /\ pc' \in [Thread -> Pc] /\ job' \in [Thread -> JobType]
      /\ \A u \in Thread \ {t} : pc'[u] = pc[u] /\ job'[u] = job[u]
  BY <1>4 DEF Inv, TypeOK, Moves
<1>6. /\ entries \subseteq EntryType /\ nodes \subseteq [node : Node, id : Nat]
      /\ owned \subseteq entries /\ tokens \subseteq Nat
  BY DEF Inv, TypeOK
<1>7. e \notin entries
  <2>1. \A d \in entries : d.id # job[t].id
    BY <1>0 DEF Inv, Ids
  <2> QED BY <1>3, <2>1
<1>8. TypeOK'
  <2>1. entries' \subseteq EntryType /\ owned' \subseteq entries' /\ tokens' \subseteq Nat
    BY <1>0, <1>1, <1>3, <1>6
  <2>2. building' \in [Node -> Thread \cup {None}]
    BY DEF Declared
  <2> QED BY <1>0, <1>5, <2>1, <2>2 DEF Inv, TypeOK, data, past
<1>9. Places'
  <2> SUFFICES ASSUME NEW u \in Thread PROVE PlaceOf(u)'
    BY DEF Places
  <2>1. CASE u = t
    <3>1. Entry(job'[t]) \in entries' \ owned'
      BY <1>0, <1>2, <1>4, <1>6, <1>7
    <3> QED BY <1>1, <1>2, <1>4, <2>1, <3>1 DEF PlaceOf, Creating
  <2>2. CASE u # t
    <3>1. PlaceOf(u) /\ pc'[u] = pc[u] /\ job'[u] = job[u]
      BY <1>5, <2>2 DEF Inv, Places
    <3>2. Entry(job'[u]) = Entry(job[u])
      BY <3>1
    <3> QED BY <1>0, <3>1, <3>2 DEF PlaceOf
  <2> QED BY <2>1, <2>2
<1>10. \A u \in Thread : job'[u].id = job[u].id
  BY <1>2, <1>4, <1>5
<1>11. Counted /\ Ids /\ None \notin Nat
  BY Constants DEF Inv
<1>12. Counted'
  <2>1. job[t].id < next_entity_id
    BY <1>1, <1>11 DEF Counted
  <2> QED BY <1>0, <1>3, <1>10, <1>11, <2>1 DEF Counted, data
<1>13. Ids'
  <2>1. \A x \in nodes' : \A d \in entries' : x.id # d.id
    BY <1>0, <1>3, <1>11 DEF Ids
  <2>2. \A x, y \in nodes' : x.id = y.id => x = y
    BY <1>0, <1>11 DEF Ids
  <2>3. \A d, f \in entries' : d.id = f.id => d = f
    BY <1>0, <1>3, <1>11 DEF Ids
  <2>4. \A u, v \in Thread : job'[u].id # None /\ job'[u].id = job'[v].id => u = v
    BY <1>10, <1>11 DEF Ids
  <2>5. \A u \in Thread, x \in nodes' : x.id # job'[u].id
    BY <1>0, <1>10, <1>11 DEF Ids
  <2>6. ASSUME NEW u \in Thread, NEW d \in entries', pc'[u] # "finish"
        PROVE  d.id # job'[u].id
    <3>1. u # t /\ pc[u] # "finish" /\ job'[u].id = job[u].id
      BY <1>4, <1>5, <1>10, <2>6
    <3>2. CASE d \in entries
      BY <1>11, <3>1, <3>2 DEF Ids
    <3>3. CASE d = e
      BY <1>1, <1>3, <1>11, <3>1, <3>3 DEF Ids
    <3> QED BY <1>0, <3>2, <3>3
  <2> QED BY <2>1, <2>2, <2>3, <2>4, <2>5, <2>6 DEF Ids
<1>14. Books'
  <2> SUFFICES ASSUME ~orphaned PROVE Books'
    BY <1>0 DEF Books, past
  <2>1. mutex' = None
    BY <1>0 DEF Inv, Books
  <2>2. ASSUME NEW d \in entries'
        PROVE  d \in owned' \/ \E u \in Thread : pc'[u] = "finish" /\ Entry(job'[u]) = d
    <3>1. CASE d = e
      BY <1>2, <1>4, <3>1
    <3>2. CASE d \in owned
      BY <1>0, <3>2
    <3>3. CASE \E u \in Thread : pc[u] = "finish" /\ Entry(job[u]) = d
      <4>1. PICK u \in Thread : pc[u] = "finish" /\ Entry(job[u]) = d
        BY <3>3
      <4>2. pc'[u] = "finish" /\ job'[u] = job[u]
        BY <1>0, <1>5, <4>1
      <4> QED BY <4>1, <4>2
    <3> QED BY <1>0, <3>1, <3>2, <3>3 DEF Inv, Books
  <2> QED BY <2>1, <2>2 DEF Books
<1>15. Stopping'
  BY <1>0, <1>1, <1>4, <1>5 DEF Inv, Stopping, Creating, data, past
<1>16. ~closed /\ \A u \in Thread : pc[u] # "close"
  BY <1>1 DEF Inv, Gone, Shared
<1>17. Gone'
  BY <1>0, <1>4, <1>5, <1>16 DEF Gone
<1>18. Shown'
  <2>1. tokens = {n.id : n \in nodes} \cup Data(entries, pc, job, callback)
    BY <1>16 DEF Inv, Shown
  <2>2. Data(entries', pc', job', callback') = Data(entries', pc, job, callback)
    <3>1. pc[t] # "drop" /\ pc'[t] # "drop" /\ callback' = callback
      BY <1>0, <1>4
    <3> QED BY <1>5, <3>1, DataOfOthers
  <2>3. {d.id : d \in entries'} = {d.id : d \in entries} \cup {job[t].id}
    BY <1>0, <1>3
  <2>4. Data(entries', pc, job, callback) = Data(entries, pc, job, callback) \cup {job[t].id}
    BY <2>3 DEF Data
  <2> QED BY <1>0, <2>1, <2>2, <2>4 DEF Inv, Shown
<1>19. Before'
  BY <1>0, <1>1 DEF Before
<1> QED BY <1>8, <1>9, <1>12, <1>13, <1>14, <1>15, <1>17, <1>18, <1>19 DEF Inv

LEMMA DeclareKeeps ==
  ASSUME Inv, NEW t \in Thread, NEW k, DeclareEntity(t, k)
  PROVE  Inv'
<1>0. /\ pc[t] = "declare"
      /\ building' = [building EXCEPT ![job[t].node] = None]
      /\ UNCHANGED <<impl, data, mutex, nodes, owned, closed, callback, past, crashed>>
  BY DEF DeclareEntity
<1>1. building' \in [Node -> Thread \cup {None}] /\ session \in BOOLEAN
  BY <1>0 DEF Inv, TypeOK
<1>2. CASE /\ entries' = entries \cup {Entry(job[t])}
           /\ tokens' = tokens \cup {job[t].id}
           /\ Goto(t, "finish", [job[t] EXCEPT !.holds = FALSE])
  <2>1. Declared(t)
    BY <1>0, <1>1, <1>2 DEF Declared
  <2> QED BY <2>1, DeclaredKeeps
<1>3. CASE UNCHANGED <<entries, tokens>> /\ Return(t, session)
  <2>1. Done(t, session)
    BY <1>0, <1>1, <1>3 DEF Done, data, maps
  <2> QED BY <2>1, DoneKeeps
<1> QED BY <1>2, <1>3 DEF DeclareEntity

LEMMA SubscriptionMakeKeeps ==
  ASSUME Inv, NEW t \in Thread, SubscriptionMake(t)
  PROVE  Inv'
<1>1. CASE DeclareEntity(t, "sub")
  BY <1>1, DeclareKeeps
<1>2. CASE pc[t] = "declare" /\ NoSession /\ Crash(t)
  BY <1>2, CrashKeeps DEF Creating
<1> QED BY <1>1, <1>2 DEF SubscriptionMake

LEMMA FinishKeeps ==
  ASSUME Inv, NEW t \in Thread, NEW k, Finish(t, k)
  PROVE  Inv'
<1>0. /\ pc[t] = "finish"
      /\ \/ owned' = owned \cup {Entry(job[t])} /\ orphaned' = orphaned
         \/ orphaned' = TRUE /\ owned' = owned
      /\ UNCHANGED <<impl, data, mutex, nodes, entries, building, tokens, closed,
                     callback, raced, crashed>>
  BY DEF Finish
<1>1. impl # "none" /\ Entry(job[t]) \in entries \ owned /\ job[t].id \in Nat /\ ~job[t].holds
  BY <1>0, InCall DEF PlaceOf
<1>2. NoJob \in JobType /\ NoJob.id = None /\ ~NoJob.holds
  BY DEF NoJob, JobType
<1>3. Moves(t) /\ pc'[t] = "idle" /\ job'[t] = NoJob
  BY <1>2, GotoMoves DEF Inv, Pc, Finish
<1>4. /\ pc \in [Thread -> Pc] /\ job \in [Thread -> JobType]
      /\ pc' \in [Thread -> Pc] /\ job' \in [Thread -> JobType]
      /\ \A u \in Thread \ {t} : pc'[u] = pc[u] /\ job'[u] = job[u]
  BY <1>3 DEF Inv, TypeOK, Moves
<1>5. TypeOK'
  <2>1. owned' \subseteq entries' /\ orphaned' \in BOOLEAN
    BY <1>0, <1>1 DEF Inv, TypeOK
  <2> QED BY <1>0, <1>4, <2>1 DEF Inv, TypeOK, data
<1>6. Places'
  <2> SUFFICES ASSUME NEW u \in Thread PROVE PlaceOf(u)'
    BY DEF Places
  <2>1. CASE u = t
    BY <1>2, <1>3, <2>1 DEF PlaceOf, Creating
  <2>2. CASE u # t
    <3>1. PlaceOf(u) /\ pc'[u] = pc[u] /\ job'[u] = job[u]
      BY <1>4, <2>2 DEF Inv, Places
    <3>2. pc[u] = "finish" => Entry(job[u]) \in entries' \ owned'
      <4> SUFFICES ASSUME pc[u] = "finish" PROVE Entry(job[u]) \in entries' \ owned'
        OBVIOUS
      <4>1. job[u].id # job[t].id
        BY <1>1, <2>2, Constants DEF Inv, Ids
      <4>2. Entry(job[u]) # Entry(job[t])
        BY <4>1 DEF Entry
      <4> QED BY <1>0, <3>1, <4>2 DEF PlaceOf
    <3>3. Entry(job'[u]) = Entry(job[u])
      BY <3>1
    <3> QED BY <3>1, <3>2, <3>3 DEF PlaceOf
  <2> QED BY <2>1, <2>2
<1>7. Counted'
  BY <1>0, <1>2, <1>3, <1>4 DEF Inv, Counted, data
<1>8. Ids'
  <2>1. nodes \subseteq [node : Node, id : Nat] /\ entries \subseteq EntryType
    BY DEF Inv, TypeOK
  <2>2. \A x \in nodes \cup entries : x.id # None
    BY <2>1, Constants DEF EntryType
  <2> QED BY <1>0, <1>2, <1>3, <1>4, <2>2 DEF Inv, Ids
<1>9. Books'
  <2> SUFFICES ASSUME ~orphaned' PROVE Books'
    BY DEF Books
  <2>1. owned' = owned \cup {Entry(job[t])} /\ ~orphaned
    BY <1>0
  <2>2. mutex' = None
    BY <1>0, <2>1 DEF Inv, Books
  <2>3. ASSUME NEW d \in entries'
        PROVE  d \in owned' \/ \E u \in Thread : pc'[u] = "finish" /\ Entry(job'[u]) = d
    <3>1. CASE d \in owned
      BY <2>1, <3>1
    <3>2. CASE \E u \in Thread : pc[u] = "finish" /\ Entry(job[u]) = d
      <4>1. PICK u \in Thread : pc[u] = "finish" /\ Entry(job[u]) = d
        BY <3>2
      <4>2. CASE u = t
        BY <2>1, <4>1, <4>2
      <4>3. CASE u # t
        <5>1. pc'[u] = "finish" /\ Entry(job'[u]) = d
          BY <1>4, <4>1, <4>3
        <5> QED BY <5>1
      <4> QED BY <4>2, <4>3
    <3> QED BY <1>0, <2>1, <3>1, <3>2 DEF Inv, Books
  <2> QED BY <2>2, <2>3 DEF Books
<1>10. Stopping'
  BY <1>0, <1>1, <1>3, <1>4 DEF Inv, Stopping, Creating, data
<1>11. Data(entries', pc', job', callback') = Data(entries, pc, job, callback)
  <2>1. pc[t] # "drop" /\ pc'[t] # "drop" /\ callback' = callback /\ entries' = entries
    BY <1>0, <1>3
  <2> QED BY <1>4, <2>1, DataOfOthers
<1>12. Gone'
  <2>1. \A u \in Thread : job'[u].holds => job[u].holds
    BY <1>2, <1>3, <1>4
  <2> QED BY <1>0, <1>3, <1>4, <1>11, <2>1 DEF Inv, Gone, Shared, data
<1>13. Shown' /\ Before'
  BY <1>0, <1>1, <1>11 DEF Inv, Shown, Before
<1> QED BY <1>5, <1>6, <1>7, <1>8, <1>9, <1>10, <1>12, <1>13 DEF Inv

LEMMA DestroyEntityKeeps ==
  ASSUME Inv, NEW t \in Thread, NEW k, DestroyEntity(t, k)
  PROVE  Inv'
<1>0. /\ impl = "up" /\ pc[t] = "idle"
      /\ UNCHANGED <<impl, data, mutex, nodes, building, tokens, closed, callback,
                     past, crashed>>
  BY DEF DestroyEntity, Calls
<1>1. PICK e \in owned :
        /\ owned' = owned \ {e} /\ entries' = entries \ {e}
        /\ Goto(t, "drop", [NoJob EXCEPT !.node = e.node, !.kind = e.kind, !.id = e.id])
  BY DEF DestroyEntity
<1> DEFINE j == [NoJob EXCEPT !.node = e.node, !.kind = e.kind, !.id = e.id]
<1>2. /\ entries \subseteq EntryType /\ nodes \subseteq [node : Node, id : Nat]
      /\ owned \subseteq entries /\ e \in entries /\ e \in EntryType /\ e.id \in Nat
  BY DEF Inv, TypeOK, EntryType
<1>3. j \in JobType /\ j.id = e.id /\ ~j.holds
  BY <1>2 DEF NoJob, JobType, EntryType
<1> HIDE DEF j
<1>4. Moves(t) /\ pc'[t] = "drop" /\ job'[t] = j
  BY <1>1, <1>3, GotoMoves DEF Inv, Pc, j
<1>5. /\ pc \in [Thread -> Pc] /\ job \in [Thread -> JobType]
      /\ pc' \in [Thread -> Pc] /\ job' \in [Thread -> JobType]
      /\ \A u \in Thread \ {t} : pc'[u] = pc[u] /\ job'[u] = job[u]
  BY <1>4 DEF Inv, TypeOK, Moves
<1>6. TypeOK'
  <2>1. owned' \subseteq entries' /\ entries' \subseteq EntryType
    BY <1>1, <1>2
  <2> QED BY <1>0, <1>5, <2>1 DEF Inv, TypeOK, data, past
\* Nobody else is at this entity.
<1>7. ASSUME NEW u \in Thread \ {t} PROVE job[u].id # e.id
  <2>1. CASE pc[u] # "finish"
    BY <1>2, <2>1 DEF Inv, Ids
  <2>2. CASE pc[u] = "finish"
    <3>1. Entry(job[u]) \in entries \ owned
      BY <2>2 DEF Inv, Places, PlaceOf
    <3>2. Entry(job[u]).id = job[u].id /\ Entry(job[u]) # e
      BY <3>1 DEF Entry
    <3> QED BY <1>2, <3>1, <3>2 DEF Inv, Ids
  <2> QED BY <2>1, <2>2
<1>8. Places'
  <2> SUFFICES ASSUME NEW u \in Thread PROVE PlaceOf(u)'
    BY DEF Places
  <2>1. CASE u = t
    BY <1>2, <1>3, <1>4, <2>1 DEF PlaceOf, Creating
  <2>2. CASE u # t
    <3>1. PlaceOf(u) /\ pc'[u] = pc[u] /\ job'[u] = job[u]
      BY <1>5, <2>2 DEF Inv, Places
    <3>2. pc[u] = "finish" => Entry(job[u]) \in entries' \ owned'
      <4>1. Entry(job[u]).id = job[u].id
        BY DEF Entry
      <4>2. Entry(job[u]) # e
        BY <1>7, <2>2, <4>1
      <4> QED BY <1>1, <3>1, <4>2 DEF PlaceOf
    <3>3. Entry(job'[u]) = Entry(job[u])
      BY <3>1
    <3> QED BY <3>1, <3>2, <3>3 DEF PlaceOf
  <2> QED BY <2>1, <2>2
<1>9. Counted /\ Ids /\ None \notin Nat /\ entries' \subseteq entries /\ nodes' = nodes
  BY <1>0, <1>1, Constants DEF Inv
<1>10. Counted'
  <2>1. \A u \in Thread : job'[u].id # None => job'[u].id < next_entity_id
    BY <1>2, <1>3, <1>4, <1>5, <1>9 DEF Counted
  <2> QED BY <1>0, <1>9, <2>1 DEF Counted, data
<1>11. Ids'
  <2>1. \A u, v \in Thread : job'[u].id # None /\ job'[u].id = job'[v].id => u = v
    BY <1>3, <1>4, <1>5, <1>7, <1>9 DEF Ids
  <2>2. \A u \in Thread, x \in nodes : x.id # job'[u].id
    BY <1>2, <1>3, <1>4, <1>5, <1>9 DEF Ids
  <2>3. \A d \in entries' : d.id # e.id
    BY <1>1, <1>2, <1>9 DEF Ids
  <2>4. \A u \in Thread, d \in entries' : pc'[u] # "finish" => d.id # job'[u].id
    BY <1>3, <1>4, <1>5, <1>9, <2>3 DEF Ids
  <2> QED BY <1>9, <2>1, <2>2, <2>4 DEF Ids
<1>12. Books'
  <2> SUFFICES ASSUME ~orphaned PROVE Books'
    BY <1>0 DEF Books, past
  <2>1. mutex' = None
    BY <1>0 DEF Inv, Books
  <2>2. ASSUME NEW d \in entries'
        PROVE  d \in owned' \/ \E u \in Thread : pc'[u] = "finish" /\ Entry(job'[u]) = d
    <3>1. CASE d \in owned
      BY <1>1, <3>1
    <3>2. CASE \E u \in Thread : pc[u] = "finish" /\ Entry(job[u]) = d
      <4>1. PICK u \in Thread : pc[u] = "finish" /\ Entry(job[u]) = d
        BY <3>2
      <4>2. pc'[u] = "finish" /\ Entry(job'[u]) = d
        BY <1>0, <1>5, <4>1
      <4> QED BY <4>2
    <3> QED BY <1>9, <3>1, <3>2 DEF Inv, Books
  <2> QED BY <2>1, <2>2 DEF Books
<1>13. Stopping'
  BY <1>0, <1>4, <1>5 DEF Inv, Stopping, Creating, data, past
<1>14. Data(entries', pc', job', callback') = Data(entries, pc, job, callback)
  <2>1. {d.id : d \in entries} = {d.id : d \in entries'} \cup {e.id}
    BY <1>1, <1>2
  <2>2. {job'[u].id : u \in {v \in Thread : pc'[v] = "drop"}}
          = {job[u].id : u \in {v \in Thread : pc[v] = "drop"}} \cup {e.id}
    <3>1. {v \in Thread : pc'[v] = "drop"} = {v \in Thread : pc[v] = "drop"} \cup {t}
      BY <1>4, <1>5
    <3>2. \A u \in {v \in Thread : pc[v] = "drop"} : u # t /\ job'[u] = job[u]
      BY <1>0, <1>5
    <3>3. job'[t].id = e.id
      BY <1>3, <1>4
    <3> QED BY <3>1, <3>2, <3>3
  <2>3. callback' = callback
    BY <1>0
  <2> QED BY <2>1, <2>2, <2>3 DEF Data
<1>15. Gone'
  <2>1. \A u \in Thread : job'[u].holds => job[u].holds
    BY <1>3, <1>4, <1>5
  <2> QED BY <1>0, <1>4, <1>5, <1>14, <2>1 DEF Inv, Gone, Shared, data
<1>16. Shown' /\ Before'
  BY <1>0, <1>14 DEF Inv, Shown, Before
<1> QED BY <1>6, <1>8, <1>10, <1>11, <1>12, <1>13, <1>15, <1>16 DEF Inv

-----------------------------------------------------------------------------
(* Shutdown *)

LEMMA ShutdownKeeps ==
  ASSUME Inv, NEW t \in Thread, Shutdown(t)
  PROVE  Inv'
<1>0. /\ impl = "up" /\ pc[t] = "idle" /\ crashed = None /\ ~is_shutdown
      /\ subscribed' = FALSE
      /\ UNCHANGED <<impl, session, next_entity_id, mutex, maps, building, tokens,
                     closed, job, callback, orphaned, crashed>>
  BY DEF Shutdown, Calls
<1>1. \/ /\ is_shutdown' = TRUE /\ pc' = [pc EXCEPT ![t] = "reset"]
         /\ raced' = {u \in Thread : pc[u] # "idle"}
      \/ UNCHANGED <<is_shutdown, pc, raced>>
  BY DEF Shutdown
<1>2. /\ pc \in [Thread -> Pc] /\ pc' \in [Thread -> Pc] /\ pc'[t] \in {"idle", "reset"}
      /\ \A u \in Thread \ {t} : pc'[u] = pc[u]
  BY <1>0, <1>1 DEF Inv, TypeOK, Pc
<1>3. UNCHANGED <<nodes, entries, owned>>
  BY <1>0 DEF maps
<1>4. TypeOK'
  <2>1. is_shutdown' \in BOOLEAN /\ raced' \subseteq Thread
    BY <1>1 DEF Inv, TypeOK
  <2> QED BY <1>0, <1>2, <1>3, <2>1 DEF Inv, TypeOK
<1>5. Places'
  <2> SUFFICES ASSUME NEW u \in Thread PROVE PlaceOf(u)'
    BY DEF Places
  <2>1. PlaceOf(u) /\ job' = job /\ Entry(job'[u]) = Entry(job[u])
    BY <1>0 DEF Inv, Places
  <2>2. CASE u = t
    BY <1>0, <1>2, <1>3, <2>1, <2>2 DEF PlaceOf, Creating
  <2>3. CASE u # t
    <3>1. pc'[u] = pc[u]
      BY <1>2, <2>3
    <3> QED BY <1>3, <2>1, <3>1 DEF PlaceOf
  <2> QED BY <2>2, <2>3
<1>6. Counted' /\ Ids'
  <2>1. Counted'
    BY <1>0, <1>3 DEF Inv, Counted
  <2>2. Ids'
    BY <1>0, <1>2, <1>3 DEF Inv, Ids
  <2> QED BY <2>1, <2>2
<1>7. Books'
  BY <1>0, <1>2, <1>3 DEF Inv, Books, Entry
<1>8. Stopping'
  <2>1. \A u \in Thread : pc'[u] \in Creating => u # t /\ pc[u] \in Creating
    BY <1>2 DEF Creating
  <2>2. is_shutdown' => \A u \in Thread : pc'[u] \in Creating => u \in raced'
    BY <1>0, <1>1, <2>1 DEF Creating
  <2>3. \A u \in Thread : pc'[u] = "make" => u # t /\ pc[u] = "make"
    BY <1>2
  <2>4. \A u \in Thread : pc'[u] = "reset" => is_shutdown'
    BY <1>0, <1>1, <1>2 DEF Inv, Stopping
  <2> QED BY <1>0, <1>1, <2>2, <2>3, <2>4 DEF Inv, Stopping
<1>9. Data(entries', pc', job', callback') = Data(entries, pc, job, callback)
  <2>1. pc[t] # "drop" /\ pc'[t] # "drop"
    BY <1>0, <1>2
  <2>2. entries' = entries /\ callback' = callback /\ job' = job
    BY <1>0, <1>3
  <2> QED BY <1>2, <2>1, <2>2, DataOfOthers
<1>10. Gone'
  BY <1>0, <1>2, <1>9 DEF Inv, Gone, Shared
<1>11. Shown' /\ Before'
  BY <1>0, <1>3, <1>9 DEF Inv, Shown, Before
<1> QED BY <1>4, <1>5, <1>6, <1>7, <1>8, <1>10, <1>11 DEF Inv

LEMMA CloseKeeps ==
  ASSUME Inv, NEW t \in Thread, Close(t)
  PROVE  Inv'
<1>0. /\ pc[t] = "close" /\ closed' = TRUE /\ tokens' = {}
      /\ mutex' = IF mutex = t THEN None ELSE mutex
      /\ UNCHANGED <<impl, data, maps, building, callback, past, crashed>>
  BY DEF Close
<1>1. NoJob \in JobType /\ NoJob.id = None /\ ~NoJob.holds
  BY DEF NoJob, JobType
<1>2. Moves(t) /\ pc'[t] = "idle" /\ job'[t] = NoJob
  BY <1>1, GotoMoves DEF Inv, Pc, Close
<1>3. /\ pc \in [Thread -> Pc] /\ job \in [Thread -> JobType]
      /\ pc' \in [Thread -> Pc] /\ job' \in [Thread -> JobType]
      /\ \A u \in Thread \ {t} : pc'[u] = pc[u] /\ job'[u] = job[u]
  BY <1>2 DEF Inv, TypeOK, Moves
<1>4. impl # "none" /\ UNCHANGED <<nodes, entries, owned, session, next_entity_id>>
  BY <1>0, InCall DEF maps, data
<1>5. TypeOK'
  <2>1. mutex' \in Thread \cup {None} /\ tokens' \subseteq Nat
    BY <1>0 DEF Inv, TypeOK
  <2> QED BY <1>0, <1>3, <1>4, <2>1 DEF Inv, TypeOK, data, past
<1>6. Places'
  <2> SUFFICES ASSUME NEW u \in Thread PROVE PlaceOf(u)'
    BY DEF Places
  <2>1. CASE u = t
    BY <1>1, <1>2, <2>1 DEF PlaceOf, Creating
  <2>2. CASE u # t
    <3>1. PlaceOf(u) /\ pc'[u] = pc[u] /\ job'[u] = job[u]
      BY <1>3, <2>2 DEF Inv, Places
    <3>2. Entry(job'[u]) = Entry(job[u])
      BY <3>1
    <3> QED BY <1>4, <3>1, <3>2 DEF PlaceOf
  <2> QED BY <2>1, <2>2
<1>7. Counted'
  BY <1>1, <1>2, <1>3, <1>4 DEF Inv, Counted
<1>8. Ids'
  <2>1. nodes \subseteq [node : Node, id : Nat] /\ entries \subseteq EntryType
    BY DEF Inv, TypeOK
  <2>2. \A x \in nodes \cup entries : x.id # None
    BY <2>1, Constants DEF EntryType
  <2> QED BY <1>1, <1>2, <1>3, <1>4, <2>2 DEF Inv, Ids
<1>9. Books'
  <2>1. pc[t] # "finish"
    BY <1>0
  <2> QED BY <1>0, <1>3, <1>4, <2>1 DEF Inv, Books, Entry, past
<1>10. Stopping'
  BY <1>0, <1>2, <1>3, <1>4 DEF Inv, Stopping, Creating, data, past
<1>11. Data(entries', pc', job', callback') = Data(entries, pc, job, callback)
  <2>1. pc[t] # "drop" /\ pc'[t] # "drop" /\ callback' = callback /\ entries' = entries
    BY <1>0, <1>2, <1>4
  <2> QED BY <1>3, <2>1, DataOfOthers
<1>12. Gone'
  <2>1. \A u \in Thread : job'[u].holds => job[u].holds
    BY <1>1, <1>2, <1>3
  <2>2. ~Shared(session, entries, pc, job, callback)
    BY <1>0 DEF Inv, Gone
  <2> QED BY <1>0, <1>4, <1>11, <2>1, <2>2 DEF Gone, Shared
<1>13. Shown' /\ Before'
  BY <1>0, <1>4 DEF Inv, Shown, Before
<1> QED BY <1>5, <1>6, <1>7, <1>8, <1>9, <1>10, <1>12, <1>13 DEF Inv

-----------------------------------------------------------------------------
(* The invariant holds *)

LEMMA StutterKeeps == Inv /\ UNCHANGED vars => Inv'
<1> SUFFICES ASSUME Inv, UNCHANGED vars PROVE Inv'
  OBVIOUS
<1>1. UNCHANGED <<impl, is_shutdown, session, subscribed, next_entity_id, mutex, nodes,
                  entries, owned, building, tokens, closed, pc, job, callback,
                  orphaned, raced, crashed>>
  BY DEF vars, data, maps, past
<1>2. TypeOK'
  BY <1>1 DEF Inv, TypeOK
<1>3. Places' /\ Counted' /\ Ids' /\ Books'
  BY <1>1, ApartKeeps DEF Apart, maps, past
<1>4. Stopping' /\ Before'
  BY <1>1 DEF Inv, Stopping, Before
<1>5. Data(entries', pc', job', callback') = Data(entries, pc, job, callback)
  BY <1>1
<1>6. Shared(session', entries', pc', job', callback')
        = Shared(session, entries, pc, job, callback)
  BY <1>1
<1>7. Gone' /\ Shown'
  BY <1>1, <1>5, <1>6 DEF Inv, Gone, Shown
<1> QED BY <1>2, <1>3, <1>4, <1>7 DEF Inv

LEMMA NextKeeps == Inv /\ [Next]_vars => Inv'
<1> SUFFICES ASSUME Inv, [Next]_vars PROVE Inv'
  OBVIOUS
<1>1. CASE InitContext \/ Fini
  BY <1>1, InitContextKeeps, FiniKeeps
<1>2. ASSUME NEW t \in Thread, Call(t) PROVE Inv'
  <2>1. CASE CreateNode(t) \/ DestroyNode(t) \/ Shutdown(t)
    BY <2>1, CreateNodeKeeps, DestroyNodeKeeps, ShutdownKeeps
  <2>2. ASSUME NEW k, CreateEntity(t, k) PROVE Inv'
    <3>1. k \in Kinds
      BY <2>2 DEF CreateEntity
    <3> QED BY <2>2, <3>1, CreateEntityKeeps
  <2>3. ASSUME NEW k, DestroyEntity(t, k) PROVE Inv'
    BY <2>3, DestroyEntityKeeps
  <2> QED BY <1>2, <2>1, <2>2, <2>3
          DEF Call, CreatePublisher, CreateSubscription, CreateService, CreateClient,
              DestroyPublisher, DestroySubscription, DestroyService, DestroyClient
<1>3. ASSUME NEW t \in Thread, Proceed(t) PROVE Inv'
  <2>1. CASE CreateNodeData(t) \/ GetSession(t)
    BY <2>1, CreateNodeDataKeeps, GetSessionKeeps
  <2>2. ASSUME NEW k, CreateData(t, k) PROVE Inv'
    BY <2>2, CreateDataKeeps
  <2>3. ASSUME NEW k, DeclareEntity(t, k) PROVE Inv'
    BY <2>3, DeclareKeeps
  <2>4. CASE SubscriptionMake(t)
    BY <2>4, SubscriptionMakeKeeps
  <2>5. ASSUME NEW k, Drop(t, k) PROVE Inv'
    BY <2>5, DropKeeps
  <2>6. CASE ResetSession(t) \/ Close(t)
    BY <2>6, ResetSessionKeeps, CloseKeeps
  <2>7. ASSUME NEW k, CheckSession(t, k) PROVE Inv'
    BY <2>7, CheckSessionKeeps
  <2>8. ASSUME NEW k, Finish(t, k) PROVE Inv'
    BY <2>8, FinishKeeps
  <2> QED BY <1>3, <2>1, <2>2, <2>3, <2>4, <2>5, <2>6, <2>7, <2>8
          DEF Proceed, CheckPublisher, CheckSubscription, CheckService, CheckClient,
              FinishPublisher, FinishSubscription, FinishService, FinishClient,
              CreatePubData, CreateSubData, CreateServiceData,
              CreateClientData, PublisherMake, ServiceMake, ClientMake,
              ShutdownPublisher, ShutdownSubscription, ShutdownService, ShutdownClient
<1>4. CASE TokenArrives \/ UpdateGraph \/ SampleArrives \/ SampleDone
  BY <1>4, TokenArrivesKeeps, UpdateGraphKeeps, SampleArrivesKeeps, SampleDoneKeeps
<1>5. CASE UNCHANGED vars
  BY <1>5, StutterKeeps
<1> QED BY <1>1, <1>2, <1>3, <1>4, <1>5 DEF Next

LEMMA Invariance == Spec => []Inv
BY InitInv, NextKeeps, PTL DEF Spec

-----------------------------------------------------------------------------
(* Theorems *)

\* Every variable keeps its type: rcl never has a handle whose data is gone from
\* the map of its node, whatever fails on the way.
THEOREM TypeCorrect == Spec => []TypeOK
<1>1. Inv => TypeOK
  BY DEF Inv
<1> QED BY <1>1, Invariance, PTL

\* However creations interleave and fail, get_next_entity_id() gives no two
\* nodes or entities the same identifier, nor one to a call that is there
\* already.
THEOREM IdentifiersAreUnique == Spec => []IdsUnique
<1>1. Inv => IdsUnique
  <2> SUFFICES ASSUME Inv PROVE IdsUnique
    OBVIOUS
  <2>1. Ids /\ entries \subseteq EntryType /\ nodes \subseteq [node : Node, id : Nat]
    BY DEF Inv, TypeOK
  <2>2. ASSUME NEW t \in Thread, job[t].id # None, pc[t] # "finish"
        PROVE  /\ \A x \in nodes \cup entries : x.id # job[t].id
               /\ \A u \in Thread \ {t} : job[u].id # job[t].id
    BY <2>1, <2>2 DEF Ids
  <2> QED BY <2>1, <2>2 DEF Ids, IdsUnique
<1> QED BY <1>1, Invariance, PTL

\* Only a call that rmw_shutdown() overtook finds no session: is_shutdown_ is set
\* before the session is taken away, and is read before anything is created.
THEOREM NoSessionIsARace == Spec => []NoSessionOnlyInRace
<1>1. Inv => NoSessionOnlyInRace
  BY DEF Inv, Stopping, NoSessionOnlyInRace
<1> QED BY <1>1, Invariance, PTL

\* As long as no call left an entity behind, whoever closes the session does not
\* have the mutex that the graph callback may be waiting for.
THEOREM ClosesWithoutMutex == Spec => []CloseWithoutMutex
<1>1. Inv => CloseWithoutMutex
  BY Constants DEF Inv, Books, CloseWithoutMutex
<1> QED BY <1>1, Invariance, PTL

\* The session is closed when neither the context nor an entity's data nor a
\* call has it, and nobody gets it afterwards.
THEOREM SessionIsClosedLast == Spec => []SessionOutlivesEntities
<1>1. Inv => SessionOutlivesEntities
  <2> SUFFICES ASSUME Inv, closed
               PROVE  /\ ~session /\ entries = {} /\ callback.what # "data"
                      /\ \A t \in Thread : ~job[t].holds
    BY DEF SessionOutlivesEntities
  <2>1. ~Shared(session, entries, pc, job, callback)
    BY DEF Inv, Gone
  <2>2. Data(entries, pc, job, callback) = {} /\ ~session /\ \A t \in Thread : ~job[t].holds
    BY <2>1 DEF Shared
  <2>3. entries = {} /\ callback.id = None
    BY <2>2 DEF Data
  <2> QED BY <2>2, <2>3 DEF Inv, Shown
<1> QED BY <1>1, Invariance, PTL

\* When nothing is in progress, and no failed call left an entity behind, the
\* liveliness tokens are those of the nodes and entities that rcl has.
THEOREM TokensAreThoseInUse == Spec => []GraphShowsWhatIsThere
<1>1. Inv => GraphShowsWhatIsThere
  <2> SUFFICES ASSUME Inv, ~orphaned, ~closed, \A t \in Thread : pc[t] = "idle",
                      callback = Quiet
               PROVE  tokens = {x.id : x \in nodes \cup owned}
    BY DEF GraphShowsWhatIsThere
  <2>1. tokens = {n.id : n \in nodes} \cup Data(entries, pc, job, callback)
    BY DEF Inv, Shown
  <2>2. entries = owned
    BY DEF Inv, Books, TypeOK
  <2>3. Data(entries, pc, job, callback) = {x.id : x \in entries}
    BY DEF Data, Quiet
  <2> QED BY <2>1, <2>2, <2>3
<1> QED BY <1>1, Invariance, PTL
=============================================================================
