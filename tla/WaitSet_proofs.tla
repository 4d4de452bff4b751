--------------------------- MODULE WaitSet_proofs ---------------------------
(***************************************************************************)
(* The safety of rmw_wait for any number of waiters, notifiers and         *)
(* sources.                                                                *)
(***************************************************************************)
EXTENDS WaitSet, WellFoundedInduction, TLAPS

\* Every wait set has its own sources.
Disjoint ==
  \A v, w \in Waiter : \A i \in 1..Len(Slots[v]), j \in 1..Len(Slots[w]) :
    Slots[v][i] = Slots[w][j] => v = w

LEMMA SlotType ==
  ASSUME NEW w \in Waiter
  PROVE  /\ Len(Slots[w]) \in Nat
         /\ \A i \in 1..Len(Slots[w]) : Slots[w][i] \in Source
BY WaitSetAssumption

LEMMA NoneType ==
  /\ None \notin Waiter
  /\ None \notin Notifier
  /\ None \notin Source
BY WaitSetAssumption

\* What a notifier at each point is raising, and from where.
Raising ==
  \A n \in Notifier :
    /\ npc[n] = "lose" => src[n] \in Queue /\ LostEvent[src[n]] # None
    /\ npc[n] = "fill" => src[n] \in Guard \cup Queue
    /\ npc[n] = "raised" => src[n] \in Event
    /\ npc[n] = "signal" => src[n] \in Source
    /\ outer[n] # None =>
         /\ npc[n] \in {"raised", "signal"}
         /\ LostEvent[outer[n]] # None
         /\ src[n] = LostEvent[outer[n]]

Typed == TypeOK /\ Raising

LEMMA InitTyped == Init => Typed
BY DEF Init, Typed, TypeOK, Raising, Kind

LEMMA WaiterTyped ==
  ASSUME Typed, NEW w \in Waiter, WaiterStep(w)
  PROVE  Typed'
<1> USE DEF Typed, TypeOK
<1>1. ASSUME NEW k \in Kind, Begin(w, k) PROVE Typed'
  BY <1>1 DEF Begin, notifierVars, Raising
<1>2. ASSUME CheckAndAttach(w) PROVE Typed'
  <2>1. Slots[w][slot[w]] \in Source
    BY <1>2, SlotType DEF CheckAndAttach
  <2>2. attached' \in [Source -> Waiter \cup {None}]
    BY <1>2, <2>1 DEF CheckAndAttach
  <2>3. slot' \in [Waiter -> Nat \ {0}]
    <3>1. slot[w] + 1 \in Nat \ {0}
      OBVIOUS
    <3>2. slot' = [slot EXCEPT ![w] = 1] \/ slot' = [slot EXCEPT ![w] = slot[w] + 1]
      BY <1>2 DEF CheckAndAttach
    <3>3. QED BY <3>1, <3>2
  <2>4. wpc' \in [Waiter -> {"idle", "attach", "sleep", "detach"}]
    <3>1. wpc' = [wpc EXCEPT ![w] = "detach"] \/ wpc' = wpc
      BY <1>2 DEF CheckAndAttach
    <3>2. QED BY <3>1
  <2>5. UNCHANGED <<ready, triggered, kind, reported, owner, npc, src, outer>>
    BY <1>2 DEF CheckAndAttach, notifierVars
  <2>6. QED BY <2>2, <2>3, <2>4, <2>5 DEF Raising
<1>3. ASSUME Sleep(w) PROVE Typed'
  BY <1>3 DEF Sleep, notifierVars, Raising
<1>4. ASSUME Wake(w) PROVE Typed'
  BY <1>4 DEF Wake, notifierVars, Raising
<1>5. ASSUME Timeout(w) PROVE Typed'
  BY <1>5 DEF Timeout, notifierVars, Raising
<1>6. ASSUME Detach(w) PROVE Typed'
  <2>1. Slots[w][slot[w]] \in Source
    BY <1>6, SlotType DEF Detach
  <2>2. ready' \in [Source -> BOOLEAN]
    BY <1>6, <2>1 DEF Detach
  <2>3. reported' \in [Waiter -> SUBSET Nat]
    BY <1>6 DEF Detach
  <2>4. QED BY <1>6, <2>1, <2>2, <2>3 DEF Detach, notifierVars, Raising
<1>7. ASSUME Return(w) PROVE Typed'
  BY <1>7 DEF Return, notifierVars, Raising
<1>8. QED
  BY <1>1, <1>2, <1>3, <1>4, <1>5, <1>6, <1>7 DEF WaiterStep

LEMMA NotifierTyped ==
  ASSUME Typed, NEW n \in Notifier, NotifierStep(n)
  PROVE  Typed'
<1> USE NoneType DEF Typed, TypeOK
<1>1. ASSUME NEW s \in Source, Trigger(n, s) \/ AddNewMessage(n, s) \/ AddNewItem(n, s)
      PROVE Typed'
  <2>1. /\ npc' \in [Notifier -> {"idle", "lose", "fill", "raised", "signal"}]
        /\ src' = [src EXCEPT ![n] = s]
        /\ owner' = [owner EXCEPT ![MutexOf[s]] = n]
        /\ UNCHANGED <<ready, attached, waiterVars, outer>>
    BY <1>1 DEF Trigger, AddNewMessage, AddNewItem, Enter
  <2>2. TypeOK'
    BY <2>1 DEF waiterVars
  <2>3. outer[n] = None
    BY <1>1 DEF Trigger, AddNewMessage, AddNewItem, Enter, Raising
  <2>4. /\ npc'[n] \in {"lose", "fill"}
        /\ npc'[n] = "lose" => s \in Queue /\ LostEvent[s] # None
        /\ npc'[n] = "fill" => s \in Guard \cup Queue
        /\ \A p \in Notifier \ {n} : npc'[p] = npc[p]
    BY <1>1 DEF Trigger, AddNewMessage, AddNewItem
  <2>5. Raising'
    BY <2>1, <2>3, <2>4 DEF Raising
  <2>6. QED BY <2>2, <2>5
<1>2. ASSUME NEW e \in Source, UpdateEventStatus(n, e) PROVE Typed'
  BY <1>2 DEF UpdateEventStatus, waiterVars, Raising
<1>3. ASSUME Fill(n) PROVE Typed'
  <2>1. src[n] \in Source
    BY <1>3 DEF Fill, Raising, Source
  <2>2. QED BY <1>3, <2>1 DEF Fill, waiterVars, Raising
<1>4. ASSUME ReportLost(n) PROVE Typed'
  <2>1. /\ src[n] \in Queue
        /\ LostEvent[src[n]] \in Event
    BY <1>4, WaitSetAssumption DEF ReportLost, Raising
  <2>2. QED BY <1>4, <2>1 DEF ReportLost, waiterVars, Raising, Source
<1>5. ASSUME EnterNotifyEvent(n) PROVE Typed'
  BY <1>5 DEF EnterNotifyEvent, waiterVars, Raising, Source
<1>6. ASSUME Signal(n) PROVE Typed'
  <2>1. owner' \in [Mutex -> Notifier \cup {None}]
    BY <1>6 DEF Signal
  <2>2. triggered' \in [Waiter -> BOOLEAN]
    BY <1>6 DEF Signal
  <2>3. /\ src' \in [Notifier -> Source \cup {None}]
        /\ outer' \in [Notifier -> Queue \cup {None}]
        /\ npc' \in [Notifier -> {"idle", "lose", "fill", "raised", "signal"}]
    BY <1>6 DEF Signal, Source
  <2>4. Raising'
    BY <1>6 DEF Signal, Raising
  <2>5. QED BY <1>6, <2>1, <2>2, <2>3, <2>4 DEF Signal
<1>7. QED
  BY <1>1, <1>2, <1>3, <1>4, <1>5, <1>6 DEF NotifierStep

LEMMA TakeTyped ==
  ASSUME Typed, NEW s \in Source, Take(s)
  PROVE  Typed'
BY DEF Typed, TypeOK, Raising, Take, TakeData, TakeEvent, waiterVars, notifierVars

LEMMA StepTyped == Typed /\ [Next]_vars => Typed'
<1> SUFFICES ASSUME Typed, [Next]_vars PROVE Typed'
  OBVIOUS
<1>1. CASE UNCHANGED vars
  BY <1>1 DEF Typed, TypeOK, Raising, vars, waiterVars, notifierVars
<1>2. QED
  BY <1>1, WaiterTyped, NotifierTyped, TakeTyped DEF Next

\* The variables of rmw_wait, its sources and its notifiers keep their types,
\* for any sets of threads, sources and mutexes.
THEOREM TypeCorrect == Spec => []TypeOK
<1>1. Spec => []Typed
  BY InitTyped, StepTyped, PTL DEF Spec
<1>2. QED BY <1>1, PTL DEF Typed

-----------------------------------------------------------------------------
(* No lost wakeup *)

\* The sources a waiter has passed are attached to it until it has slept.
Attached ==
  \A w \in Waiter : \A i \in 1..Len(Slots[w]) :
    wpc[w] = "sleep" \/ (wpc[w] = "attach" /\ i < slot[w])
      => attached[Slots[w][i]] = w

\* A source the scan has passed can only be ready with a notifier still to
\* signal it: the scan holds condition_mutex.
Noticed ==
  \A w \in Waiter : \A i \in 1..Len(Slots[w]) :
    ready[Slots[w][i]] =>
      /\ wpc[w] = "attach" /\ i < slot[w]
           => \E n \in Notifier : AboutToSignal(n, Slots[w][i])
      /\ wpc[w] = "sleep"
           => triggered[w] \/ \E n \in Notifier : AboutToSignal(n, Slots[w][i])

WakeInv == Typed /\ Attached /\ Noticed

LEMMA InitWake == Init => WakeInv
<1> SUFFICES ASSUME Init PROVE WakeInv
  OBVIOUS
<1>1. Typed
  BY InitTyped
<1>2. \A w \in Waiter : wpc[w] = "idle"
  BY DEF Init
<1>3. QED BY <1>1, <1>2 DEF WakeInv, Attached, Noticed

LEMMA WaiterWake ==
  ASSUME Disjoint, WakeInv, NEW v \in Waiter, WaiterStep(v)
  PROVE  Attached' /\ Noticed'
<1> USE SlotType DEF WakeInv, Typed, TypeOK
<1>1. ASSUME (\E k \in Kind : Begin(v, k)) \/ Wake(v) \/ Timeout(v) \/ Return(v)
      PROVE Attached' /\ Noticed'
  <2>1. /\ UNCHANGED <<ready, attached, npc, src>>
        /\ \A w \in Waiter \ {v} :
             UNCHANGED <<wpc[w], slot[w], triggered[w]>>
        /\ wpc'[v] # "sleep"
        /\ wpc'[v] = "attach" => slot'[v] = 1
    BY <1>1 DEF Begin, Wake, Timeout, Return, notifierVars
  <2>2. Attached'
    BY <2>1 DEF Attached
  <2>3. Noticed'
    BY <2>1 DEF Noticed, AboutToSignal
  <2>4. QED BY <2>2, <2>3
<1>2. ASSUME CheckAndAttach(v) PROVE Attached' /\ Noticed'
  <2> DEFINE s == Slots[v][slot[v]]
  <2>1. /\ UNCHANGED <<ready, triggered, npc, src>>
        /\ s \in Source
        /\ slot[v] \in 1..Len(Slots[v])
        /\ wpc[v] = "attach"
        /\ \A w \in Waiter \ {v} : UNCHANGED <<wpc[w], slot[w]>>
    BY <1>2 DEF CheckAndAttach, notifierVars
  <2>2. CASE ready[s]
    <3>1. wpc'[v] = "detach" /\ UNCHANGED attached
      BY <1>2, <2>2 DEF CheckAndAttach
    <3>2. Attached'
      BY <2>1, <3>1 DEF Attached
    <3>3. Noticed'
      BY <2>1, <3>1 DEF Noticed, AboutToSignal
    <3>4. QED BY <3>2, <3>3
  <2>3. CASE ~ready[s]
    <3>1. /\ wpc'[v] = "attach" /\ slot'[v] = slot[v] + 1
          /\ attached' = [attached EXCEPT ![s] = v]
      BY <1>2, <2>1, <2>3 DEF CheckAndAttach
    <3>2. ASSUME NEW w \in Waiter, NEW i \in 1..Len(Slots[w]),
                 wpc'[w] = "sleep" \/ (wpc'[w] = "attach" /\ i < slot'[w])
          PROVE  attached'[Slots[w][i]] = w
      <4>1. CASE w = v
        <5>1. i < slot[v] \/ i = slot[v]
          BY <3>1, <3>2, <4>1
        <5>2. QED BY <2>1, <3>1, <4>1, <5>1 DEF Attached
      <4>2. CASE w # v
        <5>1. Slots[w][i] # s
          BY <2>1, <4>2 DEF Disjoint
        <5>2. attached[Slots[w][i]] = w
          BY <2>1, <3>2, <4>2 DEF Attached
        <5>3. QED BY <3>1, <5>1, <5>2
      <4>3. QED BY <4>1, <4>2
    <3>3. Attached'
      BY <3>2 DEF Attached
    <3>4. ASSUME NEW w \in Waiter, NEW i \in 1..Len(Slots[w]), ready[Slots[w][i]]
          PROVE  /\ wpc'[w] = "attach" /\ i < slot'[w]
                      => \E n \in Notifier : AboutToSignal(n, Slots[w][i])
                 /\ wpc'[w] = "sleep"
                      => \/ triggered[w]
                         \/ \E n \in Notifier : AboutToSignal(n, Slots[w][i])
      <4>1. CASE w = v
        <5>1. i # slot[v]
          BY <2>3, <3>4, <4>1
        <5>2. i < slot'[v] => i < slot[v]
          BY <3>1, <4>1, <5>1, <2>1
        <5>3. QED BY <2>1, <3>1, <3>4, <4>1, <5>2 DEF Noticed
      <4>2. CASE w # v
        BY <2>1, <3>4, <4>2 DEF Noticed
      <4>3. QED BY <4>1, <4>2
    <3>5. Noticed'
      BY <2>1, <3>4 DEF Noticed, AboutToSignal
    <3>6. QED BY <3>3, <3>5
  <2>4. QED BY <2>2, <2>3
<1>3. ASSUME Sleep(v) PROVE Attached' /\ Noticed'
  <2>1. /\ UNCHANGED <<ready, attached, npc, src>>
        /\ wpc[v] = "attach" /\ slot[v] > Len(Slots[v])
        /\ wpc'[v] # "attach"
        /\ \A w \in Waiter \ {v} : UNCHANGED <<wpc[w], slot[w], triggered[w]>>
    BY <1>3 DEF Sleep, notifierVars
  <2>2. \A i \in 1..Len(Slots[v]) : i < slot[v]
    BY <2>1
  <2>3. Attached'
    BY <2>1, <2>2 DEF Attached
  <2>4. \A t \in Source, p \in Notifier :
          AboutToSignal(p, t) => AboutToSignal(p, t)'
    BY <2>1 DEF AboutToSignal
  <2>5. ASSUME NEW w \in Waiter, NEW i \in 1..Len(Slots[w]), ready'[Slots[w][i]]
        PROVE  /\ wpc'[w] = "attach" /\ i < slot'[w]
                    => \E p \in Notifier : AboutToSignal(p, Slots[w][i])'
               /\ wpc'[w] = "sleep"
                    => triggered'[w] \/ \E p \in Notifier : AboutToSignal(p, Slots[w][i])'
    <3>1. Slots[w][i] \in Source /\ ready[Slots[w][i]]
      BY <2>1, <2>5
    <3>2. CASE w = v
      <4>1. \E p \in Notifier : AboutToSignal(p, Slots[w][i])
        BY <2>1, <2>2, <3>1, <3>2 DEF Noticed
      <4>2. QED BY <2>4, <3>1, <4>1
    <3>3. CASE w # v
      <4>1. UNCHANGED <<wpc[w], slot[w], triggered[w]>>
        BY <2>1, <3>3
      <4>2. QED BY <2>4, <3>1, <4>1 DEF Noticed
    <3>4. QED BY <3>2, <3>3
  <2>6. Noticed'
    BY <2>5 DEF Noticed
  <2>7. QED BY <2>3, <2>6
<1>4. ASSUME Detach(v) PROVE Attached' /\ Noticed'
  <2> DEFINE s == Slots[v][slot[v]]
  <2>1. /\ UNCHANGED <<wpc, triggered, npc, src>>
        /\ wpc[v] = "detach"
        /\ slot[v] \in 1..Len(Slots[v])
        /\ attached' = [attached EXCEPT ![s] = None]
        /\ \A w \in Waiter \ {v} : UNCHANGED slot[w]
    BY <1>4 DEF Detach, notifierVars
  <2>2. \A t \in Source : ready'[t] => ready[t]
    BY <1>4 DEF Detach
  <2>3. \A w \in Waiter \ {v} : \A i \in 1..Len(Slots[w]) : Slots[w][i] # s
    BY <2>1 DEF Disjoint
  <2>4. Attached'
    BY <2>1, <2>3 DEF Attached
  <2>5. \A t \in Source, p \in Notifier :
          AboutToSignal(p, t) => AboutToSignal(p, t)'
    BY <2>1 DEF AboutToSignal
  <2>6. Noticed'
    BY <2>1, <2>2, <2>5 DEF Noticed
  <2>7. QED BY <2>4, <2>6
<1>5. QED
  BY <1>1, <1>2, <1>3, <1>4 DEF WaiterStep

LEMMA NotifierWake ==
  ASSUME WakeInv, NEW n \in Notifier, NotifierStep(n)
  PROVE  Attached' /\ Noticed'
<1> USE SlotType, NoneType DEF WakeInv, Typed, TypeOK
<1> DEFINE Others == \A p \in Notifier \ {n} : UNCHANGED <<npc[p], src[p]>>
\* A step that makes at most src'[n] ready and leaves n about to signal it.
<1>1. ASSUME UNCHANGED <<attached, wpc, slot, triggered>>, Others,
             NEW s \in Source,
             ready' = [ready EXCEPT ![s] = TRUE],
             npc'[n] \in {"raised", "signal"}, src'[n] = s,
             npc[n] \in {"raised", "signal"} => src[n] = s
      PROVE  Attached' /\ Noticed'
  <2>1. Attached'
    BY <1>1 DEF Attached
  <2>2. \A t \in Source, p \in Notifier :
          AboutToSignal(p, t) => AboutToSignal(p, t)'
    BY <1>1 DEF AboutToSignal
  <2>3. \A t \in Source : ready'[t] => ready[t] \/ AboutToSignal(n, t)'
    BY <1>1 DEF AboutToSignal
  <2>4. Noticed'
    BY <1>1, <2>2, <2>3 DEF Noticed
  <2>5. QED BY <2>1, <2>4
<1>2. ASSUME NEW s \in Source, Trigger(n, s) \/ AddNewMessage(n, s) \/ AddNewItem(n, s)
      PROVE Attached' /\ Noticed'
  <2>1. /\ UNCHANGED <<ready, attached, wpc, slot, triggered>>
        /\ Others
        /\ npc[n] = "idle"
    BY <1>2 DEF Trigger, AddNewMessage, AddNewItem, Enter, waiterVars
  <2>2. \A t \in Source, p \in Notifier :
          AboutToSignal(p, t) => AboutToSignal(p, t)'
    BY <2>1 DEF AboutToSignal
  <2>3. Noticed'
    BY <2>1, <2>2 DEF Noticed
  <2>4. QED BY <2>1, <2>3 DEF Attached
<1>3. ASSUME NEW e \in Source, UpdateEventStatus(n, e) PROVE Attached' /\ Noticed'
  <2>1. /\ UNCHANGED <<attached, wpc, slot, triggered>> /\ Others
        /\ ready' = [ready EXCEPT ![e] = TRUE]
        /\ npc'[n] = "raised" /\ src'[n] = e /\ npc[n] = "idle"
    BY <1>3 DEF UpdateEventStatus, waiterVars
  <2>2. QED BY <1>1, <2>1
<1>4. ASSUME Fill(n) PROVE Attached' /\ Noticed'
  <2>1. /\ UNCHANGED <<attached, wpc, slot, triggered>> /\ Others
        /\ src[n] \in Source
        /\ ready' = [ready EXCEPT ![src[n]] = TRUE]
        /\ npc'[n] = "signal" /\ src'[n] = src[n] /\ npc[n] = "fill"
    BY <1>4 DEF Fill, waiterVars, Raising, Source
  <2>2. QED BY <1>1, <2>1
<1>5. ASSUME ReportLost(n) PROVE Attached' /\ Noticed'
  <2>1. LostEvent[src[n]] \in Source
    BY <1>5, WaitSetAssumption DEF ReportLost, Raising, Source
  <2>2. /\ UNCHANGED <<attached, wpc, slot, triggered>> /\ Others
        /\ ready' = [ready EXCEPT ![LostEvent[src[n]]] = TRUE]
        /\ npc'[n] = "raised" /\ src'[n] = LostEvent[src[n]] /\ npc[n] = "lose"
    BY <1>5 DEF ReportLost, waiterVars
  <2>3. QED BY <1>1, <2>1, <2>2
<1>6. ASSUME EnterNotifyEvent(n) PROVE Attached' /\ Noticed'
  <2>1. /\ UNCHANGED <<ready, attached, wpc, slot, triggered, src>> /\ Others
        /\ npc[n] = "raised" /\ npc'[n] = "signal"
    BY <1>6 DEF EnterNotifyEvent, waiterVars
  <2>2. \A t \in Source, p \in Notifier :
          AboutToSignal(p, t) => AboutToSignal(p, t)'
    BY <2>1 DEF AboutToSignal
  <2>3. Noticed'
    BY <2>1, <2>2 DEF Noticed
  <2>4. QED BY <2>1, <2>3 DEF Attached
<1>7. ASSUME Signal(n) PROVE Attached' /\ Noticed'
  <2> DEFINE s == src[n]
  <2>1. /\ UNCHANGED <<ready, attached, wpc, slot>> /\ Others
        /\ npc[n] = "signal" /\ s \in Source
        /\ \A w \in Waiter : triggered[w] => triggered'[w]
    <3>1. UNCHANGED <<ready, attached, wpc, slot>> /\ Others /\ npc[n] = "signal"
      BY <1>7 DEF Signal
    <3>2. s \in Source
      BY <3>1 DEF Raising
    <3>3. \A w \in Waiter : triggered[w] => triggered'[w]
      BY <1>7 DEF Signal
    <3>4. QED BY <3>1, <3>2, <3>3
  <2>2. Attached'
    BY <2>1 DEF Attached
  <2>3. \A t \in Source \ {s}, p \in Notifier :
          AboutToSignal(p, t) => AboutToSignal(p, t)'
    BY <2>1 DEF AboutToSignal
  <2>4. ASSUME NEW w \in Waiter, NEW i \in 1..Len(Slots[w]), Slots[w][i] = s
        PROVE  /\ ~(wpc[w] = "attach" /\ i < slot[w])
               /\ wpc[w] = "sleep" => triggered'[w]
    <3>1. CASE wpc[w] = "sleep" \/ (wpc[w] = "attach" /\ i < slot[w])
      <4>1. attached[s] = w
        BY <2>4, <3>1 DEF Attached
      <4>2. ~HoldsConditionMutex(w) /\ triggered'[w]
        BY <1>7, <4>1 DEF Signal
      <4>3. QED BY <4>2 DEF HoldsConditionMutex
    <3>2. QED BY <3>1
  <2>5. Noticed'
    <3> SUFFICES ASSUME NEW w \in Waiter, NEW i \in 1..Len(Slots[w]),
                        ready[Slots[w][i]]
                 PROVE  /\ wpc[w] = "attach" /\ i < slot[w]
                             => \E p \in Notifier : AboutToSignal(p, Slots[w][i])'
                        /\ wpc[w] = "sleep"
                             => \/ triggered'[w]
                                \/ \E p \in Notifier : AboutToSignal(p, Slots[w][i])'
      BY <2>1 DEF Noticed
    <3>1. CASE Slots[w][i] = s
      BY <2>4, <3>1
    <3>2. CASE Slots[w][i] # s
      BY <2>1, <2>3, <3>2 DEF Noticed
    <3>3. QED BY <3>1, <3>2
  <2>6. QED BY <2>2, <2>5
<1>8. QED
  BY <1>2, <1>3, <1>4, <1>5, <1>6, <1>7 DEF NotifierStep

LEMMA StepWake == Disjoint /\ WakeInv /\ [Next]_vars => WakeInv'
<1> SUFFICES ASSUME Disjoint, WakeInv, [Next]_vars PROVE WakeInv'
  OBVIOUS
<1>1. Typed'
  BY StepTyped DEF WakeInv
<1>2. ASSUME NEW s \in Source, Take(s) PROVE Attached' /\ Noticed'
  <2>1. UNCHANGED <<attached, wpc, slot, triggered, npc, src>>
    BY <1>2 DEF Take, waiterVars, notifierVars
  <2>2. \A t \in Source : ready'[t] => ready[t]
    BY <1>2 DEF Take, TakeData, TakeEvent, WakeInv, Typed, TypeOK
  <2>3. QED
    BY <2>1, <2>2, SlotType DEF WakeInv, Attached, Noticed, AboutToSignal
<1>3. CASE UNCHANGED vars
  <2>1. UNCHANGED <<ready, attached, wpc, slot, triggered, npc, src>>
    BY <1>3 DEF vars, waiterVars, notifierVars
  <2>2. Attached'
    BY <2>1 DEF WakeInv, Attached
  <2>3. Noticed'
    BY <2>1 DEF WakeInv, Noticed, AboutToSignal
  <2>4. QED BY <1>1, <2>2, <2>3 DEF WakeInv
<1>4. CASE \E w \in Waiter : WaiterStep(w)
  BY <1>1, <1>4, WaiterWake DEF WakeInv
<1>5. CASE \E n \in Notifier : NotifierStep(n)
  BY <1>1, <1>5, NotifierWake DEF WakeInv
<1>6. CASE \E s \in Source : Take(s)
  BY <1>1, <1>2, <1>6 DEF WakeInv
<1>7. QED BY <1>3, <1>4, <1>5, <1>6 DEF Next

\* When wait sets do not share sources, no readiness that arises at any point
\* of a wait is missed by it, for any number of threads and sources.
THEOREM WakeupsAreNotLost == ASSUME Disjoint PROVE Spec => []NoLostWakeup
<1>1. Spec => []WakeInv
  BY InitWake, StepWake, Disjoint, PTL DEF Spec
<1>2. WakeInv => NoLostWakeup
  BY SlotType DEF WakeInv, Noticed, NoLostWakeup, Sources
<1>3. QED BY <1>1, <1>2, PTL

-----------------------------------------------------------------------------
(* No circle of threads waiting for each other *)

\* The mutexes of the sources have a rank.  A wait set checks its sources in
\* strictly descending rank, so no two of them share a mutex, and a subscription
\* that reports losses has no lower rank than the events of its EventsManager.
\* Wait sets may share sources and mutexes with each other.
RankedBy(rank) ==
  /\ \A w \in Waiter : \A i, j \in 1..Len(Slots[w]) :
       i < j => rank[MutexOf[Slots[w][j]]] < rank[MutexOf[Slots[w][i]]]
  /\ \A q \in Queue : LostEvent[q] # None =>
       rank[MutexOf[LostEvent[q]]] <= rank[MutexOf[q]]

\* The mutexes a notifier holds.
Owned ==
  \A m \in Mutex, n \in Notifier : owner[m] = n =>
    \/ npc[n] \in {"lose", "fill", "signal"} /\ m = MutexOf[src[n]]
    \/ outer[n] # None /\ m = MutexOf[outer[n]]

\* Slot i of w may hold a source that is attached to w.
MayBeAttached(w, i) ==
  \/ wpc[w] = "attach" /\ i < slot[w]
  \/ wpc[w] = "sleep"
  \/ wpc[w] = "detach" /\ i >= slot[w]

AttachedTo ==
  /\ \A w \in Waiter : wpc[w] = "sleep" => slot[w] = 1
  /\ \A s \in Source, w \in Waiter : attached[s] = w =>
       \E i \in 1..Len(Slots[w]) : Slots[w][i] = s /\ MayBeAttached(w, i)

LockInv == Typed /\ Owned /\ AttachedTo

LEMMA InitLock == Init => LockInv
<1> SUFFICES ASSUME Init PROVE LockInv
  OBVIOUS
<1>1. Typed
  BY InitTyped
<1>2. Owned /\ AttachedTo
  BY NoneType DEF Init, Owned, AttachedTo
<1>3. QED BY <1>1, <1>2 DEF LockInv

LEMMA WaiterLock ==
  ASSUME LockInv, NEW v \in Waiter, WaiterStep(v)
  PROVE  Owned' /\ AttachedTo'
<1> USE SlotType, NoneType DEF LockInv, Typed, TypeOK
<1>1. UNCHANGED <<owner, npc, src, outer>>
  BY DEF WaiterStep, Begin, CheckAndAttach, Sleep, Wake, Timeout, Detach, Return,
         notifierVars
<1>2. Owned'
  BY <1>1 DEF Owned
<1>3. ASSUME (\E k \in Kind : Begin(v, k)) \/ Sleep(v) \/ Wake(v) \/ Timeout(v)
             \/ Return(v)
      PROVE  AttachedTo'
  <2>1. /\ UNCHANGED attached
        /\ \A w \in Waiter \ {v} : UNCHANGED <<wpc[w], slot[w]>>
    BY <1>3 DEF Begin, Sleep, Wake, Timeout, Return
  <2>2. wpc'[v] = "sleep" => slot'[v] = 1
    BY <1>3 DEF Begin, Sleep, Wake, Timeout, Return
  <2>3. ASSUME NEW i \in 1..Len(Slots[v]), MayBeAttached(v, i)
        PROVE  MayBeAttached(v, i)'
    BY <1>3, <2>3 DEF Begin, Sleep, Wake, Timeout, Return, MayBeAttached, AttachedTo
  <2>4. ASSUME NEW w \in Waiter, NEW i \in 1..Len(Slots[w]), MayBeAttached(w, i)
        PROVE  MayBeAttached(w, i)'
    <3>1. CASE w = v
      BY <2>3, <2>4, <3>1
    <3>2. CASE w # v
      BY <2>1, <2>4, <3>2 DEF MayBeAttached
    <3>3. QED BY <3>1, <3>2
  <2>5. \A w \in Waiter : wpc'[w] = "sleep" => slot'[w] = 1
    BY <2>1, <2>2 DEF AttachedTo
  <2>6. ASSUME NEW s \in Source, NEW w \in Waiter, attached'[s] = w
        PROVE  \E i \in 1..Len(Slots[w]) : Slots[w][i] = s /\ MayBeAttached(w, i)'
    <3>1. PICK i \in 1..Len(Slots[w]) : Slots[w][i] = s /\ MayBeAttached(w, i)
      BY <2>1, <2>6 DEF AttachedTo
    <3>2. QED BY <2>4, <3>1
  <2>7. QED BY <2>5, <2>6 DEF AttachedTo
<1>4. ASSUME CheckAndAttach(v) PROVE AttachedTo'
  <2> DEFINE s == Slots[v][slot[v]]
  <2>1. /\ wpc[v] = "attach" /\ slot[v] \in 1..Len(Slots[v]) /\ s \in Source
        /\ \A w \in Waiter \ {v} : UNCHANGED <<wpc[w], slot[w]>>
    BY <1>4 DEF CheckAndAttach
  <2>2. /\ wpc'[v] \in {"attach", "detach"}
        /\ wpc'[v] = "attach" => slot'[v] = slot[v] + 1
        /\ wpc'[v] = "detach" => slot'[v] = 1
    BY <1>4 DEF CheckAndAttach
  <2>3. ASSUME NEW w \in Waiter, NEW i \in 1..Len(Slots[w]), MayBeAttached(w, i)
        PROVE  MayBeAttached(w, i)'
    <3>1. CASE w = v
      BY <2>1, <2>2, <2>3, <3>1 DEF MayBeAttached
    <3>2. CASE w # v
      BY <2>1, <2>3, <3>2 DEF MayBeAttached
    <3>3. QED BY <3>1, <3>2
  <2>4. \/ UNCHANGED attached
        \/ attached' = [attached EXCEPT ![s] = v] /\ wpc'[v] = "attach"
    BY <1>4 DEF CheckAndAttach
  <2>5. \A i \in 1..Len(Slots[v]) :
          i = slot[v] /\ wpc'[v] = "attach" => MayBeAttached(v, i)'
    BY <2>1, <2>2 DEF MayBeAttached
  <2>6. \A w \in Waiter : wpc'[w] = "sleep" => slot'[w] = 1
    BY <2>1, <2>2 DEF AttachedTo
  <2>7. ASSUME NEW t \in Source, NEW w \in Waiter, attached'[t] = w
        PROVE  \E i \in 1..Len(Slots[w]) : Slots[w][i] = t /\ MayBeAttached(w, i)'
    <3>1. CASE attached[t] = w
      <4>1. PICK i \in 1..Len(Slots[w]) : Slots[w][i] = t /\ MayBeAttached(w, i)
        BY <3>1 DEF AttachedTo
      <4>2. QED BY <2>3, <4>1
    <3>2. CASE attached[t] # w
      <4>1. t = s /\ w = v /\ wpc'[v] = "attach"
        BY <2>4, <2>7, <3>2
      <4>2. QED BY <2>1, <2>5, <4>1
    <3>3. QED BY <3>1, <3>2
  <2>8. QED BY <2>6, <2>7 DEF AttachedTo
<1>5. ASSUME Detach(v) PROVE AttachedTo'
  <2> DEFINE s == Slots[v][slot[v]]
  <2>1. /\ wpc[v] = "detach" /\ slot[v] \in 1..Len(Slots[v]) /\ s \in Source
        /\ UNCHANGED wpc
        /\ attached' = [attached EXCEPT ![s] = None]
        /\ slot' = [slot EXCEPT ![v] = @ + 1]
    BY <1>5 DEF Detach
  <2>2. ASSUME NEW t \in Source, NEW w \in Waiter, attached'[t] = w
        PROVE  \E i \in 1..Len(Slots[w]) : Slots[w][i] = t /\ MayBeAttached(w, i)'
    <3>1. t # s /\ attached[t] = w
      BY <2>1, <2>2
    <3>2. PICK i \in 1..Len(Slots[w]) : Slots[w][i] = t /\ MayBeAttached(w, i)
      BY <3>1 DEF AttachedTo
    <3>3. w = v => i # slot[v]
      BY <3>1, <3>2
    <3>4. MayBeAttached(w, i)'
      BY <2>1, <3>2, <3>3 DEF MayBeAttached
    <3>5. QED BY <3>2, <3>4
  <2>3. QED BY <2>1, <2>2 DEF AttachedTo
<1>6. QED
  BY <1>2, <1>3, <1>4, <1>5 DEF WaiterStep

LEMMA NotifierLock ==
  ASSUME LockInv, NEW n \in Notifier, NotifierStep(n)
  PROVE  Owned' /\ AttachedTo'
<1> USE NoneType DEF LockInv, Typed, TypeOK
<1>1. UNCHANGED <<attached, wpc, slot>>
  BY DEF NotifierStep, Trigger, AddNewMessage, AddNewItem, Enter, UpdateEventStatus,
         Fill, ReportLost, EnterNotifyEvent, Signal, waiterVars
<1>2. AttachedTo'
  BY <1>1 DEF AttachedTo, MayBeAttached
<1>3. ASSUME NEW s \in Source, Trigger(n, s) \/ AddNewMessage(n, s) \/ AddNewItem(n, s)
      PROVE  Owned'
  <2>1. /\ npc[n] = "idle" /\ npc'[n] \in {"lose", "fill"}
        /\ owner' = [owner EXCEPT ![MutexOf[s]] = n]
        /\ src' = [src EXCEPT ![n] = s]
        /\ UNCHANGED outer
        /\ \A p \in Notifier \ {n} : UNCHANGED npc[p]
    BY <1>3 DEF Trigger, AddNewMessage, AddNewItem, Enter
  <2>2. \A m \in Mutex : owner[m] # n
    BY <2>1 DEF Owned, Raising
  <2>3. QED BY <2>1, <2>2 DEF Owned
<1>4. ASSUME NEW e \in Source, UpdateEventStatus(n, e) PROVE Owned'
  <2>1. \A m \in Mutex : owner[m] # n
    BY <1>4 DEF UpdateEventStatus, Owned, Raising
  <2>2. QED BY <1>4, <2>1 DEF UpdateEventStatus, Owned
<1>5. ASSUME Fill(n) PROVE Owned'
  BY <1>5 DEF Fill, Owned
<1>6. ASSUME ReportLost(n) PROVE Owned'
  <2>1. src[n] \in Queue /\ outer[n] = None
    BY <1>6 DEF ReportLost, Raising
  <2>2. \A m \in Mutex : owner[m] = n => m = MutexOf[src[n]]
    BY <1>6, <2>1 DEF ReportLost, Owned
  <2>3. src[n] # None
    BY <2>1 DEF Source
  <2>4. QED BY <1>6, <2>2, <2>3 DEF ReportLost, Owned
<1>7. ASSUME EnterNotifyEvent(n) PROVE Owned'
  BY <1>7 DEF EnterNotifyEvent, Owned
<1>8. ASSUME Signal(n) PROVE Owned'
  <2>1. \A m \in Mutex : m # MutexOf[src[n]] /\ owner[m] = n =>
          outer[n] # None /\ m = MutexOf[outer[n]]
    BY <1>8 DEF Signal, Owned
  <2>2. /\ owner' = [owner EXCEPT ![MutexOf[src[n]]] = None]
        /\ src' = [src EXCEPT ![n] = outer[n]]
        /\ outer' = [outer EXCEPT ![n] = None]
        /\ npc' = [npc EXCEPT ![n] = IF outer[n] = None THEN "idle" ELSE "fill"]
    BY <1>8 DEF Signal
  <2>3. ASSUME NEW m \in Mutex, NEW p \in Notifier, owner'[m] = p
        PROVE  \/ npc'[p] \in {"lose", "fill", "signal"} /\ m = MutexOf[src'[p]]
               \/ outer'[p] # None /\ m = MutexOf[outer'[p]]
    <3>1. m # MutexOf[src[n]] /\ owner[m] = p
      BY <2>2, <2>3
    <3>2. CASE p = n
      BY <2>1, <2>2, <3>1, <3>2
    <3>3. CASE p # n
      BY <2>2, <3>1, <3>3 DEF Owned
    <3>4. QED BY <3>2, <3>3
  <2>4. QED BY <2>3 DEF Owned
<1>9. QED
  BY <1>2, <1>3, <1>4, <1>5, <1>6, <1>7, <1>8 DEF NotifierStep

LEMMA StepLock == LockInv /\ [Next]_vars => LockInv'
<1> SUFFICES ASSUME LockInv, [Next]_vars PROVE LockInv'
  OBVIOUS
<1>1. Typed'
  BY StepTyped DEF LockInv
<1>2. ASSUME UNCHANGED <<attached, wpc, slot, owner, npc, src, outer>>
      PROVE  LockInv'
  BY <1>1, <1>2 DEF LockInv, Owned, AttachedTo, MayBeAttached
<1>3. CASE UNCHANGED vars
  BY <1>2, <1>3 DEF vars, waiterVars, notifierVars
<1>4. CASE \E s \in Source : Take(s)
  BY <1>2, <1>4 DEF Take, waiterVars, notifierVars
<1>5. CASE \E w \in Waiter : WaiterStep(w)
  BY <1>1, <1>5, WaiterLock DEF LockInv
<1>6. CASE \E n \in Notifier : NotifierStep(n)
  BY <1>1, <1>6, NotifierLock DEF LockInv
<1>7. QED BY <1>3, <1>4, <1>5, <1>6 DEF Next

\* rmw_wait leaves none of its sources attached to its wait set, for any wait
\* sets, shared or not.
THEOREM WaitsDetach == Spec => []NothingLeftAttached
<1>1. Spec => []LockInv
  BY InitLock, StepLock, PTL DEF Spec
<1>2. LockInv => NothingLeftAttached
  BY DEF LockInv, AttachedTo, MayBeAttached, NothingLeftAttached
<1>3. QED BY <1>1, <1>2, PTL

\* What waits for what, in the states of LockInv.
LEMMA Blocked ==
  ASSUME LockInv, NEW n \in Notifier
  PROVE  /\ \A w \in Waiter : BlockedOn(n, w) =>
              \E i \in 1..Len(Slots[w]) :
                /\ npc[n] = "signal" /\ src[n] = Slots[w][i]
                /\ wpc[w] = "attach" /\ i < slot[w]
         /\ \A w \in Waiter : BlockedOn(w, n) =>
              /\ slot[w] \in 1..Len(Slots[w])
              /\ Slots[w][slot[w]] \in Source
              /\ owner[MutexOf[Slots[w][slot[w]]]] = n
         /\ \A p \in Notifier : BlockedOn(n, p) =>
              npc[n] = "raised" /\ src[n] \in Event /\ owner[MutexOf[src[n]]] = p
         /\ \A u, w \in Waiter : ~BlockedOn(u, w)
<1> USE SlotType, NoneType, WaitSetAssumption DEF LockInv, Typed, TypeOK
<1>1. ASSUME NEW w \in Waiter, BlockedOn(n, w)
      PROVE  \E i \in 1..Len(Slots[w]) :
               /\ npc[n] = "signal" /\ src[n] = Slots[w][i]
               /\ wpc[w] = "attach" /\ i < slot[w]
  <2>1. /\ npc[n] = "signal" /\ attached[src[n]] = w
        /\ wpc[w] = "attach"
    BY <1>1 DEF BlockedOn, HoldsConditionMutex
  <2>2. src[n] \in Source
    BY <2>1 DEF Raising
  <2>3. PICK i \in 1..Len(Slots[w]) : Slots[w][i] = src[n] /\ MayBeAttached(w, i)
    BY <2>1, <2>2 DEF AttachedTo
  <2>4. i < slot[w]
    BY <2>1, <2>3 DEF MayBeAttached
  <2>5. QED BY <2>1, <2>3, <2>4
<1>2. ASSUME NEW w \in Waiter, BlockedOn(w, n)
      PROVE  /\ slot[w] \in 1..Len(Slots[w])
             /\ Slots[w][slot[w]] \in Source
             /\ owner[MutexOf[Slots[w][slot[w]]]] = n
  BY <1>2 DEF BlockedOn
<1>3. ASSUME NEW p \in Notifier, BlockedOn(n, p)
      PROVE  npc[n] = "raised" /\ src[n] \in Event /\ owner[MutexOf[src[n]]] = p
  BY <1>3 DEF BlockedOn, Raising
<1>4. ASSUME NEW u \in Waiter, NEW w \in Waiter PROVE ~BlockedOn(u, w)
  BY DEF BlockedOn
<1>5. QED BY <1>1, <1>2, <1>3, <1>4

LEMMA LeastNumber ==
  ASSUME NEW S \in SUBSET Nat, S # {}
  PROVE  \E n \in S : \A m \in S : ~(m < n)
<1>1. \E n \in S : \A m \in S : ~(<<m, n>> \in OpToRel(<, Nat))
  BY NatLessThanWellFounded, WFMin
<1>2. \A m, n \in S : m < n => <<m, n>> \in OpToRel(<, Nat)
  BY DEF OpToRel
<1>3. QED BY <1>1, <1>2

\* The mutex of the slot that w is at.
Wanted(w) == MutexOf[Slots[w][slot[w]]]

\* A notifier that waits for the scan of u has a mutex of higher rank than u
\* wants: u has passed the source it signals.
LEMMA ScanIsBelow ==
  ASSUME LockInv, NEW rank \in [Mutex -> Nat], RankedBy(rank),
         NEW n \in Notifier, NEW u \in Waiter, NEW p \in Notifier,
         BlockedOn(n, u), BlockedOn(u, p)
  PROVE  rank[Wanted(u)] < rank[MutexOf[src[n]]]
<1>1. PICK i \in 1..Len(Slots[u]) : src[n] = Slots[u][i] /\ i < slot[u]
  BY Blocked
<1>2. slot[u] \in 1..Len(Slots[u])
  BY Blocked
<1>3. QED BY <1>1, <1>2 DEF RankedBy, Wanted

\* When a mutex that a notifier holds is wanted, and the notifier is blocked, it
\* waits in the end for a waiter, and with a mutex of no higher rank.
LEMMA OwnerIsBelow ==
  ASSUME LockInv, NEW rank \in [Mutex -> Nat], RankedBy(rank),
         NEW n \in Notifier, NEW m \in Mutex, owner[m] = n,
         NEW u \in Waiter, BlockedOn(n, u)
  PROVE  rank[MutexOf[src[n]]] <= rank[m]
<1> USE NoneType, WaitSetAssumption DEF LockInv, Typed, TypeOK
<1>1. npc[n] = "signal" /\ src[n] \in Source
  BY Blocked DEF Raising
<1>2. rank[MutexOf[src[n]]] \in Nat
  BY <1>1
<1>3. CASE m = MutexOf[src[n]]
  BY <1>2, <1>3
<1>4. CASE outer[n] # None /\ m = MutexOf[outer[n]]
  BY <1>4 DEF Raising, RankedBy
<1>5. QED BY <1>3, <1>4 DEF Owned

\* When the mutexes are ranked, threads never wait for each other in a circle:
\* whoever holds what a waiter wants waits, if at all, for a waiter that wants a
\* mutex of lower rank.
THEOREM NoDeadlock ==
  ASSUME NEW rank \in [Mutex -> Nat], RankedBy(rank)
  PROVE  Spec => []NoLockCycle
<1>1. Spec => []LockInv
  BY InitLock, StepLock, PTL DEF Spec
<1>2. ASSUME LockInv PROVE NoLockCycle
  <2> SUFFICES ASSUME NEW T \in SUBSET (Waiter \cup Notifier), T # {},
                      \A t \in T : \E u \in T : BlockedOn(t, u)
               PROVE  FALSE
    BY DEF NoLockCycle
  <2> USE <1>2, NoneType, SlotType, WaitSetAssumption DEF LockInv, Typed, TypeOK
  <2>1. ASSUME NEW u \in T, u \in Waiter PROVE \E p \in T : p \in Notifier /\ BlockedOn(u, p)
    BY <2>1 DEF BlockedOn
  \* A notifier that waits for another one, for the mutex of an event, waits for
  \* one that signals an event: those waiting hold the mutex of a queue.
  <2>2. ASSUME NEW n \in T, n \in Notifier, NEW p \in T, p \in Notifier, BlockedOn(n, p)
        PROVE  \E u \in T : u \in Waiter /\ BlockedOn(p, u) /\ MutexOf[src[p]] = MutexOf[src[n]]
    <3>1. npc[n] = "raised" /\ src[n] \in Event /\ owner[MutexOf[src[n]]] = p
      BY <2>2, Blocked
    <3>2. MutexOf[src[n]] \in Mutex
      BY <3>1 DEF Source
    <3>3. ~(outer[p] # None /\ MutexOf[src[n]] = MutexOf[outer[p]])
      <4>1. outer[p] # None => outer[p] \in Queue
        BY <2>2
      <4>2. QED BY <3>1, <4>1
    <3>4. npc[p] \in {"lose", "fill", "signal"} /\ MutexOf[src[n]] = MutexOf[src[p]]
      BY <2>2, <3>1, <3>2, <3>3 DEF Owned
    <3>5. PICK u \in T : BlockedOn(p, u)
      OBVIOUS
    <3>6. u \in Waiter
      <4>1. npc[p] # "raised"
        BY <3>4
      <4>2. QED BY <2>2, <3>5, <4>1, Blocked
    <3>7. QED BY <3>4, <3>5, <3>6
  \* There is a waiter in the circle ...
  <2>3. PICK v \in T : v \in Waiter
    <3>1. PICK t \in T : TRUE
      OBVIOUS
    <3>2. PICK p \in T : BlockedOn(t, p)
      OBVIOUS
    <3>3. QED BY <2>2, <3>1, <3>2
  \* ... and after each a waiter that wants a mutex of lower rank.
  <2>4. ASSUME NEW w \in T, w \in Waiter
        PROVE  \E u \in T : u \in Waiter /\ rank[Wanted(u)] < rank[Wanted(w)]
    <3>1. PICK n \in T : n \in Notifier /\ BlockedOn(w, n)
      BY <2>1, <2>4
    <3>2. Wanted(w) \in Mutex /\ owner[Wanted(w)] = n
      BY <2>4, <3>1, Blocked DEF Wanted
    <3>3. PICK x \in T : BlockedOn(n, x)
      OBVIOUS
    <3>4. CASE x \in Waiter
      <4>1. PICK p \in T : p \in Notifier /\ BlockedOn(x, p)
        BY <2>1, <3>4
      <4>2. rank[Wanted(x)] < rank[MutexOf[src[n]]]
        BY <3>1, <3>3, <3>4, <4>1, ScanIsBelow
      <4>3. rank[MutexOf[src[n]]] <= rank[Wanted(w)]
        BY <3>1, <3>2, <3>3, <3>4, OwnerIsBelow
      <4>4. /\ rank[Wanted(x)] \in Nat /\ rank[MutexOf[src[n]]] \in Nat
            /\ rank[Wanted(w)] \in Nat
        <5>1. src[n] \in Source
          BY <3>1, <3>3, <3>4, Blocked DEF Raising
        <5>2. Wanted(x) \in Mutex
          BY <3>4, <4>1, Blocked DEF Wanted
        <5>3. QED BY <3>2, <5>1, <5>2
      <4>5. QED BY <3>4, <4>2, <4>3, <4>4
    <3>5. CASE x \in Notifier
      <4>1. PICK u \in T : u \in Waiter /\ BlockedOn(x, u) /\ MutexOf[src[x]] = MutexOf[src[n]]
        BY <2>2, <3>1, <3>3, <3>5
      <4>2. PICK p \in T : p \in Notifier /\ BlockedOn(u, p)
        BY <2>1, <4>1
      <4>3. rank[Wanted(u)] < rank[MutexOf[src[x]]]
        BY <3>5, <4>1, <4>2, ScanIsBelow
      <4>4. npc[n] = "raised" /\ src[n] \in Event
        BY <3>1, <3>3, <3>5, Blocked
      <4>5. outer[n] # None /\ Wanted(w) = MutexOf[outer[n]]
        BY <3>1, <3>2, <4>4 DEF Owned
      <4>6. rank[MutexOf[src[n]]] <= rank[Wanted(w)]
        BY <3>1, <4>5 DEF Raising, RankedBy
      <4>7. /\ rank[Wanted(u)] \in Nat /\ rank[MutexOf[src[n]]] \in Nat
            /\ rank[Wanted(w)] \in Nat
        <5>1. src[n] \in Source
          BY <4>4 DEF Source
        <5>2. Wanted(u) \in Mutex
          BY <4>1, <4>2, Blocked DEF Wanted
        <5>3. QED BY <3>2, <5>1, <5>2
      <4>8. QED BY <4>1, <4>3, <4>6, <4>7
    <3>6. QED BY <3>4, <3>5
  <2> DEFINE S == {m \in Nat : \E w \in T : w \in Waiter /\ m = rank[Wanted(w)]}
  <2>5. ASSUME NEW w \in T, w \in Waiter PROVE rank[Wanted(w)] \in S
    <3>1. PICK n \in T : n \in Notifier /\ BlockedOn(w, n)
      BY <2>1, <2>5
    <3>2. Wanted(w) \in Mutex
      BY <2>5, <3>1, Blocked DEF Wanted
    <3>3. QED BY <2>5, <3>2
  <2>6. PICK k \in S : \A m \in S : ~(m < k)
    <3>1. S \in SUBSET Nat
      OBVIOUS
    <3>2. S # {}
      BY <2>3, <2>5
    <3> HIDE DEF S
    <3>3. QED BY <3>1, <3>2, LeastNumber
  <2>7. PICK w \in T : w \in Waiter /\ k = rank[Wanted(w)]
    BY <2>6
  <2>8. QED BY <2>4, <2>5, <2>6, <2>7
<1>3. QED BY <1>1, <1>2, PTL

-----------------------------------------------------------------------------
(* A wait that returns has something to report *)

\* A guard condition in two wait sets is one that others take from: the first
\* wait to return resets it for both.
OwnGuards ==
  \A v, w \in Waiter : \A g \in Guard \ Shared :
    g \in Sources(v) /\ g \in Sources(w) => v = w

\* A notifier has the mutexes it works under.
Holding ==
  \A n \in Notifier :
    /\ npc[n] \in {"lose", "fill", "signal"} => owner[MutexOf[src[n]]] = n
    /\ outer[n] # None => owner[MutexOf[outer[n]]] = n

\* What a notifier signals is ready, events excepted: their status may be taken
\* between its two critical sections.
Filled == \A n \in Notifier : npc[n] = "signal" /\ src[n] \notin Event => ready[src[n]]

\* Waits whose sources only the waiter itself takes from.
Undisturbed(w) == kind[w] = "forever" /\ Sources(w) \cap (Event \cup Shared) = {}

\* Such a wait keeps what woke it until it is reported.
Kept(w) ==
  /\ wpc[w] = "sleep" /\ triggered[w] => \E s \in Sources(w) : ready[s]
  /\ wpc[w] = "detach" =>
       \/ reported[w] # {}
       \/ \E i \in slot[w]..Len(Slots[w]) : ready[Slots[w][i]]
  /\ wpc[w] = "idle" => reported[w] # {}

KeptInv == LockInv /\ Holding /\ Filled /\ \A w \in Waiter : Undisturbed(w) => Kept(w)

LEMMA InitKept == Init => KeptInv
<1> SUFFICES ASSUME Init PROVE KeptInv
  OBVIOUS
<1>1. Holding /\ Filled
  BY DEF Init, Holding, Filled
<1>2. \A w \in Waiter : ~Undisturbed(w)
  BY DEF Init, Undisturbed
<1>3. QED BY <1>1, <1>2, InitLock DEF KeptInv

LEMMA SourceFacts ==
  ASSUME NEW w \in Waiter
  PROVE  /\ Sources(w) \subseteq Source
         /\ \A i \in 1..Len(Slots[w]) : Slots[w][i] \in Sources(w)
         /\ \A s \in Sources(w) : \E i \in 1..Len(Slots[w]) : Slots[w][i] = s
BY SlotType DEF Sources

LEMMA WaiterHolds ==
  ASSUME KeptInv, NEW w \in Waiter, WaiterStep(w)
  PROVE  Holding' /\ Filled'
<1> USE DEF KeptInv, LockInv, Typed, TypeOK
<1>1. UNCHANGED <<owner, npc, src, outer>>
  BY DEF WaiterStep, Begin, CheckAndAttach, Sleep, Wake, Timeout, Detach, Return, notifierVars
<1>2. Holding'
  BY <1>1 DEF Holding
<1>3. CASE Detach(w)
  <2> DEFINE s == Slots[w][slot[w]]
  <2>1. /\ owner[MutexOf[s]] = None
        /\ ready' = [ready EXCEPT ![s] = @ /\ s \notin Guard]
    BY <1>3 DEF Detach
  <2> HIDE DEF s
  <2>2. ASSUME NEW n \in Notifier, npc[n] = "signal"
        PROVE  src[n] # s /\ src[n] \in Source
    BY <2>1, <2>2, NoneType DEF Holding, Raising
  <2>3. QED BY <1>1, <1>2, <2>1, <2>2 DEF Filled
<1>4. CASE ~Detach(w)
  <2>1. UNCHANGED ready
    BY <1>4 DEF WaiterStep, Begin, CheckAndAttach, Sleep, Wake, Timeout, Return
  <2>2. QED BY <1>1, <1>2, <2>1 DEF Filled
<1>5. QED BY <1>2, <1>3, <1>4

LEMMA WaiterKeeps ==
  ASSUME KeptInv, OwnGuards, NEW w \in Waiter, WaiterStep(w), NEW v \in Waiter,
         Undisturbed(v)'
  PROVE  Kept(v)'
<1> USE DEF KeptInv, LockInv, Typed, TypeOK
<1>1. Sources(v) \cap (Event \cup Shared) = {} /\ kind'[v] = "forever"
  BY DEF Undisturbed, Sources
<1>2. CASE v # w
  <2>1. /\ wpc'[v] = wpc[v] /\ slot'[v] = slot[v] /\ kind'[v] = kind[v]
        /\ triggered'[v] = triggered[v] /\ reported'[v] = reported[v]
    BY <1>2 DEF WaiterStep, Begin, CheckAndAttach, Sleep, Wake, Timeout, Detach, Return
  <2>2. Kept(v)
    BY <1>1, <2>1 DEF Undisturbed
  <2>3. \A s \in Sources(v) : ready[s] => ready'[s]
    <3>1. CASE Detach(w)
      <4> DEFINE s == Slots[w][slot[w]]
      <4>1. /\ ready' = [ready EXCEPT ![s] = @ /\ s \notin Guard]
            /\ slot[w] \in 1..Len(Slots[w])
        BY <3>1, SlotType DEF Detach
      <4>2. s \in Sources(w)
        BY <4>1, SourceFacts
      <4> HIDE DEF s
      <4>3. s \in Guard => s \notin Sources(v)
        BY <1>1, <1>2, <4>2 DEF OwnGuards
      <4>4. QED BY <4>1, <4>3, SourceFacts
    <3>2. CASE ~Detach(w)
      BY <3>2 DEF WaiterStep, Begin, CheckAndAttach, Sleep, Wake, Timeout, Return
    <3>3. QED BY <3>1, <3>2
  <2>4. \A i \in slot[v]..Len(Slots[v]) : ready[Slots[v][i]] => ready'[Slots[v][i]]
    <3>1. slot[v] \in Nat \ {0} /\ Len(Slots[v]) \in Nat
      BY SlotType
    <3>2. \A i \in slot[v]..Len(Slots[v]) : i \in 1..Len(Slots[v])
      BY <3>1
    <3>3. QED BY <2>3, <3>2, SourceFacts
  <2>5. QED BY <2>1, <2>2, <2>3, <2>4 DEF Kept, Sources
<1>3. ASSUME v = w, NEW k \in Kind, Begin(w, k) PROVE Kept(v)'
  BY <1>3 DEF Begin, Kept
<1>4. ASSUME v = w, CheckAndAttach(w) PROVE Kept(v)'
  <2>1. /\ wpc[w] = "attach" /\ slot[w] \in 1..Len(Slots[w])
        /\ UNCHANGED <<ready, reported>>
    BY <1>4, SlotType DEF CheckAndAttach
  <2>2. CASE ~ready[Slots[w][slot[w]]]
    BY <1>4, <2>1, <2>2 DEF CheckAndAttach, Kept
  <2>3. CASE ready[Slots[w][slot[w]]]
    <3>1. wpc'[w] = "detach" /\ slot'[w] = 1
      BY <1>4, <2>3 DEF CheckAndAttach
    <3>2. QED BY <1>4, <2>1, <2>3, <3>1 DEF Kept
  <2>4. QED BY <2>2, <2>3
<1>5. ASSUME v = w, Sleep(w) PROVE Kept(v)'
  <2>1. wpc'[w] = "sleep" /\ triggered'[w] = FALSE
    BY <1>1, <1>5 DEF Sleep
  <2>2. QED BY <1>5, <2>1 DEF Kept
<1>6. ASSUME v = w, Wake(w) PROVE Kept(v)'
  <2>1. /\ wpc[w] = "sleep" /\ triggered[w] /\ slot[w] = 1 /\ wpc'[w] = "detach"
        /\ UNCHANGED <<ready, slot, kind>>
    BY <1>6 DEF Wake, AttachedTo
  <2>2. PICK s \in Sources(w) : ready[s]
    BY <1>1, <1>6, <2>1 DEF Undisturbed, Kept
  <2>3. PICK i \in 1..Len(Slots[w]) : Slots[w][i] = s
    BY SourceFacts
  <2>4. QED BY <1>6, <2>1, <2>2, <2>3 DEF Kept
<1>7. ASSUME v = w, Timeout(w) PROVE Kept(v)'
  BY <1>1, <1>7 DEF Timeout
<1>8. ASSUME v = w, Detach(w) PROVE Kept(v)'
  <2> DEFINE s == Slots[w][slot[w]]
  <2>1. /\ wpc[w] = "detach" /\ slot[w] \in 1..Len(Slots[w])
        /\ reported'[w] = IF ready[s] THEN reported[w] \cup {slot[w]} ELSE reported[w]
        /\ ready' = [ready EXCEPT ![s] = @ /\ s \notin Guard]
        /\ slot'[w] = slot[w] + 1 /\ UNCHANGED <<wpc, kind>>
    BY <1>8, SlotType DEF Detach
  <2>2. Kept(w)
    BY <1>1, <1>8, <2>1 DEF Undisturbed
  <2> HIDE DEF s
  <2>3. CASE reported[w] # {} \/ ready[s]
    BY <1>8, <2>1, <2>3 DEF Kept
  <2>4. CASE reported[w] = {} /\ ~ready[s]
    <3>1. PICK i \in slot[w]..Len(Slots[w]) : ready[Slots[w][i]]
      BY <2>1, <2>2, <2>4 DEF Kept
    <3>2. i # slot[w] /\ Slots[w][i] # s
      BY <2>4, <3>1 DEF s
    <3>3. i \in slot'[w]..Len(Slots[w]) /\ i \in 1..Len(Slots[w])
      BY <2>1, <3>1, <3>2, SlotType
    <3>4. ready'[Slots[w][i]]
      BY <2>1, <3>1, <3>2, <3>3, SlotType
    <3>5. QED BY <1>8, <2>1, <3>3, <3>4 DEF Kept
  <2>5. QED BY <2>3, <2>4
<1>9. ASSUME v = w, Return(w) PROVE Kept(v)'
  <2>1. /\ wpc[w] = "detach" /\ slot[w] > Len(Slots[w]) /\ wpc'[w] = "idle"
        /\ UNCHANGED <<reported, kind>>
    BY <1>9 DEF Return
  <2>2. Kept(w) /\ slot[w] \in Nat /\ Len(Slots[w]) \in Nat
    BY <1>1, <1>9, <2>1, SlotType DEF Undisturbed
  <2>3. slot[w]..Len(Slots[w]) = {}
    BY <2>1, <2>2
  <2>4. QED BY <1>9, <2>1, <2>2, <2>3 DEF Kept
<1>10. QED
  BY <1>2, <1>3, <1>4, <1>5, <1>6, <1>7, <1>8, <1>9 DEF WaiterStep

LEMMA NotifierHolds ==
  ASSUME KeptInv, NEW n \in Notifier, NotifierStep(n)
  PROVE  Holding' /\ Filled'
<1> USE NoneType DEF KeptInv, LockInv, Typed, TypeOK
<1>1. ASSUME NEW s \in Source, Trigger(n, s) \/ AddNewMessage(n, s) \/ AddNewItem(n, s)
      PROVE  Holding' /\ Filled'
  <2>1. /\ npc[n] = "idle" /\ npc'[n] \in {"lose", "fill"} /\ outer[n] = None
        /\ owner[MutexOf[s]] = None /\ MutexOf[s] \in Mutex
        /\ owner' = [owner EXCEPT ![MutexOf[s]] = n]
        /\ src' = [src EXCEPT ![n] = s]
        /\ UNCHANGED <<ready, outer>>
        /\ \A p \in Notifier \ {n} : UNCHANGED npc[p]
    BY <1>1, WaitSetAssumption DEF Trigger, AddNewMessage, AddNewItem, Enter, Raising
  <2>2. Holding'
    <3>1. owner'[MutexOf[src'[n]]] = n
      BY <2>1
    <3>2. ASSUME NEW p \in Notifier, p # n
          PROVE  /\ npc'[p] \in {"lose", "fill", "signal"} => owner'[MutexOf[src'[p]]] = p
                 /\ outer'[p] # None => owner'[MutexOf[outer'[p]]] = p
      BY <2>1, <3>2 DEF Holding
    <3>3. QED BY <2>1, <3>1, <3>2 DEF Holding
  <2>3. Filled'
    BY <2>1 DEF Filled
  <2>4. QED BY <2>2, <2>3
<1>2. ASSUME NEW e \in Source, UpdateEventStatus(n, e) PROVE Holding' /\ Filled'
  BY <1>2 DEF UpdateEventStatus, Holding, Filled
<1>3. ASSUME Fill(n) PROVE Holding' /\ Filled'
  <2>1. src[n] \in Source
    BY <1>3 DEF Fill, Raising, Source
  <2>2. QED BY <1>3, <2>1 DEF Fill, Holding, Filled
<1>4. ASSUME ReportLost(n) PROVE Holding' /\ Filled'
  BY <1>4 DEF ReportLost, Holding, Filled
<1>5. ASSUME EnterNotifyEvent(n) PROVE Holding' /\ Filled'
  <2>1. src[n] \in Event /\ MutexOf[src[n]] \in Mutex
    BY <1>5, WaitSetAssumption DEF EnterNotifyEvent, Raising, Source
  <2>2. QED BY <1>5, <2>1 DEF EnterNotifyEvent, Holding, Filled
<1>6. ASSUME Signal(n) PROVE Holding' /\ Filled'
  <2>1. /\ npc[n] = "signal" /\ owner[MutexOf[src[n]]] = n
        /\ owner' = [owner EXCEPT ![MutexOf[src[n]]] = None]
        /\ src' = [src EXCEPT ![n] = outer[n]]
        /\ outer' = [outer EXCEPT ![n] = None]
        /\ npc' = [npc EXCEPT ![n] = IF outer[n] = None THEN "idle" ELSE "fill"]
        /\ UNCHANGED ready
    BY <1>6 DEF Signal, Holding
  <2>2. outer[n] # None => MutexOf[outer[n]] # MutexOf[src[n]]
    BY WaitSetAssumption DEF Raising
  <2>3. Holding'
    <3>1. ASSUME NEW p \in Notifier, p # n
          PROVE  /\ npc'[p] \in {"lose", "fill", "signal"} => owner'[MutexOf[src'[p]]] = p
                 /\ outer'[p] # None => owner'[MutexOf[outer'[p]]] = p
      BY <2>1, <3>1 DEF Holding
    <3>2. /\ npc'[n] \in {"lose", "fill", "signal"} => owner'[MutexOf[src'[n]]] = n
          /\ outer'[n] = None
      BY <2>1, <2>2 DEF Holding
    <3>3. QED BY <3>1, <3>2 DEF Holding
  <2>4. Filled'
    BY <2>1 DEF Filled
  <2>5. QED BY <2>3, <2>4
<1>7. QED
  BY <1>1, <1>2, <1>3, <1>4, <1>5, <1>6 DEF NotifierStep

LEMMA NotifierKeeps ==
  ASSUME KeptInv, NEW n \in Notifier, NotifierStep(n), NEW v \in Waiter, Undisturbed(v)'
  PROVE  Kept(v)'
<1> USE NoneType DEF KeptInv, LockInv, Typed, TypeOK
<1>1. /\ UNCHANGED <<wpc, slot, kind, reported>>
      /\ \A s \in Source : ready[s] => ready'[s]
  BY DEF NotifierStep, Trigger, AddNewMessage, AddNewItem, Enter, UpdateEventStatus,
         Fill, ReportLost, EnterNotifyEvent, Signal, waiterVars
<1>2. Kept(v) /\ Sources(v) \cap Event = {}
  BY <1>1 DEF Undisturbed, Sources
<1>3. \A i \in slot[v]..Len(Slots[v]) : ready[Slots[v][i]] => ready'[Slots[v][i]]
  <2>1. slot[v] \in Nat \ {0} /\ Len(Slots[v]) \in Nat
    BY SlotType
  <2>2. \A i \in slot[v]..Len(Slots[v]) : Slots[v][i] \in Source
    BY <2>1, SlotType
  <2>3. QED BY <1>1, <2>2
<1>4. ASSUME wpc[v] = "sleep", triggered'[v]
      PROVE  \E s \in Sources(v) : ready'[s]
  <2>1. CASE triggered[v]
    BY <1>1, <1>2, <1>4, <2>1, SourceFacts DEF Kept
  <2>2. CASE ~triggered[v]
    <3>1. Signal(n) /\ attached[src[n]] = v
      BY <1>4, <2>2 DEF NotifierStep, Trigger, AddNewMessage, AddNewItem, Enter,
            UpdateEventStatus, Fill, ReportLost, EnterNotifyEvent, Signal, waiterVars
    <3>2. npc[n] = "signal" /\ src[n] \in Source
      BY <3>1 DEF Signal, Raising
    <3>3. src[n] \in Sources(v)
      BY <3>1, <3>2, SourceFacts DEF AttachedTo
    <3>4. ready[src[n]]
      BY <1>2, <3>2, <3>3 DEF Filled
    <3>5. QED BY <1>1, <3>2, <3>3, <3>4
  <2>3. QED BY <2>1, <2>2
<1>5. QED BY <1>1, <1>2, <1>3, <1>4 DEF Kept, Sources

LEMMA TakeKeeps ==
  ASSUME KeptInv, NEW s \in Source, Take(s)
  PROVE  Holding' /\ Filled' /\ \A w \in Waiter : Undisturbed(w)' => Kept(w)'
<1> USE DEF KeptInv, LockInv, Typed, TypeOK
<1>1. /\ UNCHANGED <<attached, waiterVars, notifierVars>>
      /\ \A x \in Source \ {s} : ready'[x] = ready[x]
      /\ s \in Event \/ owner[MutexOf[s]] = None
  BY DEF Take, TakeData, TakeEvent
<1>2. Holding'
  BY <1>1 DEF Holding, notifierVars
<1>3. Filled'
  <2>1. ASSUME NEW n \in Notifier, npc[n] = "signal", src[n] \notin Event
        PROVE  ready'[src[n]]
    <3>1. src[n] \in Source /\ owner[MutexOf[src[n]]] = n
      BY <2>1 DEF Raising, Holding
    <3>2. src[n] # s
      BY <1>1, <2>1, <3>1, NoneType
    <3>3. QED BY <1>1, <2>1, <3>1, <3>2 DEF Filled
  <2>2. QED BY <1>1, <2>1 DEF Filled, notifierVars
<1>4. ASSUME NEW w \in Waiter, Undisturbed(w)' PROVE Kept(w)'
  <2>1. /\ Kept(w) /\ Sources(w) \cap Shared = {}
        /\ UNCHANGED <<wpc, slot, triggered, reported>>
    BY <1>1, <1>4 DEF Undisturbed, Sources, waiterVars
  <2>2. CASE wpc[w] = "idle"
    BY <2>1, <2>2 DEF Kept
  <2>3. CASE wpc[w] # "idle"
    <3>1. s \notin Sources(w)
      BY <2>1, <2>3 DEF Take
    <3>2. \A x \in Sources(w) : ready'[x] = ready[x]
      BY <1>1, <3>1, SourceFacts
    <3>3. \A i \in slot[w]..Len(Slots[w]) : Slots[w][i] \in Sources(w)
      <4>1. slot[w] \in Nat \ {0} /\ Len(Slots[w]) \in Nat
        BY SlotType
      <4>2. QED BY <4>1, SourceFacts
    <3>4. QED BY <2>1, <3>2, <3>3 DEF Kept, Sources
  <2>4. QED BY <2>2, <2>3
<1>5. QED BY <1>2, <1>3, <1>4

LEMMA StepKept == OwnGuards /\ KeptInv /\ [Next]_vars => KeptInv'
<1> SUFFICES ASSUME OwnGuards, KeptInv, [Next]_vars PROVE KeptInv'
  OBVIOUS
<1>1. LockInv'
  BY StepLock DEF KeptInv
<1>2. CASE UNCHANGED vars
  <2>1. Holding' /\ Filled'
    BY <1>2 DEF KeptInv, Holding, Filled, vars, notifierVars
  <2>2. \A w \in Waiter : Undisturbed(w)' => Kept(w)'
    BY <1>2 DEF KeptInv, Undisturbed, Kept, Sources, vars, waiterVars
  <2>3. QED BY <1>1, <2>1, <2>2 DEF KeptInv
<1>3. CASE \E w \in Waiter : WaiterStep(w)
  BY <1>1, <1>3, WaiterHolds, WaiterKeeps DEF KeptInv
<1>4. CASE \E n \in Notifier : NotifierStep(n)
  BY <1>1, <1>4, NotifierHolds, NotifierKeeps DEF KeptInv
<1>5. CASE \E s \in Source : Take(s)
  BY <1>1, <1>5, TakeKeeps DEF KeptInv
<1>6. QED BY <1>2, <1>3, <1>4, <1>5 DEF Next

\* A wait without a timeout on guard conditions and queues that nobody else takes
\* from (so none in a second wait set) returns with something ready: whatever
\* woke it is still there when it looks, for any number of waiters, notifiers and
\* sources and whatever was left in triggered.
THEOREM ReturnsAreNotEmpty == ASSUME OwnGuards PROVE Spec => []NoEmptyReturn
<1>1. Spec => []KeptInv
  BY InitKept, StepKept, OwnGuards, PTL DEF Spec
<1>2. KeptInv => NoEmptyReturn
  BY DEF KeptInv, Undisturbed, Kept, NoEmptyReturn
<1>3. QED BY <1>1, <1>2, PTL
=============================================================================
