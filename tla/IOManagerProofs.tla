-------------------------- MODULE IOManagerProofs --------------------------
(***************************************************************************)
(* Proofs about IOManager for any number of descriptors, threads and       *)
(* waiters: m_pendingEventCount is exact, waiters are neither lost nor     *)
(* woken twice, and what is waited for stays subscribed.                   *)
(***************************************************************************)
EXTENDS IOManager, TLAPS, FiniteSetTheorems

IInv == TypeOK /\ PendingExact /\ WaiterOnce /\ Subscribed

(* The registered events are finitely many, and so is any set of events. *)
LEMMA PendingFinite == IsFiniteSet(Pending)
<1>1. IsFiniteSet(Event)
  <2>1. IsFiniteSet({"READ"})
    BY FS_Singleton
  <2>2. IsFiniteSet({"READ"} \cup {"WRITE"})
    BY <2>1, FS_AddElement
  <2>3. Event = {"READ"} \cup {"WRITE"}
    BY DEF Event
  <2> QED
    BY <2>2, <2>3
<1>2. IsFiniteSet(Fds \X Event)
  BY <1>1, IOManagerAssumption, FS_Product
<1> QED
  BY <1>2, FS_Subset DEF Pending

(* The invariant holds of a new IOManager. *)
LEMMA InitIInv == Init => IInv
<1> SUFFICES ASSUME Init PROVE IInv
  OBVIOUS
<1> USE IOManagerAssumption DEF Init
<1>1. TypeOK
  <2>1. epoll \in [Fds -> Registration]
    BY DEF Unregistered, Registration
  <2>2. context \in [Fds -> [Event -> Waiters \cup {None}]]
    OBVIOUS
  <2>3. array \in [Threads -> [Fds -> SUBSET Readiness]]
    OBVIOUS
  <2>4. m_pendingEventCount \in Nat /\ refused \in 0..1
    OBVIOUS
  <2>5. events \in [Fds -> SUBSET Event] /\ ready \in [Fds -> SUBSET Readiness]
    OBVIOUS
  <2>6. aborted \in BOOLEAN /\ waiter \in [Waiters -> {"runs", "waits", "scheduled"}]
    OBVIOUS
  <2> QED
    BY <2>1, <2>2, <2>3, <2>4, <2>5, <2>6 DEF TypeOK
<1>2. PendingExact
  <2>1. Pending = {}
    BY DEF Pending, Event
  <2> QED
    BY <2>1, FS_EmptySet DEF PendingExact
<1>3. WaiterOnce
  BY DEF WaiterOnce, Event
<1>4. Subscribed
  BY DEF Subscribed
<1> QED
  BY <1>1, <1>2, <1>3, <1>4 DEF IInv

-----------------------------------------------------------------------------
(* Triggering takes from the registered events as many as it subtracts. *)
LEMMA TriggerCount ==
  ASSUME TypeOK, PendingExact, NEW fd \in Fds, NEW E \in SUBSET Event,
         events' = [events EXCEPT ![fd] = @ \ Triggered(fd, E)],
         m_pendingEventCount' = m_pendingEventCount - Cardinality(Triggered(fd, E))
  PROVE  PendingExact'
<1> DEFINE D == Triggered(fd, E)
<1>1. D \subseteq events[fd]
  BY DEF Triggered
<1>2. Pending' = {p \in Pending : ~(p[1] = fd /\ p[2] \in D)}
  BY DEF Pending, TypeOK, Event
<1>3. CASE D = {}
  <2>1. Pending' = Pending /\ Cardinality(D) = 0
    BY <1>2, <1>3, FS_EmptySet
  <2>2. m_pendingEventCount' = m_pendingEventCount
    BY <2>1 DEF TypeOK
  <2> QED
    BY <2>1, <2>2 DEF PendingExact
<1>4. ASSUME NEW e \in Event, D = {e} PROVE PendingExact'
  <2>1. <<fd, e>> \in Pending /\ Pending' = Pending \ {<<fd, e>>}
    BY <1>1, <1>2, <1>4 DEF Pending
  <2>2. Cardinality(Pending') = Cardinality(Pending) - 1
    BY <2>1, PendingFinite, FS_RemoveElement
  <2>3. Cardinality(D) = 1
    BY <1>4, FS_Singleton
  <2> QED
    BY <2>2, <2>3 DEF PendingExact
<1>5. CASE D = Event
  <2> DEFINE Q == Pending \ {<<fd, "READ">>}
  <2>1. <<fd, "READ">> \in Pending /\ <<fd, "WRITE">> \in Q
    BY <1>1, <1>5 DEF Pending, Event
  <2>2. Pending' = Q \ {<<fd, "WRITE">>}
    BY <1>2, <1>5 DEF Pending, Event
  <2>3. IsFiniteSet(Q) /\ Cardinality(Q) = Cardinality(Pending) - 1
    BY <2>1, PendingFinite, FS_RemoveElement
  <2>4. Cardinality(Pending') = Cardinality(Q) - 1
    BY <2>1, <2>2, <2>3, FS_RemoveElement
  <2>5. Cardinality(Event) = 2
    <3>1. IsFiniteSet({"READ"}) /\ Cardinality({"READ"}) = 1
      BY FS_Singleton
    <3>2. Cardinality({"READ"} \cup {"WRITE"}) = 2
      BY <3>1, FS_AddElement
    <3> QED
      BY <3>2 DEF Event
  <2>6. Cardinality(Pending) \in Nat
    BY PendingFinite, FS_CardinalityType
  <2>7. m_pendingEventCount' = Cardinality(Pending) - 2
    BY <1>5, <2>5 DEF PendingExact
  <2>8. Cardinality(Pending') = Cardinality(Pending) - 2
    BY <2>3, <2>4, <2>6
  <2> QED
    BY <2>7, <2>8 DEF PendingExact
<1> QED
  BY <1>3, <1>4, <1>5 DEF Triggered, Event

-----------------------------------------------------------------------------
(* Steps that leave the registered events alone. *)
LEMMA QuietCount ==
  ASSUME PendingExact, UNCHANGED <<events, m_pendingEventCount>>
  PROVE  PendingExact'
BY DEF PendingExact, Pending

(* addEvent, delEvent and every path that triggers keep the count exact. *)
LEMMA CountStep ==
  ASSUME IInv, Next
  PROVE  PendingExact'
<1> USE DEF IInv
<1>1. ASSUME NEW w \in Waiters, NEW fd \in Fds, NEW e \in Users, AddEvent(w, fd, e)
      PROVE  PendingExact'
  <2>1. <<fd, e>> \notin Pending /\ Pending' = Pending \cup {<<fd, e>>}
    BY <1>1, IOManagerAssumption DEF AddEvent, Pending, TypeOK, Event
  <2>2. Cardinality(Pending') = Cardinality(Pending) + 1
    BY <2>1, PendingFinite, FS_AddElement
  <2> QED
    BY <1>1, <2>2 DEF AddEvent, PendingExact
<1>2. ASSUME NEW fd \in Fds, NEW e \in Event, DelEvent(fd, e)
      PROVE  PendingExact'
  <2>1. <<fd, e>> \in Pending /\ Pending' = Pending \ {<<fd, e>>}
    BY <1>2 DEF DelEvent, Pending, TypeOK
  <2>2. Cardinality(Pending') = Cardinality(Pending) - 1
    BY <2>1, PendingFinite, FS_RemoveElement
  <2> QED
    BY <1>2, <2>2 DEF DelEvent, PendingExact
<1>3. ASSUME NEW fd \in Fds, NEW E \in SUBSET Event, TriggerAll(fd, E)
      PROVE  PendingExact'
  BY <1>3, TriggerCount DEF TriggerAll, PendingLess
<1>4. ASSUME NEW fd \in Fds, NEW e \in Event, CancleEvent(fd, e)
      PROVE  PendingExact'
  BY <1>3, <1>4 DEF CancleEvent
<1>5. ASSUME NEW fd \in Fds, CancleAll(fd)
      PROVE  PendingExact'
  BY <1>3, <1>5 DEF CancleAll, TypeOK
<1>6. ASSUME NEW t \in Threads, NEW fd \in Fds, HandleEvent(t, fd)
      PROVE  PendingExact'
  <2>1. RealEvents(fd, array[t][fd]) \in SUBSET Event
    BY DEF RealEvents, TypeOK
  <2> QED
    BY <1>3, <1>6, <2>1 DEF HandleEvent
<1>7. CASE UNCHANGED <<events, m_pendingEventCount>>
  BY <1>7, QuietCount
<1>8. CASE KernelStep
  BY <1>7, <1>8 DEF KernelStep, BecomesReady, Drained, Reopened
<1>9. CASE Aborted
  BY <1>7, <1>9 DEF Aborted, vars
<1>10. ASSUME NEW t \in Threads, IdleStep(t) PROVE PendingExact'
  BY <1>6, <1>7, <1>10 DEF IdleStep, EpollWait, HandleSkip
<1>11. CASE UserStep
  BY <1>1, <1>2, <1>4, <1>5, <1>7, <1>11 DEF UserStep, Resume, AddEventFails
<1> QED
  BY <1>8, <1>9, <1>10, <1>11 DEF Next

-----------------------------------------------------------------------------
(* A registration of epoll is one whatever epoll_ctl did. *)
LEMMA CtlType ==
  ASSUME epoll \in [Fds -> Registration], NEW fd \in Fds, NEW op, NEW mask \in SUBSET Event,
         NEW et \in BOOLEAN, EpollCtl(op, fd, mask, et)
  PROVE  epoll' \in [Fds -> Registration]
<1>1. Unregistered \in Registration /\ Registered(mask, et) \in Registration
  BY DEF Unregistered, Registered, Registration
<1> QED
  BY <1>1 DEF EpollCtl

(* Whether an edge is unreported does not change what is registered. *)
LEMMA EdgeType ==
  ASSUME NEW r \in Registration, NEW b \in BOOLEAN
  PROVE  [r EXCEPT !.edge = b] \in Registration
BY DEF Registration

(* Triggering preserves the types it touches. *)
LEMMA TriggerType ==
  ASSUME TypeOK, NEW fd \in Fds, NEW E \in SUBSET Event, TriggerAll(fd, E)
  PROVE  /\ events' \in [Fds -> SUBSET Event]
         /\ context' \in [Fds -> [Event -> Waiters \cup {None}]]
         /\ waiter' \in [Waiters -> {"runs", "waits", "scheduled"}]
         /\ aborted' \in BOOLEAN
<1>1. events' \in [Fds -> SUBSET Event]
  BY DEF TriggerAll, TypeOK
<1>2. context' \in [Fds -> [Event -> Waiters \cup {None}]]
  BY DEF TriggerAll, TypeOK
<1>3. waiter' \in [Waiters -> {"runs", "waits", "scheduled"}]
  BY DEF TriggerAll, TypeOK
<1>4. aborted' \in BOOLEAN
  BY DEF TriggerAll, TypeOK
<1> QED
  BY <1>1, <1>2, <1>3, <1>4

(* Every step preserves the types. *)
LEMMA TypeStep ==
  ASSUME IInv, Next
  PROVE  TypeOK'
<1> USE IOManagerAssumption DEF IInv, TypeOK
<1>a. m_pendingEventCount' \in Nat
  <2>1. PendingExact'
    BY CountStep
  <2>2. IsFiniteSet(Pending')
    <3>1. IsFiniteSet(Fds \X Event)
      <4>1. IsFiniteSet({"READ"} \cup {"WRITE"}) /\ Event = {"READ"} \cup {"WRITE"}
        BY FS_Singleton, FS_AddElement DEF Event
      <4> QED
        BY <4>1, FS_Product
    <3> QED
      BY <3>1, FS_Subset DEF Pending
  <2> QED
    BY <2>1, <2>2, FS_CardinalityType DEF PendingExact
<1>1. ASSUME NEW w \in Waiters, NEW fd \in Fds, NEW e \in Users, AddEvent(w, fd, e)
      PROVE  TypeOK'
  <2>1. e \in Event /\ AddMask(fd, e) \in SUBSET Event
    BY DEF AddMask, Event
  <2>2. epoll' \in [Fds -> Registration]
    BY <1>1, <2>1, CtlType DEF AddEvent
  <2>3. events' \in [Fds -> SUBSET Event]
    BY <1>1, <2>1 DEF AddEvent
  <2>4. context' \in [Fds -> [Event -> Waiters \cup {None}]]
    <3>1. CASE context[fd][e] = None
      <4>1. context' = [context EXCEPT ![fd] = [context[fd] EXCEPT ![e] = w]]
        BY <1>1, <3>1 DEF AddEvent
      <4> QED
        BY <2>1, <4>1
    <3>2. CASE context[fd][e] # None
      BY <1>1, <3>2 DEF AddEvent
    <3> QED
      BY <3>1, <3>2
  <2>5. waiter' \in [Waiters -> {"runs", "waits", "scheduled"}] /\ aborted' \in BOOLEAN
    BY <1>1 DEF AddEvent
  <2> QED
    BY <1>1, <1>a, <2>2, <2>3, <2>4, <2>5 DEF AddEvent
<1>2. ASSUME NEW fd \in Fds, NEW e \in Event, DelEvent(fd, e)
      PROVE  TypeOK'
  <2>1. epoll' \in [Fds -> Registration]
    BY <1>2, CtlType DEF DelEvent
  <2>2. events' \in [Fds -> SUBSET Event]
    BY <1>2 DEF DelEvent
  <2>3. context' \in [Fds -> [Event -> Waiters \cup {None}]]
    BY <1>2 DEF DelEvent, ResetContext
  <2>4. waiter' \in [Waiters -> {"runs", "waits", "scheduled"}]
    BY <1>2 DEF DelEvent
  <2> QED
    BY <1>2, <1>a, <2>1, <2>2, <2>3, <2>4 DEF DelEvent
<1>3. ASSUME NEW fd \in Fds, NEW e \in Event, CancleEvent(fd, e)
      PROVE  TypeOK'
  <2>1. epoll' \in [Fds -> Registration]
    BY <1>3, CtlType DEF CancleEvent
  <2> QED
    BY <1>3, <1>a, <2>1, TriggerType DEF CancleEvent
<1>4. ASSUME NEW fd \in Fds, CancleAll(fd)
      PROVE  TypeOK'
  <2>1. epoll' \in [Fds -> Registration]
    BY <1>4, CtlType DEF CancleAll
  <2> QED
    BY <1>4, <1>a, <2>1, TriggerType DEF CancleAll
<1>5. ASSUME NEW t \in Threads, NEW fd \in Fds, HandleEvent(t, fd)
      PROVE  TypeOK'
  <2> DEFINE real == RealEvents(fd, array[t][fd])
             left == events[fd] \ real
  <2>1. real \in SUBSET Event /\ left \in SUBSET Event
    BY DEF RealEvents
  <2>2. EpollCtl(LeftOp(left), fd, left, TRUE) /\ TriggerAll(fd, real)
    BY <1>5 DEF HandleEvent
  <2>3. epoll' \in [Fds -> Registration]
    BY <2>1, <2>2, CtlType
  <2>4. array' \in [Threads -> [Fds -> SUBSET Readiness]]
    BY <1>5 DEF HandleEvent, Taken
  <2>5. UNCHANGED <<ready, refused>>
    BY <1>5 DEF HandleEvent
  <2> QED
    BY <1>a, <2>1, <2>2, <2>3, <2>4, <2>5, TriggerType
<1>6. ASSUME NEW t \in Threads, NEW fd \in Fds, HandleSkip(t, fd)
      PROVE  TypeOK'
  BY <1>6 DEF HandleSkip, Taken
<1>7. ASSUME NEW t \in Threads, EpollWait(t)
      PROVE  TypeOK'
  <2>1. array' \in [Threads -> [Fds -> SUBSET Readiness]]
    BY <1>7 DEF EpollWait, Reported
  <2>2. epoll' \in [Fds -> Registration]
    BY <1>7, EdgeType DEF EpollWait
  <2> QED
    BY <1>7, <2>1, <2>2 DEF EpollWait
<1>8. ASSUME NEW w \in Waiters, Resume(w) PROVE TypeOK'
  BY <1>8 DEF Resume
<1>9. ASSUME NEW w \in Waiters, NEW fd \in Fds, NEW e \in Users, AddEventFails(w, fd, e)
      PROVE  TypeOK'
  BY <1>9 DEF AddEventFails
<1>10. ASSUME NEW fd \in Fds, NEW r \in Readiness, BecomesReady(fd, r)
      PROVE  TypeOK'
  <2>1. epoll' \in [Fds -> Registration]
    <3>1. epoll[fd].edge \in BOOLEAN /\ epoll[fd].in \in BOOLEAN
      BY DEF Registration
    <3>2. epoll' = [epoll EXCEPT ![fd] = [epoll[fd] EXCEPT !.edge = epoll[fd].edge \/ epoll[fd].in]]
      BY <1>10 DEF BecomesReady
    <3> QED
      BY <3>1, <3>2, EdgeType
  <2> QED
    BY <1>10, <2>1 DEF BecomesReady
<1>11. ASSUME NEW fd \in Fds, NEW r \in Readiness, Drained(fd, r)
      PROVE  TypeOK'
  BY <1>11 DEF Drained
<1>12. ASSUME NEW fd \in Fds, Reopened(fd)
      PROVE  TypeOK'
  <2>1. epoll' \in [Fds -> Registration]
    BY <1>12 DEF Reopened, Registration, Unregistered
  <2> QED
    BY <1>12, <2>1 DEF Reopened
<1>13. CASE Aborted
  BY <1>13 DEF Aborted, vars
<1> QED
  BY <1>1, <1>2, <1>3, <1>4, <1>5, <1>6, <1>7, <1>8, <1>9, <1>10, <1>11, <1>12, <1>13
     DEF Next, IdleStep, UserStep, KernelStep

-----------------------------------------------------------------------------
(* Triggering a set of registered events wakes exactly their waiters. *)
LEMMA TriggerWaiters ==
  ASSUME TypeOK, WaiterOnce, ~aborted, NEW fd \in Fds, NEW E \in SUBSET Event, TriggerAll(fd, E)
  PROVE  WaiterOnce'
<1> SUFFICES ASSUME ~aborted' PROVE WaiterOnce'
  BY DEF WaiterOnce
<1> DEFINE done == Triggered(fd, E)
<1> USE IOManagerAssumption DEF TypeOK
<1>1. done \in SUBSET Event /\ done \subseteq events[fd]
  BY DEF Triggered
<1>2. /\ events' = [events EXCEPT ![fd] = @ \ done]
      /\ context' = [context EXCEPT ![fd] = [e \in Event |-> IF e \in done THEN None ELSE @[e]]]
      /\ waiter' = [w \in Waiters |-> IF \E e \in done : context[fd][e] = w THEN "scheduled"
                                      ELSE waiter[w]]
  BY DEF TriggerAll
<1> HIDE DEF done
<1>3. \A g \in Fds, e \in Event :
        context'[g][e] = IF g = fd /\ e \in done THEN None ELSE context[g][e]
  BY <1>1, <1>2
<1>4. \A g \in Fds, e \in Event : e \in events'[g] <=> e \in events[g] /\ ~(g = fd /\ e \in done)
  BY <1>1, <1>2
<1>5. \A g \in Fds, e \in Event : e \in events'[g] <=> context'[g][e] # None
  BY <1>3, <1>4 DEF WaiterOnce
<1>6. \A w \in Waiters :
        waiter'[w] = "waits" <=> \E g \in Fds, e \in Event : context'[g][e] = w
  <2> SUFFICES ASSUME NEW w \in Waiters
               PROVE  waiter'[w] = "waits" <=> \E g \in Fds, e \in Event : context'[g][e] = w
    OBVIOUS
  <2>1. CASE \E e \in done : context[fd][e] = w
    <3>1. waiter'[w] = "scheduled"
      BY <1>2, <2>1
    <3>2. \A g \in Fds, e \in Event : context'[g][e] # w
      BY <1>1, <1>3, <2>1 DEF WaiterOnce
    <3> QED
      BY <3>1, <3>2
  <2>2. CASE ~\E e \in done : context[fd][e] = w
    <3>1. waiter'[w] = waiter[w]
      BY <1>2, <2>2
    <3>2. \A g \in Fds, e \in Event : context'[g][e] = w <=> context[g][e] = w
      BY <1>3, <2>2
    <3> QED
      BY <3>1, <3>2 DEF WaiterOnce
  <2> QED
    BY <2>1, <2>2
<1>7. \A f, g \in Fds, d, e \in Event :
        context'[f][d] = context'[g][e] /\ context'[f][d] # None => f = g /\ d = e
  BY <1>3 DEF WaiterOnce
<1> QED
  BY <1>5, <1>6, <1>7 DEF WaiterOnce

(* No step loses a waiter or wakes one twice. *)
LEMMA WaiterStep ==
  ASSUME IInv, Next
  PROVE  WaiterOnce'
<1> USE IOManagerAssumption DEF IInv, TypeOK
<1>1. ASSUME NEW w \in Waiters, NEW fd \in Fds, NEW e \in Users, AddEvent(w, fd, e), ~aborted
      PROVE  WaiterOnce'
  <2> SUFFICES ASSUME ~aborted' PROVE WaiterOnce'
    BY DEF WaiterOnce
  <2>1. e \in Event /\ context[fd][e] = None /\ waiter[w] = "runs"
    BY <1>1 DEF AddEvent, Event
  <2>2. context' = [context EXCEPT ![fd] = [context[fd] EXCEPT ![e] = w]]
    BY <1>1, <2>1 DEF AddEvent
  <2>3. \A g \in Fds, d \in Event :
          context'[g][d] = IF g = fd /\ d = e THEN w ELSE context[g][d]
    BY <2>1, <2>2
  <2>4. \A g \in Fds, d \in Event : context[g][d] # w
    BY <2>1, <1>1 DEF WaiterOnce
  <2>5. \A g \in Fds, d \in Event : d \in events'[g] <=> d \in events[g] \/ (g = fd /\ d = e)
    BY <1>1 DEF AddEvent
  <2>6. \A v \in Waiters : waiter'[v] = IF v = w THEN "waits" ELSE waiter[v]
    BY <1>1, <2>1 DEF AddEvent
  <2>7. \A g \in Fds, d \in Event : d \in events'[g] <=> context'[g][d] # None
    <3>1. w # None
      OBVIOUS
    <3>2. \A g \in Fds, d \in Event : d \in events[g] <=> context[g][d] # None
      BY <1>1 DEF WaiterOnce
    <3> QED
      BY <2>3, <2>5, <3>1, <3>2
  <2>8. \A v \in Waiters :
          waiter'[v] = "waits" <=> \E g \in Fds, d \in Event : context'[g][d] = v
    <3>1. \A v \in Waiters :
            waiter[v] = "waits" <=> \E g \in Fds, d \in Event : context[g][d] = v
      BY <1>1 DEF WaiterOnce
    <3>2. context'[fd][e] = w /\ waiter'[w] = "waits"
      BY <2>1, <2>3, <2>6
    <3>3. ASSUME NEW v \in Waiters, v # w
          PROVE  (\E g \in Fds, d \in Event : context'[g][d] = v)
                   <=> \E g \in Fds, d \in Event : context[g][d] = v
      <4>1. ASSUME NEW g \in Fds, NEW d \in Event
            PROVE  context'[g][d] = v <=> context[g][d] = v
        <5>1. CASE g = fd /\ d = e
          BY <2>1, <2>3, <3>3, <5>1
        <5>2. CASE ~(g = fd /\ d = e)
          BY <2>3, <5>2
        <5> QED
          BY <5>1, <5>2
      <4> QED
        BY <4>1, Zenon
    <3>4. ASSUME NEW v \in Waiters, v # w
          PROVE  waiter'[v] = "waits"
                   <=> \E g \in Fds, d \in Event : context'[g][d] = v
      <4>1. waiter'[v] = waiter[v]
        BY <2>6, <3>4
      <4> QED
        BY <3>1, <3>3, <3>4, <4>1, Zenon
    <3>5. ASSUME NEW v \in Waiters, v = w
          PROVE  waiter'[v] = "waits"
                   <=> \E g \in Fds, d \in Event : context'[g][d] = v
      BY <2>1, <3>2, <3>5
    <3> QED
      BY <3>4, <3>5, Zenon
  <2>9. \A f, g \in Fds, c, d \in Event :
          context'[f][c] = context'[g][d] /\ context'[f][c] # None => f = g /\ c = d
    BY <1>1, <2>3, <2>4 DEF WaiterOnce
  <2> QED
    BY <2>7, <2>8, <2>9 DEF WaiterOnce
<1>2. ASSUME NEW fd \in Fds, NEW e \in Event, DelEvent(fd, e), ~aborted
      PROVE  WaiterOnce'
  <2> DEFINE w == context[fd][e]
  <2>1. w \in Waiters
    BY <1>2 DEF DelEvent, WaiterOnce
  <2>2. context' = [context EXCEPT ![fd] = [context[fd] EXCEPT ![e] = None]]
    BY <1>2 DEF DelEvent, ResetContext
  <2>3. \A g \in Fds, d \in Event :
          context'[g][d] = IF g = fd /\ d = e THEN None ELSE context[g][d]
    BY <2>2
  <2>4. \A g \in Fds, d \in Event : d \in events'[g] <=> d \in events[g] /\ ~(g = fd /\ d = e)
    BY <1>2 DEF DelEvent
  <2>5. \A v \in Waiters : waiter'[v] = IF v = w THEN "runs" ELSE waiter[v]
    BY <1>2, <2>1 DEF DelEvent
  <2>6. \A g \in Fds, d \in Event : d \in events'[g] <=> context'[g][d] # None
    BY <1>2, <2>3, <2>4 DEF WaiterOnce
  <2>7. \A v \in Waiters :
          waiter'[v] = "waits" <=> \E g \in Fds, d \in Event : context'[g][d] = v
    <3>1. \A g \in Fds, d \in Event : context[g][d] = w => g = fd /\ d = e
      BY <1>2, <2>1 DEF WaiterOnce
    <3>2. \A g \in Fds, d \in Event : context'[g][d] # w
      BY <2>1, <2>3, <3>1
    <3>3. \A v \in Waiters : v # w =>
            ((\E g \in Fds, d \in Event : context'[g][d] = v)
              <=> \E g \in Fds, d \in Event : context[g][d] = v)
      BY <2>3
    <3> HIDE DEF w
    <3> QED
      BY <1>2, <2>1, <2>5, <3>2, <3>3 DEF WaiterOnce
  <2>8. \A f, g \in Fds, c, d \in Event :
          context'[f][c] = context'[g][d] /\ context'[f][c] # None => f = g /\ c = d
    BY <1>2, <2>3 DEF WaiterOnce
  <2> QED
    BY <2>6, <2>7, <2>8 DEF WaiterOnce
<1>3. ASSUME NEW fd \in Fds, NEW e \in Event, CancleEvent(fd, e), ~aborted
      PROVE  WaiterOnce'
  BY <1>3, TriggerWaiters DEF CancleEvent
<1>4. ASSUME NEW fd \in Fds, CancleAll(fd), ~aborted
      PROVE  WaiterOnce'
  BY <1>4, TriggerWaiters DEF CancleAll
<1>5. ASSUME NEW t \in Threads, NEW fd \in Fds, HandleEvent(t, fd), ~aborted
      PROVE  WaiterOnce'
  <2>1. RealEvents(fd, array[t][fd]) \in SUBSET Event
    BY DEF RealEvents
  <2> QED
    BY <1>5, <2>1, TriggerWaiters DEF HandleEvent
<1>6. CASE UNCHANGED <<events, context, waiter, aborted>>
  BY <1>6 DEF WaiterOnce
<1>7. ASSUME NEW w \in Waiters, Resume(w) PROVE WaiterOnce'
  <2>1. UNCHANGED <<events, context, aborted>>
    BY <1>7 DEF Resume
  <2>2. \A v \in Waiters : waiter'[v] = "waits" <=> waiter[v] = "waits"
    BY <1>7 DEF Resume
  <2> QED
    BY <2>1, <2>2 DEF WaiterOnce
<1>8. CASE KernelStep
  BY <1>6, <1>8 DEF KernelStep, BecomesReady, Drained, Reopened
<1>9. CASE Aborted
  BY <1>6, <1>9 DEF Aborted, vars
<1>10. ASSUME NEW t \in Threads, IdleStep(t) PROVE WaiterOnce'
  BY <1>5, <1>6, <1>10 DEF IdleStep, EpollWait, HandleSkip
<1>11. CASE UserStep
  BY <1>1, <1>2, <1>3, <1>4, <1>6, <1>7, <1>11 DEF UserStep, AddEventFails
<1> QED
  BY <1>8, <1>9, <1>10, <1>11 DEF Next

-----------------------------------------------------------------------------
(* epoll_ctl with a mask that covers what is registered afterwards keeps   *)
(* every descriptor subscribed.                                            *)
LEMMA CtlSubscribes ==
  ASSUME TypeOK, Subscribed, ~aborted, NEW fd \in Fds, NEW op, NEW mask, NEW et,
         EpollCtl(op, fd, mask, et),
         \A g \in Fds : g # fd => events'[g] = events[g],
         events'[fd] # {} => op # "DEL" /\ events'[fd] \subseteq mask
  PROVE  Subscribed'
<1>1. \A g \in Fds : g # fd => epoll'[g] = epoll[g]
  BY DEF EpollCtl, TypeOK
<1>2. events'[fd] # {} => epoll'[fd] = Registered(mask, et)
  BY DEF EpollCtl, TypeOK
<1>3. events'[fd] # {} => epoll'[fd].in /\ events'[fd] \subseteq epoll'[fd].mask
  BY <1>2 DEF Registered
<1> QED
  BY <1>1, <1>3 DEF Subscribed

(* Whoever touches a registration leaves every waited-for event subscribed. *)
LEMMA SubscribedStep ==
  ASSUME IInv, Next
  PROVE  Subscribed'
<1> USE IOManagerAssumption DEF IInv
<1>1. ASSUME NEW w \in Waiters, NEW fd \in Fds, NEW e \in Users, AddEvent(w, fd, e), ~aborted
      PROVE  Subscribed'
  <2>1. AddOp(fd) # "DEL"
    BY DEF AddOp
  <2>2. events'[fd] \subseteq AddMask(fd, e) /\ \A g \in Fds : g # fd => events'[g] = events[g]
    BY <1>1 DEF AddEvent, AddMask, TypeOK
  <2> QED
    BY <1>1, <2>1, <2>2, CtlSubscribes DEF AddEvent
<1>2. ASSUME NEW fd \in Fds, NEW e \in Event, DelEvent(fd, e), ~aborted
      PROVE  Subscribed'
  <2>1. RemoveOp(fd) # "DEL"
    BY <1>2 DEF DelEvent, RemoveOp
  <2>2. events'[fd] = events[fd] \ {e} /\ \A g \in Fds : g # fd => events'[g] = events[g]
    BY <1>2 DEF DelEvent, TypeOK
  <2> QED
    BY <1>2, <2>1, <2>2, CtlSubscribes DEF DelEvent
<1>3. ASSUME NEW fd \in Fds, NEW E, TriggerAll(fd, E), ~aborted'
      PROVE  events'[fd] = events[fd] \ E /\ \A g \in Fds : g # fd => events'[g] = events[g]
  BY <1>3 DEF TriggerAll, Triggered, TypeOK
<1>4. ASSUME NEW fd \in Fds, NEW e \in Event, CancleEvent(fd, e), ~aborted
      PROVE  Subscribed'
  <2> SUFFICES ASSUME ~aborted' PROVE Subscribed'
    BY DEF Subscribed
  <2>1. RemoveOp(fd) # "DEL"
    BY <1>4 DEF CancleEvent, RemoveOp
  <2>2. events'[fd] = events[fd] \ {e} /\ \A g \in Fds : g # fd => events'[g] = events[g]
    BY <1>3, <1>4 DEF CancleEvent
  <2> QED
    BY <1>4, <2>1, <2>2, CtlSubscribes DEF CancleEvent
<1>5. ASSUME NEW fd \in Fds, CancleAll(fd), ~aborted
      PROVE  Subscribed'
  <2> SUFFICES ASSUME ~aborted' PROVE Subscribed'
    BY DEF Subscribed
  <2>1. events'[fd] = {} /\ \A g \in Fds : g # fd => events'[g] = events[g]
    BY <1>3, <1>5 DEF CancleAll
  <2> QED
    BY <1>5, <2>1, CtlSubscribes DEF CancleAll
<1>6. ASSUME NEW t \in Threads, NEW fd \in Fds, HandleEvent(t, fd), ~aborted
      PROVE  Subscribed'
  <2> SUFFICES ASSUME ~aborted' PROVE Subscribed'
    BY DEF Subscribed
  <2> DEFINE real == RealEvents(fd, array[t][fd])
             left == events[fd] \ real
  <2>1. EpollCtl(LeftOp(left), fd, left, TRUE) /\ TriggerAll(fd, real)
    BY <1>6 DEF HandleEvent
  <2>2. events'[fd] = left /\ \A g \in Fds : g # fd => events'[g] = events[g]
    BY <1>3, <2>1
  <2>3. events'[fd] # {} => LeftOp(left) # "DEL"
    BY <2>2 DEF LeftOp
  <2> QED
    BY <1>6, <2>1, <2>2, <2>3, CtlSubscribes
<1>7. CASE UNCHANGED <<events, epoll, aborted>>
  BY <1>7 DEF Subscribed
<1>8. ASSUME NEW t \in Threads, EpollWait(t) PROVE Subscribed'
  <2>1. \A fd \in Fds : epoll'[fd].in = epoll[fd].in /\ epoll'[fd].mask = epoll[fd].mask
    BY <1>8 DEF EpollWait, TypeOK, Registration
  <2> QED
    BY <1>8, <2>1 DEF EpollWait, Subscribed
<1>9. ASSUME NEW fd \in Fds, NEW r \in Readiness, BecomesReady(fd, r) PROVE Subscribed'
  <2>1. \A g \in Fds : epoll'[g].in = epoll[g].in /\ epoll'[g].mask = epoll[g].mask
    BY <1>9 DEF BecomesReady, TypeOK, Registration
  <2> QED
    BY <1>9, <2>1 DEF BecomesReady, Subscribed
<1>10. ASSUME NEW fd \in Fds, Reopened(fd) PROVE Subscribed'
  BY <1>10 DEF Reopened, Subscribed, TypeOK
<1>11. CASE Aborted
  BY <1>7, <1>11 DEF Aborted, vars
<1>12. ASSUME NEW t \in Threads, IdleStep(t) PROVE Subscribed'
  BY <1>6, <1>7, <1>8, <1>12 DEF IdleStep, HandleSkip
<1>13. CASE KernelStep
  BY <1>7, <1>9, <1>10, <1>13 DEF KernelStep, Drained
<1>14. CASE UserStep
  BY <1>1, <1>2, <1>4, <1>5, <1>7, <1>14 DEF UserStep, Resume, AddEventFails
<1> QED
  BY <1>11, <1>12, <1>13, <1>14 DEF Next

-----------------------------------------------------------------------------
(* IInv is an invariant of the event table. *)
THEOREM Invariance == Spec => []IInv
<1>1. IInv /\ [Next]_vars => IInv'
  <2> SUFFICES ASSUME IInv, [Next]_vars PROVE IInv'
    OBVIOUS
  <2>1. CASE Next
    BY <2>1, TypeStep, CountStep, WaiterStep, SubscribedStep DEF IInv
  <2>2. CASE UNCHANGED vars
    BY <2>2 DEF IInv, TypeOK, PendingExact, Pending, WaiterOnce, Subscribed, vars
  <2> QED
    BY <2>1, <2>2
<1> QED
  BY InitIInv, <1>1, PTL DEF Spec

(* m_pendingEventCount counts the registered events exactly, on every path *)
(* of addEvent, delEvent, cancleEvent, cancleAll and idle.                 *)
THEOREM PendingCorrect == Spec => []PendingExact
<1>1. IInv => PendingExact
  BY DEF IInv
<1> QED
  BY Invariance, <1>1, PTL

(* Every waiting fiber is in exactly one context and is scheduled once. *)
THEOREM WaitersCorrect == Spec => []WaiterOnce
<1>1. IInv => WaiterOnce
  BY DEF IInv
<1> QED
  BY Invariance, <1>1, PTL

(* What is waited for is subscribed in epoll, so its readiness is reported. *)
THEOREM SubscriptionCorrect == Spec => []Subscribed
<1>1. IInv => Subscribed
  BY DEF IInv
<1> QED
  BY Invariance, <1>1, PTL
=============================================================================
