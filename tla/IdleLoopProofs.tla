--------------------------- MODULE IdleLoopProofs ---------------------------
(***************************************************************************)
(* Theorems about IdleLoop for any number of threads, jobs and timers: no  *)
(* timer is overslept while all threads sleep, and no task is left behind  *)
(* when the last thread leaves run().                                      *)
(***************************************************************************)
EXTENDS IdleLoop, TLAPS, FiniteSetTheorems

(* The places of a thread that will still call getNextTimer or exit, and   *)
(* of one that has called it and will sleep on the answer.                 *)
Up == {"scan", "run", "leave", "nothing", "next_timer", "expired", "push", "trigger", "less"}
Down == {"pending", "stopping", "wait"}

Resting == \E t \in Threads : pc[t] \in Down

(* Something will make a thread ask for the next timer again. *)
Stirring ==
    \/ edge
    \/ \E a \in Actors : owes[a] > 0
    \/ \E u \in Threads \ ended : pc[u] \in Up

JobOK == \A t \in Threads : pc[t] = "run" => job[t] \in Tasks

(* A thread whose idle fiber has ended never goes idle again. *)
EndedOK ==
    /\ \A t \in ended : pc[t] \in {"scan", "run", "leave", "nothing", "exited"} /\ stop
    /\ \A t \in Threads : pc[t] = "exited" => t \in ended

(* While m_tickled keeps announcements back, one is still on its way. *)
Announced == m_tickled /\ Resting => Stirring

Covered ==
    \A x \in timers : Resting =>
        Stirring \/ \E t \in Threads : pc[t] = "wait" /\ until[t] <= x

(* Some thread will still look at the list and may take k. *)
WillScan(k) ==
    \E u \in Threads : /\ pin[k] \in {None, u}
                       /\ ~(u \in ended /\ pc[u] \in {"nothing", "exited"})

QueueOK ==
    /\ \A k \in queue : WillScan(k)
    /\ \A k \in Tasks : k \notin queue => pin[k] = None

OnThread(k) ==
    \E t \in Threads : (pc[t] = "push" /\ k \in cbs[t]) \/ (pc[t] = "run" /\ job[t] = k)

(* A task that exists is somewhere. *)
WhereOK == \A k \in used : k \in queue \cup timers \cup pending \cup done \/ OnThread(k)

(* An event that was taken from epoll has its fiber scheduled before the   *)
(* count goes down.                                                        *)
HeldOK ==
    /\ ready \subseteq held /\ pending \subseteq held
    /\ \A t \in Threads : got[t] \subseteq held
    /\ \A t \in Threads : pc[t] = "less" =>
          job[t] \in held /\ (job[t] \in queue \cup done
                              \/ \E u \in Threads : pc[u] = "run" /\ job[u] = job[t])

IInv == TypeOK /\ JobOK /\ EndedOK /\ Announced /\ Covered /\ QueueOK /\ WhereOK /\ HeldOK

-----------------------------------------------------------------------------
USE DEF Goto, At, Free

(* There is a thread, and finitely many. *)
LEMMA ThreadsNat == Cardinality(Threads) \in Nat \ {0}
  BY IdleLoopAssumption, FS_CardinalityType, FS_EmptySet DEF IdleLoopAssumption

(* The invariant holds when the manager has been constructed. *)
LEMMA InitInv == Init => IInv
  <1> SUFFICES ASSUME Init PROVE IInv
    OBVIOUS
  <1> USE IdleLoopAssumption DEF IdleLoopAssumption
  <1>1. TypeOK
    <2>1. Never \in 1..Never
      BY DEF Never
    <2>2. until \in [Threads -> 1..Never]
      BY <2>1 DEF Init
    <2>3. now \in 0..MaxTime
      BY DEF Init
    <2>4. pc \in [Threads -> {"scan", "run", "leave", "nothing", "exited", "next_timer", "pending",
                           "stopping", "wait", "expired", "push", "trigger", "less"}]
      BY DEF Init
    <2>5. pin \in [Tasks -> Threads \cup {None}] /\ job \in [Threads -> Tasks \cup {None}]
      BY DEF Init
    <2>6. cbs \in [Threads -> SUBSET Times] /\ got \in [Threads -> SUBSET MayHold]
      BY DEF Init
    <2>7. owes \in [Actors -> Nat]
      BY DEF Init
    <2>8. QED
      BY <2>2, <2>3, <2>4, <2>5, <2>6, <2>7 DEF Init, TypeOK
  <1>2. JobOK /\ EndedOK /\ Announced /\ Covered
    BY DEF Init, JobOK, EndedOK, Announced, Covered
  <1>3. QueueOK /\ WhereOK /\ HeldOK
    BY DEF Init, QueueOK, WhereOK, HeldOK
  <1>4. QED
    BY <1>1, <1>2, <1>3 DEF IInv

(* epoll_wait returns. *)
LEMMA ReturnType ==
  ASSUME TypeOK, JobOK, NEW t \in Threads, pc[t] = "wait", Return(t)
  PROVE  TypeOK' /\ JobOK'
<1> USE IdleLoopAssumption DEF IdleLoopAssumption, TypeOK, JobOK, Tasks, Times, Actors
<1>1. Never \in 1..Never
  BY DEF Never
<1>2. until' \in [Threads -> 1..Never] /\ got' \in [Threads -> SUBSET MayHold]
  BY <1>1 DEF Return
<1>3. pc' = [pc EXCEPT ![t] = "expired"] /\ ready' = {} /\ edge' = FALSE
  BY DEF Return
<1>4. UNCHANGED <<queue, pin, timers, m_tickled, pending, stop, owes, job, cbs, ended,
                  now, used, held, done>>
  BY DEF Return
<1>5. JobOK'
  BY <1>3, <1>4
<1>6. TypeOK'
  BY <1>2, <1>3, <1>4 DEF Never
<1>7. QED
  BY <1>5, <1>6

(* A new timer is announced, or an announcement is on its way, or another  *)
(* timer before it is covered.                                             *)
LEMMA AddTimerCovers ==
  ASSUME TypeOK, Announced, Covered, NEW a \in Actors, AddTimer(a)
  PROVE  Announced' /\ Covered'
<1> USE DEF TypeOK, Times
<1>1. UNCHANGED <<edge, pc, until, ended>>
  BY DEF AddTimer, threadVars
<1>2. Resting' <=> Resting
  BY <1>1 DEF Resting
<1>3. PICK x \in Times :
        /\ timers' = timers \cup {x}
        /\ owes' = IF AtFront(x) /\ ~m_tickled THEN [owes EXCEPT ![a] = @ + 1] ELSE owes
        /\ m_tickled' = (m_tickled \/ AtFront(x))
  BY DEF AddTimer
<1>4. \A b \in Actors : owes'[b] >= owes[b]
  BY <1>3
<1>5. ASSUME Stirring PROVE Stirring'
  <2>1. CASE \E b \in Actors : owes[b] > 0
    <3>1. PICK b \in Actors : owes[b] > 0
      BY <2>1
    <3>2. owes[b] \in Nat /\ owes'[b] \in Nat
      BY <1>3
    <3>3. owes'[b] > 0
      BY <3>1, <3>2, <1>4
    <3>4. QED
      BY <3>3 DEF Stirring
  <2>2. CASE edge \/ \E u \in Threads \ ended : pc[u] \in Up
    BY <2>2, <1>1 DEF Stirring
  <2>3. QED
    BY <1>5, <2>1, <2>2 DEF Stirring
<1>6. CASE AtFront(x) /\ ~m_tickled
  <2>1. owes'[a] > 0
    BY <1>3, <1>6
  <2>2. Stirring'
    BY <2>1 DEF Stirring
  <2>3. QED
    BY <2>2 DEF Announced, Covered
<1>7. CASE m_tickled
  <2>1. Resting => Stirring
    BY <1>7 DEF Announced
  <2>2. QED
    BY <2>1, <1>2, <1>5 DEF Announced, Covered
<1>8. CASE ~AtFront(x) /\ ~m_tickled
  <2>1. ~m_tickled'
    BY <1>3, <1>8
  <2>2. PICK y \in timers : ~(x < y)
    BY <1>8 DEF AtFront
  <2>3. ASSUME NEW z \in timers', Resting', ~Stirring'
        PROVE  \E t \in Threads : pc'[t] = "wait" /\ until'[t] <= z
    <3>1. Resting /\ ~Stirring
      BY <2>3, <1>2, <1>5
    <3>2. CASE z \in timers
      BY <3>1, <3>2, <1>1 DEF Covered
    <3>3. CASE z = x
      <4>1. PICK t \in Threads : pc[t] = "wait" /\ until[t] <= y
        BY <3>1 DEF Covered
      <4>2. until[t] \in Nat /\ y \in Nat /\ x \in Nat
        BY DEF Never
      <4>3. until[t] <= x
        BY <4>1, <4>2, <2>2
      <4>4. QED
        BY <4>1, <4>3, <3>3, <1>1
    <3>4. QED
      BY <3>2, <3>3, <1>3
  <2>4. QED
    BY <2>1, <2>3 DEF Announced, Covered
<1>9. QED
  BY <1>6, <1>7, <1>8

(* Every action keeps the types; a thread that runs has a task. *)
LEMMA TypeNext ==
  ASSUME TypeOK, JobOK, Next
  PROVE  TypeOK' /\ JobOK'
<1> USE IdleLoopAssumption DEF IdleLoopAssumption, TypeOK, JobOK, Tasks, Times, Actors, Never
<1>1. CASE MainUses /\ ScheduleNew(Main, Threads \cup {None})
  BY <1>1 DEF ScheduleNew, Schedule, NeedTickle, threadVars
<1>2. CASE MainUses /\ AddTimer(Main)
  BY <1>2 DEF AddTimer, AtFront, threadVars
<1>3. CASE Stop
  BY <1>3, ThreadsNat DEF Stop, threadVars
<1>4. ASSUME NEW a \in Actors, Tickle(a) PROVE TypeOK' /\ JobOK'
  BY <1>4 DEF Tickle, IdleThreads, threadVars
<1>5. ASSUME NEW t \in Threads, At(t, "run"), ScheduleNew(t, {None, t}) PROVE TypeOK' /\ JobOK'
  BY <1>5 DEF ScheduleNew, Schedule, NeedTickle, threadVars
<1>6. ASSUME NEW t \in Threads, At(t, "run"), AddTimer(t) PROVE TypeOK' /\ JobOK'
  BY <1>6 DEF AddTimer, AtFront, threadVars
<1>7. ASSUME NEW t \in Threads, Take(t) PROVE TypeOK' /\ JobOK'
  BY <1>7 DEF Take, TickleMe, Runnable
<1>8. ASSUME NEW t \in Threads, ScanNothing(t) PROVE TypeOK' /\ JobOK'
  BY <1>8 DEF ScanNothing, TickleMe, Runnable
<1>9. ASSUME NEW t \in Threads, Nothing(t) PROVE TypeOK' /\ JobOK'
  BY <1>9 DEF Nothing
<1>10. ASSUME NEW t \in Threads, JobWaits(t) PROVE TypeOK' /\ JobOK'
  BY <1>10 DEF JobWaits
<1>11. ASSUME NEW t \in Threads, JobEnds(t) PROVE TypeOK' /\ JobOK'
  BY <1>11 DEF JobEnds
<1>12. ASSUME NEW t \in Threads, Leave(t) PROVE TypeOK' /\ JobOK'
  BY <1>12 DEF Leave
<1>13. ASSUME NEW t \in Threads, GetNextTimer(t) PROVE TypeOK' /\ JobOK'
  <2>1. PICK x \in 0..Never : NextTimer(x) /\ until' = [until EXCEPT ![t] = x]
    BY <1>13 DEF GetNextTimer
  <2>2. x \in 1..Never
    BY <2>1 DEF NextTimer
  <2>3. until' \in [Threads -> 1..Never]
    BY <2>1, <2>2
  <2>4. pc[t] = "next_timer" /\ pc' = [pc EXCEPT ![t] = IF timers = {} THEN "pending" ELSE "wait"]
    BY <1>13 DEF GetNextTimer
  <2>5. UNCHANGED <<queue, pin, timers, pending, stop, owes, job, cbs, got, ended,
                    edge, ready, now, used, held, done>> /\ m_tickled' = FALSE
    BY <1>13 DEF GetNextTimer, Untickle
  <2>6. JobOK'
    BY <2>4, <2>5
  <2>7. QED
    BY <2>3, <2>4, <2>5, <2>6
<1>14. ASSUME NEW t \in Threads, CheckPending(t) PROVE TypeOK' /\ JobOK'
  BY <1>14 DEF CheckPending
<1>15. ASSUME NEW t \in Threads, CheckStopping(t) PROVE TypeOK' /\ JobOK'
  BY <1>15 DEF CheckStopping, MayStop
<1>16. ASSUME NEW t \in Threads, EpollWait(t) PROVE TypeOK' /\ JobOK'
  BY <1>16, ReturnType DEF EpollWait
<1>17. ASSUME NEW t \in Threads, EpollTimeout(t) PROVE TypeOK' /\ JobOK'
  BY <1>17, ReturnType DEF EpollTimeout
<1>18. ASSUME NEW t \in Threads, ListExpiredCb(t) PROVE TypeOK' /\ JobOK'
  <2>1. /\ cbs' = [cbs EXCEPT ![t] = {x \in timers : x <= now}] /\ timers' \subseteq timers
        /\ pc' = [pc EXCEPT ![t] = "push"]
        /\ UNCHANGED <<queue, pin, m_tickled, pending, stop, owes, job, until, got, ended,
                       edge, ready, now, used, held, done>>
    BY <1>18 DEF ListExpiredCb
  <2>2. {x \in timers : x <= now} \in SUBSET Times
    OBVIOUS
  <2>3. cbs' \in [Threads -> SUBSET Times]
    BY <2>1, <2>2
  <2>4. JobOK'
    BY <2>1
  <2> QED
    BY <2>1, <2>3, <2>4
<1>19. ASSUME NEW t \in Threads, ScheduleCbs(t) PROVE TypeOK' /\ JobOK'
  <2>1. /\ queue' = queue \cup cbs[t] /\ cbs' = [cbs EXCEPT ![t] = {}] /\ pc' = [pc EXCEPT ![t] = "trigger"]
        /\ UNCHANGED <<pin, timers, m_tickled, pending, stop, job, until, got, ended,
                       edge, ready, now, used, held, done>>
    BY <1>19 DEF ScheduleCbs, Schedule
  <2>2. owes' \in [Actors -> Nat]
    BY <1>19 DEF ScheduleCbs, Schedule
  <2>3. queue' \subseteq Tasks /\ cbs' \in [Threads -> SUBSET Times]
    BY <2>1
  <2>4. JobOK'
    BY <2>1
  <2> QED
    BY <2>1, <2>2, <2>3, <2>4
<1>20. ASSUME NEW t \in Threads, TriggerEvent(t) PROVE TypeOK' /\ JobOK'
  BY <1>20 DEF TriggerEvent, Schedule, NeedTickle
<1>21. ASSUME NEW t \in Threads, PendingLess(t) PROVE TypeOK' /\ JobOK'
  BY <1>21 DEF PendingLess
<1>22. ASSUME NEW t \in Threads, Yield(t) PROVE TypeOK' /\ JobOK'
  BY <1>22 DEF Yield
<1>23. CASE Tick
  BY <1>23 DEF Tick, threadVars
<1>24. CASE EventHappens
  BY <1>24 DEF EventHappens, threadVars
<1>25. CASE Halted
  BY <1>25 DEF Halted, vars, threadVars
<1>26. QED
  BY <1>1, <1>2, <1>3, <1>4, <1>5, <1>6, <1>7, <1>8, <1>9, <1>10, <1>11, <1>12, <1>13, <1>14, <1>15, <1>16, <1>17, <1>18, <1>19, <1>20, <1>21, <1>22, <1>23, <1>24, <1>25
     DEF Next, MainUses, JobUses, RunStep, IdleStep

(* Only CheckStopping ends an idle fiber; it does so on the way out of idle(). *)
LEMMA EndedNext ==
  ASSUME TypeOK, EndedOK, Next
  PROVE  EndedOK'
<1> USE IdleLoopAssumption DEF IdleLoopAssumption, TypeOK, EndedOK
<1>1. CASE MainUses /\ ScheduleNew(Main, Threads \cup {None})
  BY <1>1 DEF ScheduleNew, Schedule, NeedTickle, threadVars
<1>2. CASE MainUses /\ AddTimer(Main)
  BY <1>2 DEF AddTimer, AtFront, threadVars
<1>3. CASE Stop
  BY <1>3, ThreadsNat DEF Stop, threadVars
<1>4. ASSUME NEW a \in Actors, Tickle(a) PROVE EndedOK'
  BY <1>4 DEF Tickle, IdleThreads, threadVars
<1>5. ASSUME NEW t \in Threads, At(t, "run"), ScheduleNew(t, {None, t}) PROVE EndedOK'
  BY <1>5 DEF ScheduleNew, Schedule, NeedTickle, threadVars
<1>6. ASSUME NEW t \in Threads, At(t, "run"), AddTimer(t) PROVE EndedOK'
  BY <1>6 DEF AddTimer, AtFront, threadVars
<1>7. ASSUME NEW t \in Threads, Take(t) PROVE EndedOK'
  BY <1>7 DEF Take, TickleMe, Runnable
<1>8. ASSUME NEW t \in Threads, ScanNothing(t) PROVE EndedOK'
  BY <1>8 DEF ScanNothing, TickleMe, Runnable
<1>9. ASSUME NEW t \in Threads, Nothing(t) PROVE EndedOK'
  BY <1>9 DEF Nothing
<1>10. ASSUME NEW t \in Threads, JobWaits(t) PROVE EndedOK'
  BY <1>10 DEF JobWaits
<1>11. ASSUME NEW t \in Threads, JobEnds(t) PROVE EndedOK'
  BY <1>11 DEF JobEnds
<1>12. ASSUME NEW t \in Threads, Leave(t) PROVE EndedOK'
  BY <1>12 DEF Leave
<1>13. ASSUME NEW t \in Threads, GetNextTimer(t) PROVE EndedOK'
  BY <1>13 DEF GetNextTimer, Untickle, NextTimer
<1>14. ASSUME NEW t \in Threads, CheckPending(t) PROVE EndedOK'
  BY <1>14 DEF CheckPending
<1>15. ASSUME NEW t \in Threads, CheckStopping(t) PROVE EndedOK'
  BY <1>15 DEF CheckStopping, MayStop
<1>16. ASSUME NEW t \in Threads, EpollWait(t) PROVE EndedOK'
  BY <1>16 DEF EpollWait, Return
<1>17. ASSUME NEW t \in Threads, EpollTimeout(t) PROVE EndedOK'
  BY <1>17 DEF EpollTimeout, Return
<1>18. ASSUME NEW t \in Threads, ListExpiredCb(t) PROVE EndedOK'
  BY <1>18 DEF ListExpiredCb
<1>19. ASSUME NEW t \in Threads, ScheduleCbs(t) PROVE EndedOK'
  BY <1>19 DEF ScheduleCbs, Schedule, NeedTickle
<1>20. ASSUME NEW t \in Threads, TriggerEvent(t) PROVE EndedOK'
  BY <1>20 DEF TriggerEvent, Schedule, NeedTickle
<1>21. ASSUME NEW t \in Threads, PendingLess(t) PROVE EndedOK'
  BY <1>21 DEF PendingLess
<1>22. ASSUME NEW t \in Threads, Yield(t) PROVE EndedOK'
  BY <1>22 DEF Yield
<1>23. CASE Tick
  BY <1>23 DEF Tick, threadVars
<1>24. CASE EventHappens
  BY <1>24 DEF EventHappens, threadVars
<1>25. CASE Halted
  BY <1>25 DEF Halted, vars, threadVars
<1>26. QED
  BY <1>1, <1>2, <1>3, <1>4, <1>5, <1>6, <1>7, <1>8, <1>9, <1>10, <1>11, <1>12, <1>13, <1>14, <1>15, <1>16, <1>17, <1>18, <1>19, <1>20, <1>21, <1>22, <1>23, <1>24, <1>25
     DEF Next, MainUses, JobUses, RunStep, IdleStep

(* GetNextTimer lowers m_tickled and sleeps on the earliest timer; whoever *)
(* takes the edge is up again and will ask again.                          *)
LEMMA CoverNext ==
  ASSUME TypeOK, TypeOK', EndedOK, Announced, Covered, Next
  PROVE  Announced' /\ Covered'
<1> USE IdleLoopAssumption DEF IdleLoopAssumption, TypeOK, EndedOK, Announced, Covered, Resting, Stirring, Up, Down
<1>1. CASE MainUses /\ ScheduleNew(Main, Threads \cup {None})
  BY <1>1 DEF ScheduleNew, Schedule, NeedTickle, threadVars
<1>2. CASE MainUses /\ AddTimer(Main)
  BY <1>2, AddTimerCovers DEF Actors
<1>3. CASE Stop
  BY <1>3, ThreadsNat DEF Stop, threadVars
<1>4. ASSUME NEW a \in Actors, Tickle(a) PROVE Announced' /\ Covered'
  BY <1>4 DEF Tickle, IdleThreads, threadVars
<1>5. ASSUME NEW t \in Threads, At(t, "run"), ScheduleNew(t, {None, t}) PROVE Announced' /\ Covered'
  BY <1>5 DEF ScheduleNew, Schedule, NeedTickle, threadVars
<1>6. ASSUME NEW t \in Threads, At(t, "run"), AddTimer(t) PROVE Announced' /\ Covered'
  BY <1>6, AddTimerCovers DEF Actors
<1>7. ASSUME NEW t \in Threads, Take(t) PROVE Announced' /\ Covered'
  BY <1>7 DEF Take, TickleMe, Runnable
<1>8. ASSUME NEW t \in Threads, ScanNothing(t) PROVE Announced' /\ Covered'
  BY <1>8 DEF ScanNothing, TickleMe, Runnable
<1>9. ASSUME NEW t \in Threads, Nothing(t) PROVE Announced' /\ Covered'
  BY <1>9 DEF Nothing
<1>10. ASSUME NEW t \in Threads, JobWaits(t) PROVE Announced' /\ Covered'
  BY <1>10 DEF JobWaits
<1>11. ASSUME NEW t \in Threads, JobEnds(t) PROVE Announced' /\ Covered'
  BY <1>11 DEF JobEnds
<1>12. ASSUME NEW t \in Threads, Leave(t) PROVE Announced' /\ Covered'
  BY <1>12 DEF Leave
<1>13. ASSUME NEW t \in Threads, GetNextTimer(t) PROVE Announced' /\ Covered'
  BY <1>13 DEF GetNextTimer, Untickle, NextTimer
<1>14. ASSUME NEW t \in Threads, CheckPending(t) PROVE Announced' /\ Covered'
  BY <1>14 DEF CheckPending
<1>15. ASSUME NEW t \in Threads, CheckStopping(t) PROVE Announced' /\ Covered'
  BY <1>15 DEF CheckStopping, MayStop
<1>16. ASSUME NEW t \in Threads, EpollWait(t) PROVE Announced' /\ Covered'
  BY <1>16 DEF EpollWait, Return
<1>17. ASSUME NEW t \in Threads, EpollTimeout(t) PROVE Announced' /\ Covered'
  BY <1>17 DEF EpollTimeout, Return
<1>18. ASSUME NEW t \in Threads, ListExpiredCb(t) PROVE Announced' /\ Covered'
  BY <1>18 DEF ListExpiredCb
<1>19. ASSUME NEW t \in Threads, ScheduleCbs(t) PROVE Announced' /\ Covered'
  BY <1>19 DEF ScheduleCbs, Schedule, NeedTickle
<1>20. ASSUME NEW t \in Threads, TriggerEvent(t) PROVE Announced' /\ Covered'
  BY <1>20 DEF TriggerEvent, Schedule, NeedTickle
<1>21. ASSUME NEW t \in Threads, PendingLess(t) PROVE Announced' /\ Covered'
  BY <1>21 DEF PendingLess
<1>22. ASSUME NEW t \in Threads, Yield(t) PROVE Announced' /\ Covered'
  BY <1>22 DEF Yield
<1>23. CASE Tick
  BY <1>23 DEF Tick, threadVars
<1>24. CASE EventHappens
  BY <1>24 DEF EventHappens, threadVars
<1>25. CASE Halted
  BY <1>25 DEF Halted, vars, threadVars
<1>26. QED
  BY <1>1, <1>2, <1>3, <1>4, <1>5, <1>6, <1>7, <1>8, <1>9, <1>10, <1>11, <1>12, <1>13, <1>14, <1>15, <1>16, <1>17, <1>18, <1>19, <1>20, <1>21, <1>22, <1>23, <1>24, <1>25
     DEF Next, MainUses, JobUses, RunStep, IdleStep

(* A task in the list keeps a thread that will scan: CheckStopping wants   *)
(* an empty list, and who schedules later scans later.                     *)
LEMMA QueueNext ==
  ASSUME TypeOK, EndedOK, QueueOK, Next
  PROVE  QueueOK'
<1> USE IdleLoopAssumption DEF IdleLoopAssumption, TypeOK, EndedOK, QueueOK, WillScan
<1>1. CASE MainUses /\ ScheduleNew(Main, Threads \cup {None})
  <2>1. PICK j \in Jobs \ used, p \in Threads \cup {None} :
          pin' = [pin EXCEPT ![j] = p] /\ queue' = queue \cup {j}
    BY <1>1 DEF ScheduleNew, Schedule
  <2>2. UNCHANGED <<pc, ended>> /\ ended = {}
    BY <1>1 DEF MainUses, ScheduleNew, threadVars
  <2>3. PICK u \in Threads : p \in {None, u}
    OBVIOUS
  <2>4. j \in Tasks /\ pin'[j] = p /\ \A k \in Tasks : k # j => pin'[k] = pin[k]
    BY <2>1 DEF Tasks
  <2>5. \A k \in queue' : \E v \in Threads : pin'[k] \in {None, v} /\ v \notin ended'
    BY <2>1, <2>2, <2>3, <2>4
  <2>6. QED
    BY <2>1, <2>4, <2>5
<1>2. CASE MainUses /\ AddTimer(Main)
  BY <1>2 DEF AddTimer, AtFront, threadVars
<1>3. CASE Stop
  BY <1>3, ThreadsNat DEF Stop, threadVars
<1>4. ASSUME NEW a \in Actors, Tickle(a) PROVE QueueOK'
  BY <1>4 DEF Tickle, IdleThreads, threadVars
<1>5. ASSUME NEW t \in Threads, At(t, "run"), ScheduleNew(t, {None, t}) PROVE QueueOK'
  <2>1. PICK j \in Jobs \ used, p \in {None, t} :
          pin' = [pin EXCEPT ![j] = p] /\ queue' = queue \cup {j}
    BY <1>5 DEF ScheduleNew, Schedule
  <2>2. UNCHANGED <<pc, ended>> /\ pc[t] = "run"
    BY <1>5 DEF ScheduleNew, threadVars
  <2>3. j \in Tasks /\ pin'[j] = p /\ \A k \in Tasks : k # j => pin'[k] = pin[k]
    BY <2>1 DEF Tasks
  <2>4. ASSUME NEW k \in queue' PROVE WillScan(k)'
    <3>1. CASE k = j
      BY <2>2, <2>3, <3>1
    <3>2. CASE k # j
      BY <2>1, <2>2, <2>3, <3>2
    <3>3. QED
      BY <3>1, <3>2
  <2>5. QED
    BY <2>1, <2>3, <2>4
<1>6. ASSUME NEW t \in Threads, At(t, "run"), AddTimer(t) PROVE QueueOK'
  BY <1>6 DEF AddTimer, AtFront, threadVars
<1>7. ASSUME NEW t \in Threads, Take(t) PROVE QueueOK'
  BY <1>7 DEF Take, TickleMe, Runnable
<1>8. ASSUME NEW t \in Threads, ScanNothing(t) PROVE QueueOK'
  BY <1>8 DEF ScanNothing, TickleMe, Runnable
<1>9. ASSUME NEW t \in Threads, Nothing(t) PROVE QueueOK'
  BY <1>9 DEF Nothing
<1>10. ASSUME NEW t \in Threads, JobWaits(t) PROVE QueueOK'
  BY <1>10 DEF JobWaits
<1>11. ASSUME NEW t \in Threads, JobEnds(t) PROVE QueueOK'
  BY <1>11 DEF JobEnds
<1>12. ASSUME NEW t \in Threads, Leave(t) PROVE QueueOK'
  BY <1>12 DEF Leave
<1>13. ASSUME NEW t \in Threads, GetNextTimer(t) PROVE QueueOK'
  BY <1>13 DEF GetNextTimer, Untickle, NextTimer
<1>14. ASSUME NEW t \in Threads, CheckPending(t) PROVE QueueOK'
  BY <1>14 DEF CheckPending
<1>15. ASSUME NEW t \in Threads, CheckStopping(t) PROVE QueueOK'
  BY <1>15 DEF CheckStopping, MayStop
<1>16. ASSUME NEW t \in Threads, EpollWait(t) PROVE QueueOK'
  BY <1>16 DEF EpollWait, Return
<1>17. ASSUME NEW t \in Threads, EpollTimeout(t) PROVE QueueOK'
  BY <1>17 DEF EpollTimeout, Return
<1>18. ASSUME NEW t \in Threads, ListExpiredCb(t) PROVE QueueOK'
  BY <1>18 DEF ListExpiredCb
<1>19. ASSUME NEW t \in Threads, ScheduleCbs(t) PROVE QueueOK'
  <2>1. UNCHANGED <<pin, ended>> /\ queue' = queue \cup cbs[t]
    BY <1>19 DEF ScheduleCbs, Schedule
  <2>2. pc[t] = "push" /\ pc' = [pc EXCEPT ![t] = "trigger"] /\ t \notin ended
    BY <1>19 DEF ScheduleCbs
  <2>3. cbs[t] \subseteq Tasks
    BY DEF Tasks
  <2>4. ASSUME NEW k \in queue' PROVE WillScan(k)'
    <3>1. CASE k \in queue
      BY <2>1, <2>2, <3>1
    <3>2. CASE k \notin queue
      BY <2>1, <2>2, <2>3, <3>2
    <3>3. QED
      BY <3>1, <3>2
  <2>5. QED
    BY <2>1, <2>3, <2>4
<1>20. ASSUME NEW t \in Threads, TriggerEvent(t) PROVE QueueOK'
  <2>1. PICK w \in got[t] : queue' = queue \cup {w}
    BY <1>20 DEF TriggerEvent, Schedule
  <2>2. UNCHANGED <<pin, ended>> /\ pc[t] = "trigger" /\ pc' = [pc EXCEPT ![t] = "less"]
        /\ t \notin ended
    BY <1>20 DEF TriggerEvent
  <2>3. w \in Tasks
    BY DEF Tasks
  <2>4. ASSUME NEW k \in queue' PROVE WillScan(k)'
    <3>1. CASE k \in queue
      BY <2>1, <2>2, <3>1
    <3>2. CASE k \notin queue
      BY <2>1, <2>2, <2>3, <3>2
    <3>3. QED
      BY <3>1, <3>2
  <2>5. QED
    BY <2>1, <2>2, <2>3, <2>4
<1>21. ASSUME NEW t \in Threads, PendingLess(t) PROVE QueueOK'
  BY <1>21 DEF PendingLess
<1>22. ASSUME NEW t \in Threads, Yield(t) PROVE QueueOK'
  BY <1>22 DEF Yield
<1>23. CASE Tick
  BY <1>23 DEF Tick, threadVars
<1>24. CASE EventHappens
  BY <1>24 DEF EventHappens, threadVars
<1>25. CASE Halted
  BY <1>25 DEF Halted, vars, threadVars
<1>26. QED
  BY <1>1, <1>2, <1>3, <1>4, <1>5, <1>6, <1>7, <1>8, <1>9, <1>10, <1>11, <1>12, <1>13, <1>14, <1>15, <1>16, <1>17, <1>18, <1>19, <1>20, <1>21, <1>22, <1>23, <1>24, <1>25
     DEF Next, MainUses, JobUses, RunStep, IdleStep

(* Events are taken by waiters that hold, once. *)
LEMMA HeldNext ==
  ASSUME TypeOK, EndedOK, HeldOK, Next
  PROVE  HeldOK'
<1> USE IdleLoopAssumption DEF IdleLoopAssumption, TypeOK, HeldOK
<1>1. CASE MainUses /\ ScheduleNew(Main, Threads \cup {None})
  BY <1>1 DEF ScheduleNew, Schedule, NeedTickle, threadVars
<1>2. CASE MainUses /\ AddTimer(Main)
  BY <1>2 DEF AddTimer, AtFront, threadVars
<1>3. CASE Stop
  BY <1>3, ThreadsNat DEF Stop, threadVars
<1>4. ASSUME NEW a \in Actors, Tickle(a) PROVE HeldOK'
  BY <1>4 DEF Tickle, IdleThreads, threadVars
<1>5. ASSUME NEW t \in Threads, At(t, "run"), ScheduleNew(t, {None, t}) PROVE HeldOK'
  BY <1>5 DEF ScheduleNew, Schedule, NeedTickle, threadVars
<1>6. ASSUME NEW t \in Threads, At(t, "run"), AddTimer(t) PROVE HeldOK'
  BY <1>6 DEF AddTimer, AtFront, threadVars
<1>7. ASSUME NEW t \in Threads, Take(t) PROVE HeldOK'
  BY <1>7 DEF Take, TickleMe, Runnable
<1>8. ASSUME NEW t \in Threads, ScanNothing(t) PROVE HeldOK'
  BY <1>8 DEF ScanNothing, TickleMe, Runnable
<1>9. ASSUME NEW t \in Threads, Nothing(t) PROVE HeldOK'
  BY <1>9 DEF Nothing
<1>10. ASSUME NEW t \in Threads, JobWaits(t) PROVE HeldOK'
  BY <1>10 DEF JobWaits
<1>11. ASSUME NEW t \in Threads, JobEnds(t) PROVE HeldOK'
  BY <1>11 DEF JobEnds
<1>12. ASSUME NEW t \in Threads, Leave(t) PROVE HeldOK'
  BY <1>12 DEF Leave
<1>13. ASSUME NEW t \in Threads, GetNextTimer(t) PROVE HeldOK'
  BY <1>13 DEF GetNextTimer, Untickle, NextTimer
<1>14. ASSUME NEW t \in Threads, CheckPending(t) PROVE HeldOK'
  BY <1>14 DEF CheckPending
<1>15. ASSUME NEW t \in Threads, CheckStopping(t) PROVE HeldOK'
  BY <1>15 DEF CheckStopping, MayStop
<1>16. ASSUME NEW t \in Threads, EpollWait(t) PROVE HeldOK'
  BY <1>16 DEF EpollWait, Return
<1>17. ASSUME NEW t \in Threads, EpollTimeout(t) PROVE HeldOK'
  BY <1>17 DEF EpollTimeout, Return
<1>18. ASSUME NEW t \in Threads, ListExpiredCb(t) PROVE HeldOK'
  BY <1>18 DEF ListExpiredCb
<1>19. ASSUME NEW t \in Threads, ScheduleCbs(t) PROVE HeldOK'
  BY <1>19 DEF ScheduleCbs, Schedule, NeedTickle
<1>20. ASSUME NEW t \in Threads, TriggerEvent(t) PROVE HeldOK'
  BY <1>20 DEF TriggerEvent, Schedule, NeedTickle
<1>21. ASSUME NEW t \in Threads, PendingLess(t) PROVE HeldOK'
  BY <1>21 DEF PendingLess
<1>22. ASSUME NEW t \in Threads, Yield(t) PROVE HeldOK'
  BY <1>22 DEF Yield
<1>23. CASE Tick
  BY <1>23 DEF Tick, threadVars
<1>24. CASE EventHappens
  BY <1>24 DEF EventHappens, threadVars
<1>25. CASE Halted
  BY <1>25 DEF Halted, vars, threadVars
<1>26. QED
  BY <1>1, <1>2, <1>3, <1>4, <1>5, <1>6, <1>7, <1>8, <1>9, <1>10, <1>11, <1>12, <1>13, <1>14, <1>15, <1>16, <1>17, <1>18, <1>19, <1>20, <1>21, <1>22, <1>23, <1>24, <1>25
     DEF Next, MainUses, JobUses, RunStep, IdleStep

(* A task moves from one place to the next in a single step. *)
LEMMA WhereNext ==
  ASSUME TypeOK, EndedOK, HeldOK, WhereOK, Next
  PROVE  WhereOK'
<1> USE IdleLoopAssumption DEF IdleLoopAssumption, TypeOK, HeldOK, WhereOK, OnThread
<1>1. CASE MainUses /\ ScheduleNew(Main, Threads \cup {None})
  BY <1>1 DEF ScheduleNew, Schedule, NeedTickle, threadVars
<1>2. CASE MainUses /\ AddTimer(Main)
  BY <1>2 DEF AddTimer, AtFront, threadVars
<1>3. CASE Stop
  BY <1>3, ThreadsNat DEF Stop, threadVars
<1>4. ASSUME NEW a \in Actors, Tickle(a) PROVE WhereOK'
  BY <1>4 DEF Tickle, IdleThreads, threadVars
<1>5. ASSUME NEW t \in Threads, At(t, "run"), ScheduleNew(t, {None, t}) PROVE WhereOK'
  BY <1>5 DEF ScheduleNew, Schedule, NeedTickle, threadVars
<1>6. ASSUME NEW t \in Threads, At(t, "run"), AddTimer(t) PROVE WhereOK'
  BY <1>6 DEF AddTimer, AtFront, threadVars
<1>7. ASSUME NEW t \in Threads, Take(t) PROVE WhereOK'
  BY <1>7 DEF Take, TickleMe, Runnable
<1>8. ASSUME NEW t \in Threads, ScanNothing(t) PROVE WhereOK'
  BY <1>8 DEF ScanNothing, TickleMe, Runnable
<1>9. ASSUME NEW t \in Threads, Nothing(t) PROVE WhereOK'
  BY <1>9 DEF Nothing
<1>10. ASSUME NEW t \in Threads, JobWaits(t) PROVE WhereOK'
  BY <1>10 DEF JobWaits
<1>11. ASSUME NEW t \in Threads, JobEnds(t) PROVE WhereOK'
  BY <1>11 DEF JobEnds
<1>12. ASSUME NEW t \in Threads, Leave(t) PROVE WhereOK'
  BY <1>12 DEF Leave
<1>13. ASSUME NEW t \in Threads, GetNextTimer(t) PROVE WhereOK'
  BY <1>13 DEF GetNextTimer, Untickle, NextTimer
<1>14. ASSUME NEW t \in Threads, CheckPending(t) PROVE WhereOK'
  BY <1>14 DEF CheckPending
<1>15. ASSUME NEW t \in Threads, CheckStopping(t) PROVE WhereOK'
  BY <1>15 DEF CheckStopping, MayStop
<1>16. ASSUME NEW t \in Threads, EpollWait(t) PROVE WhereOK'
  BY <1>16 DEF EpollWait, Return
<1>17. ASSUME NEW t \in Threads, EpollTimeout(t) PROVE WhereOK'
  BY <1>17 DEF EpollTimeout, Return
<1>18. ASSUME NEW t \in Threads, ListExpiredCb(t) PROVE WhereOK'
  <2>1. pc' = [pc EXCEPT ![t] = "push"] /\ pc[t] = "expired"
        /\ cbs' = [cbs EXCEPT ![t] = {x \in timers : x <= now}]
        /\ timers' = {x \in timers : x > now}
        /\ UNCHANGED <<queue, pending, done, job, used>>
    BY <1>18 DEF ListExpiredCb
  <2>2. SUFFICES ASSUME NEW k \in used
                 PROVE  k \in queue \cup timers' \cup pending \cup done \/ OnThread(k)'
    BY <2>1
  <2>3. CASE k \in timers /\ k \notin timers'
    <3>1. k \in cbs'[t] /\ pc'[t] = "push"
      BY <2>1, <2>3 DEF Times
    <3>2. QED
      BY <3>1
  <2>4. CASE k \in queue \cup timers' \cup pending \cup done
    BY <2>4
  <2>5. CASE k \notin queue \cup timers \cup pending \cup done
    <3>1. PICK u \in Threads : (pc[u] = "push" /\ k \in cbs[u]) \/ (pc[u] = "run" /\ job[u] = k)
      BY <2>5
    <3>2. (pc'[u] = "push" /\ k \in cbs'[u]) \/ (pc'[u] = "run" /\ job'[u] = k)
      BY <2>1, <3>1
    <3>3. QED
      BY <3>2
  <2>6. QED
    BY <2>3, <2>4, <2>5
<1>19. ASSUME NEW t \in Threads, ScheduleCbs(t) PROVE WhereOK'
  BY <1>19 DEF ScheduleCbs, Schedule, NeedTickle
<1>20. ASSUME NEW t \in Threads, TriggerEvent(t) PROVE WhereOK'
  BY <1>20 DEF TriggerEvent, Schedule, NeedTickle
<1>21. ASSUME NEW t \in Threads, PendingLess(t) PROVE WhereOK'
  BY <1>21 DEF PendingLess
<1>22. ASSUME NEW t \in Threads, Yield(t) PROVE WhereOK'
  BY <1>22 DEF Yield
<1>23. CASE Tick
  BY <1>23 DEF Tick, threadVars
<1>24. CASE EventHappens
  BY <1>24 DEF EventHappens, threadVars
<1>25. CASE Halted
  BY <1>25 DEF Halted, vars, threadVars
<1>26. QED
  BY <1>1, <1>2, <1>3, <1>4, <1>5, <1>6, <1>7, <1>8, <1>9, <1>10, <1>11, <1>12, <1>13, <1>14, <1>15, <1>16, <1>17, <1>18, <1>19, <1>20, <1>21, <1>22, <1>23, <1>24, <1>25
     DEF Next, MainUses, JobUses, RunStep, IdleStep

-----------------------------------------------------------------------------
(* Every step of run(), idle() and their users keeps the invariant. *)
LEMMA NextInv == IInv /\ [Next]_vars => IInv'
<1> SUFFICES ASSUME IInv, [Next]_vars PROVE IInv'
  OBVIOUS
<1> USE DEF IInv
<1>1. CASE Next
  <2>1. TypeOK' /\ JobOK'
    BY <1>1, TypeNext
  <2>2. EndedOK' /\ QueueOK' /\ HeldOK' /\ WhereOK'
    BY <1>1, EndedNext, QueueNext, HeldNext, WhereNext
  <2>3. Announced' /\ Covered'
    BY <1>1, <2>1, CoverNext
  <2>4. QED
    BY <2>1, <2>2, <2>3
<1>2. CASE UNCHANGED vars
  <2>1. TypeOK' /\ JobOK' /\ EndedOK'
    BY <1>2 DEF vars, threadVars, TypeOK, JobOK, EndedOK
  <2>2. Announced' /\ Covered'
    BY <1>2 DEF vars, threadVars, Announced, Covered, Resting, Stirring
  <2>3. QueueOK' /\ HeldOK' /\ WhereOK'
    BY <1>2 DEF vars, threadVars, QueueOK, WillScan, HeldOK, WhereOK, OnThread
  <2>4. QED
    BY <2>1, <2>2, <2>3
<1>3. QED
  BY <1>1, <1>2

(* The inductive invariant holds in every reachable state. *)
THEOREM Invariance == Spec => []IInv
<1>1. QED
  BY InitInv, NextInv, PTL DEF Spec

(* The variables of run() and idle() keep their types. *)
THEOREM TypeCorrect == Spec => []TypeOK
<1>1. IInv => TypeOK
  BY DEF IInv
<1>2. QED
  BY <1>1, Invariance, PTL

(* When all threads sleep in epoll_wait and no tickle() is on its way, one *)
(* of them wakes for the earliest timer, however addTimer, m_tickled and   *)
(* tickle() without idle threads interleave with getNextTimer.             *)
THEOREM SleepersCovered == Spec => []TimerCovered
<1>1. ASSUME IInv PROVE TimerCovered
  <2> SUFFICES ASSUME AllAsleep, NEW x \in timers
               PROVE  \E t \in Threads : pc[t] = "wait" /\ until[t] <= x
    BY DEF TimerCovered
  <2>1. Resting
    BY DEF AllAsleep, AllExited, Resting, Down
  <2>2. ~Stirring
    BY DEF AllAsleep, Stirring, Up
  <2>3. QED
    BY <1>1, <2>1, <2>2 DEF IInv, Covered
<1>2. QED
  BY <1>1, Invariance, PTL

(* When every thread has left run(), the list is empty and each task that  *)
(* ever was in it has ended or waits for an event.                         *)
THEOREM NoTaskLeftBehind == Spec => []NoTaskLeft
<1>1. ASSUME IInv PROVE NoTaskLeft
  <2> SUFFICES ASSUME AllExited
               PROVE  queue = {} /\ used \ (timers \cup pending) \subseteq done
    BY DEF NoTaskLeft
  <2>1. queue = {}
    BY <1>1 DEF IInv, AllExited, QueueOK, WillScan, EndedOK
  <2>2. \A k \in used : ~OnThread(k)
    BY DEF OnThread, AllExited
  <2>3. QED
    BY <1>1, <2>1, <2>2 DEF IInv, WhereOK
<1>2. QED
  BY <1>1, Invariance, PTL
=============================================================================
