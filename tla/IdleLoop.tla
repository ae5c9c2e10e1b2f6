------------------------------ MODULE IdleLoop ------------------------------
(***************************************************************************)
(* How the threads of an IOManager sleep and are woken                     *)
(* (sylar/iomanager.cpp: tickle, stopping, idle, onTimerInsertedAtFront;   *)
(* sylar/scheduler.cpp: run, stop; sylar/scheduler.h: schedule).           *)
(* schedule() and addTimer() change shared state under a lock and call     *)
(* tickle() after it; a thread without a task asks for the next timer,     *)
(* looks whether it may stop, and sleeps in epoll_wait on the tickle pipe, *)
(* the registered events, the next timer, and three seconds at most.       *)
(*                                                                         *)
(* The list of tasks is a set here (its order is module Scheduler's), the  *)
(* atomic counters are the sets they count (theorem CountersCorrect of     *)
(* SchedulerProofs), a timer is its expiry time, a task that waits for an  *)
(* event is the event.                                                     *)
(***************************************************************************)
EXTENDS Integers, FiniteSets

CONSTANTS
    Threads,    \* the worker threads
    Jobs,       \* what users hand to schedule()
    MaxTime,    \* bound on the clock and on expiry times
    MayHold,    \* bound: the jobs that may wait for an event, once each
    None        \* thread id -1

ASSUME IdleLoopAssumption ==
    /\ IsFiniteSet(Threads) /\ Threads # {} /\ None \notin Threads /\ "main" \notin Threads
    /\ IsFiniteSet(Jobs) /\ MayHold \subseteq Jobs
    /\ MaxTime \in Nat /\ Jobs \cap (1..MaxTime) = {}

Times == 1..MaxTime
Never == MaxTime + 1                \* getNextTimer's ~0ull
Tasks == Jobs \cup Times            \* a timer's callback is a task, too
Main == "main"                      \* the thread that owns the manager
Actors == Threads \cup {Main}

VARIABLES
    queue,      \* m_fibers
    pin,        \* the thread each task in the list was scheduled for
    timers,     \* TimerManager::m_timers
    m_tickled,
    pending,    \* the registered events: m_pendingEventCount is their number
    stop,       \* m_autoStop and m_stopping
    owes        \* the tickle() calls each actor still has to make

VARIABLES
    pc,         \* where each thread is in run() and idle()
    job,        \* the task each thread runs
    until,      \* when epoll_wait gives up, if before MAX_TIMEOUT
    cbs,        \* idle()'s expired callbacks
    got,        \* idle()'s events array
    ended       \* threads whose idle fiber has ended

VARIABLES
    edge,       \* external: a write to the pipe that epoll has not reported
    ready,      \* external: events that happened
    now,        \* external: the clock
    used, held, done    \* tasks that exist, that waited for an event, that ended

threadVars == <<pc, job, until, cbs, got, ended>>
vars == <<queue, pin, timers, m_tickled, pending, stop, owes, threadVars,
          edge, ready, now, used, held, done>>

-----------------------------------------------------------------------------
Init ==
    /\ queue = {} /\ timers = {} /\ pending = {} /\ ready = {} /\ used = {} /\ held = {} /\ done = {}
    /\ pin = [k \in Tasks |-> None]
    /\ m_tickled = FALSE /\ stop = FALSE /\ edge = FALSE
    /\ owes = [a \in Actors |-> 0]
    /\ pc = [t \in Threads |-> "scan"]
    /\ job = [t \in Threads |-> None]
    /\ until = [t \in Threads |-> Never]
    /\ cbs = [t \in Threads |-> {}] /\ got = [t \in Threads |-> {}]
    /\ ended = {}
    /\ now = 0

Free(a) == owes[a] = 0              \* an actor makes its tickle() calls first
At(t, place) == pc[t] = place /\ Free(t)
Goto(t, place) == pc' = [pc EXCEPT ![t] = place]

(* ++m_activeThreadCount to --m_activeThreadCount, and the same for idle. *)
Active == {t \in Threads : pc[t] \in {"run", "leave"}}
IdleThreads == {t \in Threads : pc[t] \in {"next_timer", "pending", "stopping", "wait",
                                           "expired", "push", "trigger", "less"}}

(* IOManager::tickle: nothing without idle threads, else a byte into the   *)
(* edge-triggered pipe.                                                    *)
Tickle(a) ==
    /\ owes[a] > 0
    /\ owes' = [owes EXCEPT ![a] = @ - 1]
    /\ edge' = (edge \/ IdleThreads # {})
    /\ UNCHANGED <<queue, pin, timers, m_tickled, pending, stop, threadVars, ready, now, used, held, done>>

(* schedule: a tickle() follows only if the list was empty. *)
NeedTickle == queue = {}

Schedule_WhenEmpty(a, S) ==
    /\ queue' = IF queue = {} THEN S ELSE queue
    /\ owes' = IF NeedTickle /\ S # {} THEN [owes EXCEPT ![a] = @ + 1] ELSE owes
Schedule(a, S) ==
    /\ queue' = queue \cup S
    /\ owes' = IF NeedTickle /\ S # {} THEN [owes EXCEPT ![a] = @ + 1] ELSE owes

ScheduleNew(a, pins) ==
    \E j \in Jobs \ used, t \in pins :
        /\ used' = used \cup {j}
        /\ pin' = [pin EXCEPT ![j] = t]
        /\ Schedule(a, {j})
        /\ UNCHANGED <<timers, m_tickled, pending, stop, threadVars, edge, ready, now, held, done>>

(* addTimer: a timer before all others is announced with a tickle(), once  *)
(* until the next getNextTimer.                                            *)
AtFront_Behind(x) == \E y \in timers : y < x
AtFront(x) == \A y \in timers : x < y

AddTimer(a) ==
    \E x \in Times \ used :
        /\ x > now
        /\ used' = used \cup {x}
        /\ timers' = timers \cup {x}
        /\ owes' = IF AtFront(x) /\ ~m_tickled THEN [owes EXCEPT ![a] = @ + 1] ELSE owes
        /\ m_tickled' = (m_tickled \/ AtFront(x))
        /\ UNCHANGED <<queue, pin, pending, stop, threadVars, edge, ready, now, held, done>>

-----------------------------------------------------------------------------
(* The owner of the manager. *)
MainUses ==
    /\ Free(Main) /\ ~stop
    /\ ScheduleNew(Main, Threads \cup {None}) \/ AddTimer(Main)

(* stop(): both flags, one tickle() per thread; join() follows. *)
Stop ==
    /\ Free(Main) /\ ~stop
    /\ stop' = TRUE
    /\ owes' = [owes EXCEPT ![Main] = Cardinality(Threads)]
    /\ UNCHANGED <<queue, pin, timers, m_tickled, pending, threadVars, edge, ready, now, used, held, done>>

-----------------------------------------------------------------------------
(* Scheduler::run on thread t. *)

Runnable_Pinned(k, t) == pin[k] = t
Runnable(k, t) == pin[k] \in {None, t}

(* tickle_me: tasks for others were passed over, or more are left behind. *)
TickleMe(t) ==
    owes' = IF queue' # {} THEN [owes EXCEPT ![t] = @ + 1] ELSE owes

Take(t) ==
    /\ At(t, "scan")
    /\ \E k \in queue :
        /\ Runnable(k, t)
        /\ queue' = queue \ {k}
        /\ pin' = [pin EXCEPT ![k] = None]
        /\ job' = [job EXCEPT ![t] = k]
    /\ TickleMe(t)
    /\ Goto(t, "run")
    /\ UNCHANGED <<timers, m_tickled, pending, stop, until, cbs, got, ended,
                   edge, ready, now, used, held, done>>

ScanNothing(t) ==
    /\ At(t, "scan")
    /\ ~\E k \in queue : Runnable(k, t)
    /\ UNCHANGED queue
    /\ TickleMe(t)
    /\ Goto(t, "nothing")
    /\ UNCHANGED <<pin, timers, m_tickled, pending, stop, job, until, cbs, got, ended,
                   edge, ready, now, used, held, done>>

(* Only now does the thread leave run() or count as idle. *)
Nothing(t) ==
    /\ At(t, "nothing")
    /\ Goto(t, IF t \in ended THEN "exited" ELSE "next_timer")
    /\ UNCHANGED <<queue, pin, timers, m_tickled, pending, stop, owes, job, until, cbs, got, ended,
                   edge, ready, now, used, held, done>>

(* A running job uses the manager: it schedules for any thread or for its  *)
(* own, and adds timers...                                                 *)
JobUses(t) ==
    /\ At(t, "run")
    /\ ScheduleNew(t, {None, t}) \/ AddTimer(t)

(* ... waits for an event (addEvent, then the fiber holds)... *)
JobWaits(t) ==
    /\ At(t, "run")
    /\ job[t] \in MayHold /\ job[t] \notin held
    /\ pending' = pending \cup {job[t]}
    /\ held' = held \cup {job[t]}
    /\ Goto(t, "leave")
    /\ UNCHANGED <<queue, pin, timers, m_tickled, stop, owes, job, until, cbs, got, ended,
                   edge, ready, now, used, done>>

(* ... and ends. *)
JobEnds(t) ==
    /\ At(t, "run")
    /\ done' = done \cup {job[t]}
    /\ Goto(t, "leave")
    /\ UNCHANGED <<queue, pin, timers, m_tickled, pending, stop, owes, job, until, cbs, got, ended,
                   edge, ready, now, used, held>>

(* --m_activeThreadCount *)
Leave(t) ==
    /\ At(t, "leave")
    /\ job' = [job EXCEPT ![t] = None]
    /\ Goto(t, "scan")
    /\ UNCHANGED <<queue, pin, timers, m_tickled, pending, stop, owes, until, cbs, got, ended,
                   edge, ready, now, used, held, done>>

-----------------------------------------------------------------------------
(* IOManager::idle on thread t. *)

(* stopping(timeout) asks in turn for a timer, an event, a task or a busy  *)
(* thread; each may be gone, or new, when the next is asked for.           *)
NextTimer(x) ==
    IF timers = {} THEN x = Never ELSE x \in timers /\ \A y \in timers : x <= y

Untickle == m_tickled' = FALSE

GetNextTimer(t) ==
    /\ At(t, "next_timer")
    /\ Untickle
    /\ \E x \in 0..Never : NextTimer(x) /\ until' = [until EXCEPT ![t] = x]
    /\ Goto(t, IF timers = {} THEN "pending" ELSE "wait")
    /\ UNCHANGED <<queue, pin, timers, pending, stop, owes, job, cbs, got, ended,
                   edge, ready, now, used, held, done>>

CheckPending(t) ==
    /\ At(t, "pending")
    /\ Goto(t, IF pending = {} THEN "stopping" ELSE "wait")
    /\ UNCHANGED <<queue, pin, timers, m_tickled, pending, stop, owes, job, until, cbs, got, ended,
                   edge, ready, now, used, held, done>>

MayStop_NobodyIdle == stop /\ queue = {} /\ IdleThreads = {}
MayStop == stop /\ queue = {} /\ Active = {}

CheckStopping(t) ==
    /\ At(t, "stopping")
    /\ Goto(t, IF MayStop THEN "scan" ELSE "wait")
    /\ ended' = IF MayStop THEN ended \cup {t} ELSE ended
    /\ UNCHANGED <<queue, pin, timers, m_tickled, pending, stop, owes, job, until, cbs, got,
                   edge, ready, now, used, held, done>>

(* epoll_wait returns with everything there is to report. *)
Return(t) ==
    /\ edge' = FALSE
    /\ got' = [got EXCEPT ![t] = ready]
    /\ ready' = {}
    /\ until' = [until EXCEPT ![t] = Never]
    /\ Goto(t, "expired")
    /\ UNCHANGED <<queue, pin, timers, m_tickled, pending, stop, owes, job, cbs, ended,
                   now, used, held, done>>

EpollWait(t) ==
    /\ At(t, "wait")
    /\ edge \/ ready # {} \/ until[t] <= now
    /\ Return(t)

(* MAX_TIMEOUT: three seconds are over. *)
EpollTimeout(t) ==
    /\ At(t, "wait")
    /\ Return(t)

(* listExpiredCb. *)
ListExpiredCb(t) ==
    /\ At(t, "expired")
    /\ cbs' = [cbs EXCEPT ![t] = {x \in timers : x <= now}]
    /\ timers' = {x \in timers : x > now}
    /\ Goto(t, "push")
    /\ UNCHANGED <<queue, pin, m_tickled, pending, stop, owes, job, until, got, ended,
                   edge, ready, now, used, held, done>>

ScheduleCbs(t) ==
    /\ At(t, "push")
    /\ Schedule(t, cbs[t])
    /\ cbs' = [cbs EXCEPT ![t] = {}]
    /\ Goto(t, "trigger")
    /\ UNCHANGED <<pin, timers, m_tickled, pending, stop, job, until, got, ended,
                   edge, ready, now, used, held, done>>

(* triggerEvent schedules the fiber for any thread; then the count goes    *)
(* down.                                                                   *)
TriggerEvent(t) ==
    /\ At(t, "trigger")
    /\ \E w \in got[t] :
        /\ Schedule(t, {w})
        /\ job' = [job EXCEPT ![t] = w]
        /\ got' = [got EXCEPT ![t] = @ \ {w}]
    /\ Goto(t, "less")
    /\ UNCHANGED <<pin, timers, m_tickled, pending, stop, until, cbs, ended,
                   edge, ready, now, used, held, done>>

PendingLess(t) ==
    /\ At(t, "less")
    /\ pending' = pending \ {job[t]}
    /\ job' = [job EXCEPT ![t] = None]
    /\ Goto(t, "trigger")
    /\ UNCHANGED <<queue, pin, timers, m_tickled, stop, owes, until, cbs, got, ended,
                   edge, ready, now, used, held, done>>

(* swapOut to run(): look for tasks again. *)
Yield(t) ==
    /\ At(t, "trigger")
    /\ got[t] = {}
    /\ Goto(t, "scan")
    /\ UNCHANGED <<queue, pin, timers, m_tickled, pending, stop, owes, job, until, cbs, got, ended,
                   edge, ready, now, used, held, done>>

-----------------------------------------------------------------------------
(* External: time passes, an awaited event happens. *)
Tick ==
    /\ now < MaxTime
    /\ now' = now + 1
    /\ UNCHANGED <<queue, pin, timers, m_tickled, pending, stop, owes, threadVars,
                   edge, ready, used, held, done>>

EventHappens ==
    /\ \E w \in pending :
        /\ w \notin ready /\ \A t \in Threads : w \notin got[t] /\ job[t] # w
        /\ ready' = ready \cup {w}
    /\ UNCHANGED <<queue, pin, timers, m_tickled, pending, stop, owes, threadVars,
                   edge, now, used, held, done>>

RunStep(t) == Take(t) \/ ScanNothing(t) \/ Nothing(t) \/ JobWaits(t) \/ JobEnds(t) \/ Leave(t)

IdleStep(t) ==
    \/ GetNextTimer(t) \/ CheckPending(t) \/ CheckStopping(t)
    \/ EpollWait(t) \/ EpollTimeout(t) \/ ListExpiredCb(t) \/ ScheduleCbs(t)
    \/ TriggerEvent(t) \/ PendingLess(t) \/ Yield(t)

Joined == stop /\ Free(Main) /\ \A t \in Threads : pc[t] = "exited"
Halted == Joined /\ UNCHANGED vars

Next ==
    \/ MainUses \/ Stop \/ (\E a \in Actors : Tickle(a))
    \/ \E t \in Threads : RunStep(t) \/ JobUses(t) \/ IdleStep(t)
    \/ Tick \/ EventHappens \/ Halted

Spec == Init /\ [][Next]_vars

(* Threads are never starved, jobs end, and time passes.  The owner need   *)
(* not stop, jobs need not use the manager, events need not happen.        *)
Fairness ==
    /\ WF_vars(Tick)
    /\ \A a \in Actors : WF_vars(Tickle(a))
    /\ \A t \in Threads : WF_vars(RunStep(t)) /\ WF_vars(IdleStep(t))

FairSpec == Spec /\ Fairness

-----------------------------------------------------------------------------
(* Every variable holds a value of its type: a thread never owes less than *)
(* no tickle() call, and getNextTimer's answer is a time or "never".       *)
TypeOK ==
    /\ queue \subseteq Tasks /\ timers \subseteq Times /\ pending \subseteq MayHold
    /\ ready \subseteq MayHold /\ used \subseteq Tasks /\ held \subseteq MayHold /\ done \subseteq Tasks
    /\ pin \in [Tasks -> Threads \cup {None}]
    /\ m_tickled \in BOOLEAN /\ stop \in BOOLEAN /\ edge \in BOOLEAN
    /\ owes \in [Actors -> Nat]
    /\ pc \in [Threads -> {"scan", "run", "leave", "nothing", "exited", "next_timer", "pending",
                           "stopping", "wait", "expired", "push", "trigger", "less"}]
    /\ job \in [Threads -> Tasks \cup {None}]
    /\ until \in [Threads -> 1..Never]
    /\ cbs \in [Threads -> SUBSET Times] /\ got \in [Threads -> SUBSET MayHold]
    /\ ended \subseteq Threads
    /\ now \in 0..MaxTime

AllExited == \A t \in Threads : pc[t] = "exited"

(* When the last thread has left run(), every task ever scheduled has      *)
(* ended, also one that was scheduled after other threads' idle fibers     *)
(* had ended: only what waits for a timer or an event can be left.         *)
NoTaskLeft == AllExited => queue = {} /\ used \ (timers \cup pending) \subseteq done

(* Every thread sleeps or has left, at least one sleeps, and nothing is on *)
(* its way to wake it.                                                     *)
AllAsleep ==
    /\ \A t \in Threads : pc[t] \in {"wait", "exited"}
    /\ ~AllExited
    /\ \A a \in Actors : Free(a)
    /\ ~edge

(* When all threads sleep, one of them wakes up for the earliest timer:    *)
(* onTimerInsertedAtFront may be skipped while m_tickled is up, and a      *)
(* tickle() without idle threads does nothing, yet no timer is overslept.  *)
TimerCovered ==
    AllAsleep => \A x \in timers : \E t \in Threads : pc[t] = "wait" /\ until[t] <= x

(* Every scheduled task runs until it ends or waits for an event, if need  *)
(* be after a timeout of epoll_wait.                                       *)
TasksEnd == \A k \in Tasks : k \in queue ~> k \in done \cup pending

(* A timer's callback runs, unless stop() has overtaken it. *)
TimersEnd == \A x \in Times : x \in timers ~> x \in done \/ AllExited

(* stop() returns if the events that are waited for happen. *)
StopReturns == <>[](stop /\ pending = {}) => <>Joined
=============================================================================
