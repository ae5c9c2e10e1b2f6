----------------------------- MODULE Scheduler -----------------------------
(***************************************************************************)
(* sylar::Scheduler (sylar/scheduler.h, sylar/scheduler.cpp) and the       *)
(* sylar::Fiber state machine it drives (sylar/fiber.cpp): an N-M          *)
(* scheduler.  A pool of worker threads, and with use_caller the           *)
(* constructing thread too, run Scheduler::run over one shared list of     *)
(* tasks.  A task is a fiber or a callback; a callback runs on the         *)
(* thread's reusable cb_fiber.                                             *)
(*                                                                         *)
(* A step is a critical section of m_mutex, or one access to a word that   *)
(* other threads reach without the lock: Fiber::m_state, which             *)
(* Fiber::YiledToHold and Fiber::YiledToReady write before swapcontext     *)
(* saves the fiber, and the atomic counters.  tickle() is virtual: the     *)
(* base version only logs; IOManager's is in module IdleLoop.              *)
(***************************************************************************)
EXTENDS Integers, Sequences, FiniteSets, SequencesExt

CONSTANTS
    Workers,    \* the threads start() creates: m_threadCount is their number
    Root,       \* the thread that constructs the scheduler and calls start and stop
    UseCaller,  \* the constructor's use_caller
    Jobs,       \* the functions users hand to schedule()
    FiberIds,   \* the fiber objects that may get created
    MaxReady,   \* bound: YiledToReady calls of one job
    MaxHold,    \* bound: YiledToHold calls of one job
    Spawns,     \* bound: may a running job call schedule()?
    None        \* the null pointer, and the thread id -1

ASSUME SchedulerAssumption ==
    /\ IsFiniteSet(Workers) /\ Root \notin Workers /\ None \notin Workers \cup {Root}
    /\ UseCaller \in BOOLEAN /\ Spawns \in BOOLEAN
    /\ IsFiniteSet(Jobs) /\ IsFiniteSet(FiberIds)
    /\ None \notin Jobs /\ None \notin FiberIds
    /\ MaxReady \in Nat /\ MaxHold \in Nat
    /\ UseCaller \/ Workers # {}            \* SYLAR_ASSERT(threads > 0)

(* The threads that execute Scheduler::run. *)
Threads == IF UseCaller THEN Workers \cup {Root} ELSE Workers

State == {"INIT", "HOLD", "EXEC", "TERM", "READY", "EXCEPT"}
Ended == {"TERM", "EXCEPT"}

FiberAndThread == [fiber : FiberIds \cup {None}, cb : Jobs \cup {None},
                   thread : Threads \cup {None}]

VARIABLES
    m_fibers,             \* the task list
    m_activeThreadCount,
    m_idleThreadCount,
    m_stopping,
    m_autoStop,
    m_state,              \* Fiber::m_state of every fiber object
    m_cb,                 \* Fiber::m_cb: the job a fiber object runs, None when it has none
    created,              \* fiber objects constructed so far
    pc,                   \* where each thread is in run(); "off" outside it
    ft,                   \* run()'s local ft
    cb_fiber,             \* run()'s local cb_fiber
    cur,                  \* t_fiber: the fiber whose stack the thread is on
    seen,                 \* the state run() read after the fiber came back
    idle_state,           \* m_state of the thread's idle fiber
    main,                 \* where the Root thread is in start() and stop()
    armed,                \* fibers some event or timer will schedule again
    aborted               \* an assertion failed (assert() ends the process)

schedVars == <<m_fibers, m_activeThreadCount, m_idleThreadCount, m_stopping, m_autoStop>>
fiberVars == <<m_state, m_cb, created>>
threadVars == <<pc, ft, cb_fiber, cur, seen, idle_state>>

VARIABLES
    submitted,            \* jobs handed to schedule() so far
    pin,                  \* the thread argument a job was scheduled with
    readies, holds,       \* yields each job has made, for the bounds
    started, done         \* jobs that began, and that returned or threw

jobVars == <<submitted, pin, readies, holds, started, done>>
vars == <<schedVars, fiberVars, threadVars, main, armed, aborted, jobVars>>

-----------------------------------------------------------------------------
NoTask == [fiber |-> None, cb |-> None, thread |-> None]
FiberTask(f, t) == [fiber |-> f, cb |-> None, thread |-> t]
CbTask(j, t) == [fiber |-> None, cb |-> j, thread |-> t]

Init ==
    /\ m_fibers = <<>>
    /\ m_activeThreadCount = 0 /\ m_idleThreadCount = 0
    /\ m_stopping = TRUE /\ m_autoStop = FALSE
    /\ m_state = [f \in FiberIds |-> "INIT"]
    /\ m_cb = [f \in FiberIds |-> None]
    /\ created = {}
    /\ pc = [t \in Threads |-> "off"]
    /\ ft = [t \in Threads |-> NoTask]
    /\ cb_fiber = [t \in Threads |-> None]
    /\ cur = [t \in Threads |-> None]
    /\ seen = [t \in Threads |-> "INIT"]
    /\ idle_state = [t \in Threads |-> "INIT"]
    /\ main = "constructed"
    /\ armed = {} /\ aborted = FALSE
    /\ submitted = {} /\ started = {} /\ done = {}
    /\ pin = [j \in Jobs |-> None]
    /\ readies = [j \in Jobs |-> 0] /\ holds = [j \in Jobs |-> 0]

(* Scheduler::stopping(), evaluated under m_mutex. *)
stopping_NoActive ==
    m_autoStop /\ m_stopping /\ m_fibers = <<>>
stopping_TasksLeft ==
    m_autoStop /\ m_stopping /\ m_activeThreadCount = 0
stopping ==
    m_autoStop /\ m_stopping /\ m_fibers = <<>> /\ m_activeThreadCount = 0

(* scheduleNoLock for a task the caller built.  need_tickle only feeds the *)
(* base tickle(), which does nothing.                                      *)
Schedule(task) == m_fibers' = Append(m_fibers, task)

(* ++ and -- on the atomic counters. *)
ActiveMore == m_activeThreadCount' = m_activeThreadCount + 1
ActiveLess_Forgotten == UNCHANGED m_activeThreadCount
ActiveLess == m_activeThreadCount' = m_activeThreadCount - 1
IdleMore == m_idleThreadCount' = m_idleThreadCount + 1
IdleLess == m_idleThreadCount' = m_idleThreadCount - 1

(* A failed SYLAR_ASSERT: the process is gone. *)
Abort == aborted' = TRUE

(* A new Fiber(job) takes an object no one has. *)
NewFiber(f, j) ==
    /\ f \in FiberIds \ created
    /\ created' = created \cup {f}
    /\ m_cb' = [m_cb EXCEPT ![f] = j]

(* schedule(Fiber) of a fresh fiber, or schedule(cb), with a thread id or -1. *)
Submit(j, t) ==
    /\ j \notin submitted
    /\ submitted' = submitted \cup {j}
    /\ pin' = [pin EXCEPT ![j] = t]
    /\ \/ /\ Schedule(CbTask(j, t))
          /\ UNCHANGED fiberVars
       \/ \E f \in FiberIds :
            /\ NewFiber(f, j)
            /\ Schedule(FiberTask(f, t))
            /\ UNCHANGED m_state
    /\ UNCHANGED <<readies, holds, started, done>>

-----------------------------------------------------------------------------
(* The Root thread: schedule(), start(), stop(). *)

(* The user schedules before stop(); with or without start() having run. *)
MainSchedule ==
    /\ main \in {"constructed", "started"}
    /\ \E j \in Jobs, t \in Threads \cup {None} : Submit(j, t)
    /\ UNCHANGED <<m_activeThreadCount, m_idleThreadCount, m_stopping, m_autoStop,
                   threadVars, main, armed, aborted>>

(* start(): the workers are created under m_mutex, so none of them passes  *)
(* the first lock of run() before m_stopping is down.                      *)
Start ==
    /\ main = "constructed"
    /\ m_stopping
    /\ m_stopping' = FALSE
    /\ pc' = [t \in Threads |-> IF t \in Workers THEN "pick" ELSE pc[t]]
    /\ main' = "started"
    /\ UNCHANGED <<m_fibers, m_activeThreadCount, m_idleThreadCount, m_autoStop, fiberVars,
                   ft, cb_fiber, cur, seen, idle_state, armed, aborted, jobVars>>

AutoStop == m_autoStop' = TRUE

(* stop(): m_autoStop, then the shortcut of a scheduler that only has its  *)
(* caller thread and whose root fiber never ran.                           *)
StopAuto ==
    /\ main = "started"
    /\ AutoStop
    /\ main' = IF UseCaller /\ Workers = {} THEN "stop_caller_only" ELSE "stop_set"
    /\ UNCHANGED <<m_fibers, m_activeThreadCount, m_idleThreadCount, m_stopping,
                   fiberVars, threadVars, armed, aborted, jobVars>>

StopCallerOnly ==
    /\ main = "stop_caller_only"
    /\ m_stopping' = TRUE
    /\ UNCHANGED <<m_fibers, m_activeThreadCount, m_idleThreadCount, m_autoStop,
                   fiberVars, threadVars, armed, aborted, jobVars>>
    /\ main' = IF stopping' THEN "stopped" ELSE "stop_set"

StopSet_FlagDown ==
    /\ main = "stop_set"
    /\ main' = IF UseCaller THEN "stop_call" ELSE "join"
    /\ UNCHANGED <<schedVars, fiberVars, threadVars, armed, aborted, jobVars>>

StopSet ==
    /\ main = "stop_set"
    /\ m_stopping' = TRUE
    /\ main' = IF UseCaller THEN "stop_call" ELSE "join"
    /\ UNCHANGED <<m_fibers, m_activeThreadCount, m_idleThreadCount, m_autoStop,
                   fiberVars, threadVars, armed, aborted, jobVars>>

CallsRoot == ~stopping

(* if(!stopping()) m_rootFiber->call(): the root fiber executes run(). *)
StopCall ==
    /\ main = "stop_call"
    /\ IF ~CallsRoot THEN main' = "join" /\ UNCHANGED pc
       ELSE main' = "root_running" /\ pc' = [pc EXCEPT ![Root] = "pick"]
    /\ UNCHANGED <<schedVars, fiberVars, ft, cb_fiber, cur, seen, idle_state,
                   armed, aborted, jobVars>>

RootReturns ==
    /\ main = "root_running"
    /\ pc[Root] = "exited"
    /\ main' = "join"
    /\ UNCHANGED <<schedVars, fiberVars, threadVars, armed, aborted, jobVars>>

(* join() of every worker. *)
Join ==
    /\ main = "join"
    /\ \A t \in Workers : pc[t] = "exited"
    /\ main' = "stopped"
    /\ UNCHANGED <<schedVars, fiberVars, threadVars, armed, aborted, jobVars>>

-----------------------------------------------------------------------------
(* Scheduler::run on thread t. *)

(* The entry the scan stops at: meant for t or for anyone, and not a fiber *)
(* that is executing.                                                      *)
Runnable(task, t) ==
    /\ task.thread \in {None, t}
    /\ ~(task.fiber # None /\ m_state[task.fiber] = "EXEC")

FirstRunnable(t, i) ==
    /\ i \in DOMAIN m_fibers
    /\ Runnable(m_fibers[i], t)
    /\ \A k \in 1..(i - 1) : ~Runnable(m_fibers[k], t)

(* m_fibers.erase(it) *)
Erase_Not(i) == UNCHANGED m_fibers
Erase(i) == m_fibers' = RemoveAt(m_fibers, i)

(* One critical section: the first runnable task leaves the list and the   *)
(* thread counts as active.                                                *)
PickTask(t) ==
    /\ pc[t] = "pick"
    /\ \E i \in DOMAIN m_fibers :
        /\ FirstRunnable(t, i)
        /\ ft' = [ft EXCEPT ![t] = m_fibers[i]]
        /\ Erase(i)
    /\ ActiveMore
    /\ pc' = [pc EXCEPT ![t] = "dispatch"]
    /\ UNCHANGED <<m_idleThreadCount, m_stopping, m_autoStop, fiberVars, cb_fiber, cur,
                   seen, idle_state, main, armed, aborted, jobVars>>

(* Nothing for this thread: leave run() if the idle fiber has ended, else  *)
(* count as idle and switch to it.                                         *)
PickNothing(t) ==
    /\ pc[t] = "pick"
    /\ ~\E i \in DOMAIN m_fibers : Runnable(m_fibers[i], t)
    /\ IF idle_state[t] = "TERM"
       THEN pc' = [pc EXCEPT ![t] = "exited"] /\ UNCHANGED m_idleThreadCount
       ELSE pc' = [pc EXCEPT ![t] = "idle"] /\ IdleMore
    /\ UNCHANGED <<m_fibers, m_activeThreadCount, m_stopping, m_autoStop, fiberVars, ft,
                   cb_fiber, cur, seen, idle_state, main, armed, aborted, jobVars>>

(* Scheduler::idle: one look at stopping() per visit; the idle fiber       *)
(* either returns or yields to run().                                      *)
Idle(t) ==
    /\ pc[t] = "idle"
    /\ idle_state' = [idle_state EXCEPT ![t] = IF stopping THEN "TERM" ELSE "HOLD"]
    /\ IdleLess
    /\ pc' = [pc EXCEPT ![t] = "pick"]
    /\ UNCHANGED <<m_fibers, m_activeThreadCount, m_stopping, m_autoStop, fiberVars, ft,
                   cb_fiber, cur, seen, main, armed, aborted, jobVars>>

(* Fiber::swapIn: the state must not be EXEC; the thread is on f's stack. *)
SwapIn(t, f) ==
    /\ cur' = [cur EXCEPT ![t] = f]
    /\ pc' = [pc EXCEPT ![t] = "exec"]
    /\ started' = started \cup ({m_cb'[f]} \ {None})

DispatchFiber(t) ==
    LET f == ft[t].fiber IN
    /\ pc[t] = "dispatch"
    /\ f # None
    /\ m_state[f] \notin Ended
    /\ UNCHANGED <<m_cb, created>>
    /\ IF m_state[f] = "EXEC"
       THEN Abort /\ UNCHANGED <<m_state, cur, pc, started>>
       ELSE /\ m_state' = [m_state EXCEPT ![f] = "EXEC"]
            /\ SwapIn(t, f)
            /\ UNCHANGED aborted
    /\ UNCHANGED <<schedVars, ft, cb_fiber, seen, idle_state, main, armed,
                   submitted, pin, readies, holds, done>>

(* The fiber ended while its entry was queued: drop it. *)
DispatchEnded(t) ==
    /\ pc[t] = "dispatch"
    /\ ft[t].fiber # None
    /\ m_state[ft[t].fiber] \in Ended
    /\ ActiveLess
    /\ ft' = [ft EXCEPT ![t] = NoTask]
    /\ pc' = [pc EXCEPT ![t] = "pick"]
    /\ UNCHANGED <<m_fibers, m_idleThreadCount, m_stopping, m_autoStop, fiberVars, cb_fiber,
                   cur, seen, idle_state, main, armed, aborted, jobVars>>

(* A callback runs on the thread's cb_fiber: Fiber::reset of the one it    *)
(* has, which must be INIT or ended, or a new Fiber.                       *)
DispatchCb(t) ==
    LET c == cb_fiber[t]
        job == ft[t].cb
    IN
    /\ pc[t] = "dispatch"
    /\ job # None
    /\ \/ /\ c # None
          /\ IF m_state[c] \in Ended \cup {"INIT"}
             THEN /\ m_cb' = [m_cb EXCEPT ![c] = job]
                  /\ m_state' = [m_state EXCEPT ![c] = "EXEC"]
                  /\ SwapIn(t, c)
                  /\ ft' = [ft EXCEPT ![t] = NoTask]
                  /\ UNCHANGED aborted
             ELSE Abort /\ UNCHANGED <<m_cb, m_state, ft, cur, pc, started>>
          /\ UNCHANGED <<cb_fiber, created>>
       \/ /\ c = None
          /\ \E f \in FiberIds :
                /\ NewFiber(f, job)
                /\ m_state' = [m_state EXCEPT ![f] = "EXEC"]
                /\ cb_fiber' = [cb_fiber EXCEPT ![t] = f]
                /\ SwapIn(t, f)
          /\ ft' = [ft EXCEPT ![t] = NoTask]
          /\ UNCHANGED aborted
    /\ UNCHANGED <<schedVars, seen, idle_state, main, armed,
                   submitted, pin, readies, holds, done>>

-----------------------------------------------------------------------------
(* The running fiber: MainFunc around the user's function. *)

(* The function returns: m_cb is cleared and the state is TERM; or it      *)
(* throws: EXCEPT.  An empty m_cb throws bad_function_call.                *)
Finish(t) ==
    LET f == cur[t] IN
    /\ pc[t] = "exec"
    /\ \/ /\ m_cb[f] # None
          /\ m_state' = [m_state EXCEPT ![f] = "TERM"]
          /\ m_cb' = [m_cb EXCEPT ![f] = None]
       \/ /\ m_state' = [m_state EXCEPT ![f] = "EXCEPT"]
          /\ UNCHANGED m_cb
    /\ done' = done \cup ({m_cb[f]} \ {None})
    /\ pc' = [pc EXCEPT ![t] = "back"]
    /\ UNCHANGED <<schedVars, created, ft, cb_fiber, cur, seen, idle_state, main, armed,
                   aborted, submitted, pin, readies, holds, started>>

(* YiledToReady and YiledToHold: assert EXEC, write the new state; the     *)
(* stack is still in use until SwapOut.                                    *)
YieldTo(t, state) ==
    LET f == cur[t] IN
    IF m_state[f] # "EXEC"
    THEN Abort /\ UNCHANGED <<m_state, pc>>
    ELSE /\ m_state' = [m_state EXCEPT ![f] = state]
         /\ pc' = [pc EXCEPT ![t] = "leaving"]
         /\ UNCHANGED aborted

YiledToReady(t) ==
    /\ pc[t] = "exec" /\ m_cb[cur[t]] # None
    /\ cur[t] \notin armed
    /\ readies[m_cb[cur[t]]] < MaxReady
    /\ readies' = [readies EXCEPT ![m_cb[cur[t]]] = @ + 1]
    /\ YieldTo(t, "READY")
    /\ UNCHANGED <<schedVars, m_cb, created, ft, cb_fiber, cur, seen, idle_state, main, armed,
                   submitted, pin, holds, started, done>>

(* A fiber that will hold first hands itself to an event or a timer        *)
(* (addEvent, addTimer): from then on Wake may schedule it.                *)
Arm(t) ==
    /\ pc[t] = "exec" /\ m_cb[cur[t]] # None
    /\ holds[m_cb[cur[t]]] < MaxHold
    /\ holds' = [holds EXCEPT ![m_cb[cur[t]]] = @ + 1]
    /\ armed' = armed \cup {cur[t]}
    /\ pc' = [pc EXCEPT ![t] = "holding"]
    /\ UNCHANGED <<schedVars, fiberVars, ft, cb_fiber, cur, seen, idle_state, main, aborted,
                   submitted, pin, readies, started, done>>

YiledToHold(t) ==
    /\ pc[t] = "holding"
    /\ YieldTo(t, "HOLD")
    /\ UNCHANGED <<schedVars, m_cb, created, ft, cb_fiber, cur, seen, idle_state, main, armed,
                   jobVars>>

(* The event or timer schedules the fiber, from whatever thread. *)
Wake(f) ==
    /\ f \in armed
    /\ armed' = armed \ {f}
    /\ Schedule(FiberTask(f, None))
    /\ UNCHANGED <<m_activeThreadCount, m_idleThreadCount, m_stopping, m_autoStop, fiberVars,
                   threadVars, main, aborted, jobVars>>

(* A running job schedules another one. *)
JobSchedules(t) ==
    /\ Spawns
    /\ pc[t] = "exec"
    /\ \E j \in Jobs, p \in Threads \cup {None} : Submit(j, p)
    /\ UNCHANGED <<m_activeThreadCount, m_idleThreadCount, m_stopping, m_autoStop,
                   threadVars, main, armed, aborted>>

(* A running job schedules its own fiber; bound: once while it is queued. *)
SelfSchedule(t) ==
    /\ Spawns
    /\ pc[t] = "exec" /\ m_cb[cur[t]] # None
    /\ \A i \in DOMAIN m_fibers : m_fibers[i].fiber # cur[t]
    /\ Schedule(FiberTask(cur[t], None))
    /\ UNCHANGED <<m_activeThreadCount, m_idleThreadCount, m_stopping, m_autoStop, fiberVars,
                   threadVars, main, armed, aborted, jobVars>>

(* Fiber::swapOut: swapcontext saves the stack and run() continues. *)
SwapOut(t) ==
    /\ pc[t] = "leaving"
    /\ pc' = [pc EXCEPT ![t] = "back"]
    /\ UNCHANGED <<schedVars, fiberVars, ft, cb_fiber, cur, seen, idle_state, main, armed,
                   aborted, jobVars>>

-----------------------------------------------------------------------------
(* run() after swapIn returned. *)

(* --m_activeThreadCount, then the fiber's state is read. *)
Back(t) ==
    /\ pc[t] = "back"
    /\ ActiveLess
    /\ seen' = [seen EXCEPT ![t] = m_state[cur[t]]]
    /\ pc' = [pc EXCEPT ![t] = "after"]
    /\ UNCHANGED <<m_fibers, m_idleThreadCount, m_stopping, m_autoStop, fiberVars, ft, cb_fiber,
                   cur, idle_state, main, armed, aborted, jobVars>>

(* A fiber that came back READY is scheduled again, for any thread. *)
Reschedules_Never(t) == FALSE
Reschedules(t) == seen[t] = "READY"

(* The cb_fiber that ran a callback is kept for the next one only if it    *)
(* ended, and then emptied by Fiber::reset(nullptr).                       *)
KeepsCbFiber_Always(t) == ft[t].fiber = None
KeepsCbFiber(t) == ft[t].fiber = None /\ seen[t] \in Ended

(* Any state but READY, TERM and EXCEPT becomes HOLD. *)
StateAfter(t) ==
    CASE seen[t] = "READY" -> m_state[cur[t]]
      [] KeepsCbFiber(t) -> "INIT"
      [] seen[t] \in Ended /\ ~KeepsCbFiber(t) -> m_state[cur[t]]
      [] OTHER -> "HOLD"

After(t) ==
    LET f == cur[t] IN
    /\ pc[t] = "after"
    /\ IF Reschedules(t) THEN Schedule(FiberTask(f, None)) ELSE UNCHANGED m_fibers
    /\ m_state' = [m_state EXCEPT ![f] = StateAfter(t)]
    /\ m_cb' = IF KeepsCbFiber(t) THEN [m_cb EXCEPT ![f] = None] ELSE m_cb
    /\ cb_fiber' = IF ft[t].fiber = None /\ ~KeepsCbFiber(t)
                   THEN [cb_fiber EXCEPT ![t] = None] ELSE cb_fiber
    /\ ft' = [ft EXCEPT ![t] = NoTask]
    /\ cur' = [cur EXCEPT ![t] = None]
    /\ pc' = [pc EXCEPT ![t] = "pick"]
    /\ UNCHANGED <<m_activeThreadCount, m_idleThreadCount, m_stopping, m_autoStop, created, seen,
                   idle_state, main, armed, aborted, jobVars>>

-----------------------------------------------------------------------------
MainStep ==
    /\ ~aborted
    /\ Start \/ StopAuto \/ StopCallerOnly \/ StopSet \/ StopCall \/ RootReturns \/ Join

RunStep(t) ==
    /\ ~aborted
    /\ \/ PickTask(t) \/ PickNothing(t) \/ Idle(t)
       \/ DispatchFiber(t) \/ DispatchEnded(t) \/ DispatchCb(t)
       \/ Finish(t) \/ YiledToReady(t) \/ Arm(t) \/ YiledToHold(t) \/ SwapOut(t)
       \/ Back(t) \/ After(t)

(* Users and events: they schedule when they like. *)
EnvStep ==
    /\ ~aborted
    /\ \/ MainSchedule
       \/ \E t \in Threads : JobSchedules(t) \/ SelfSchedule(t)
       \/ \E f \in FiberIds : Wake(f)

(* stop() has returned, or the process is gone. *)
Halted ==
    /\ main = "stopped" \/ aborted
    /\ UNCHANGED vars

Next == MainStep \/ (\E t \in Threads : RunStep(t)) \/ EnvStep \/ Halted

Spec == Init /\ [][Next]_vars

(* Threads are preempted but never starved, a user's function returns or   *)
(* throws after finitely many yields, and the program that starts a        *)
(* scheduler also stops it.                                                *)
Fairness == WF_vars(MainStep) /\ \A t \in Threads : WF_vars(RunStep(t))

FairSpec == Spec /\ Fairness

-----------------------------------------------------------------------------
(* Properties. *)

SchedTypeOK ==
    /\ m_fibers \in Seq(FiberAndThread)
    /\ m_activeThreadCount \in Nat /\ m_idleThreadCount \in Nat
    /\ m_stopping \in BOOLEAN /\ m_autoStop \in BOOLEAN /\ aborted \in BOOLEAN
    /\ main \in {"constructed", "started", "stop_caller_only", "stop_set", "stop_call",
                 "root_running", "join", "stopped"}

FiberTypeOK ==
    /\ m_state \in [FiberIds -> State]
    /\ m_cb \in [FiberIds -> Jobs \cup {None}]
    /\ created \in SUBSET FiberIds /\ armed \in SUBSET FiberIds

ThreadTypeOK ==
    /\ pc \in [Threads -> {"off", "pick", "idle", "dispatch", "exec", "holding", "leaving",
                           "back", "after", "exited"}]
    /\ ft \in [Threads -> FiberAndThread]
    /\ cb_fiber \in [Threads -> FiberIds \cup {None}]
    /\ cur \in [Threads -> FiberIds \cup {None}]
    /\ seen \in [Threads -> State]
    /\ idle_state \in [Threads -> State]

JobTypeOK ==
    /\ submitted \in SUBSET Jobs /\ started \in SUBSET Jobs /\ done \in SUBSET Jobs
    /\ pin \in [Jobs -> Threads \cup {None}]
    /\ readies \in [Jobs -> Nat] /\ holds \in [Jobs -> Nat]

(* Every variable holds a value of its C++ type; the counters are size_t,  *)
(* so a -- too many would wrap around.                                     *)
TypeOK == SchedTypeOK /\ FiberTypeOK /\ ThreadTypeOK /\ JobTypeOK

(* The threads that hold a task they took from the list. *)
Busy == {t \in Threads : pc[t] \in {"dispatch", "exec", "holding", "leaving", "back"}}
IdleThreads == {t \in Threads : pc[t] = "idle"}

(* The two atomic counters run() keeps with ++ and -- on every path are    *)
(* exactly the numbers of threads that hold a task and that sit in the     *)
(* idle fiber: stopping() and IOManager::tickle decide by them.            *)
CountersExact ==
    /\ m_activeThreadCount = Cardinality(Busy)
    /\ m_idleThreadCount = Cardinality(IdleThreads)

(* A fiber's stack is in use on thread t. *)
OnStack(t, f) == cur[t] = f /\ pc[t] \in {"exec", "holding", "leaving"}

(* No fiber executes on two threads at once (run() skips EXEC fibers). *)
OneThreadPerFiber ==
    \A t, u \in Threads, f \in FiberIds : OnStack(t, f) /\ OnStack(u, f) => t = u

(* None of the assertions in Fiber::swapIn, Fiber::YiledToHold,            *)
(* Fiber::YiledToReady and Fiber::reset fails.                             *)
AssertionsHold == ~aborted

(* A job that was scheduled and has not ended is in the list, in the hands *)
(* of a thread, or on a fiber that an event will schedule: run() never     *)
(* drops one, whatever the fiber's state was when it came back.            *)
NoJobLost ==
    \A j \in submitted \ done :
        \/ \E i \in DOMAIN m_fibers :
              m_fibers[i].cb = j \/ (m_fibers[i].fiber # None /\ m_cb[m_fibers[i].fiber] = j)
        \/ \E t \in Threads :
              \/ pc[t] = "dispatch" /\ ft[t].cb = j
              \/ pc[t] = "dispatch" /\ ft[t].fiber # None /\ m_cb[ft[t].fiber] = j
              \/ pc[t] \in {"exec", "holding", "leaving", "back", "after"} /\ m_cb[cur[t]] = j
        \/ \E f \in armed : m_cb[f] = j

(* stop() returns only when every job scheduled before it has ended (jobs  *)
(* that only yield to READY: a held one is invisible to the base class).   *)
StopWaitsForJobs == main = "stopped" => submitted \subseteq done /\ m_fibers = <<>>

(* A thread's idle fiber ends, and the thread then leaves run(), only in a *)
(* state where the list is empty and no thread holds a task: what the      *)
(* counter test in stopping() is for.                                      *)
QuietExit ==
    [][\A t \in Threads : idle_state[t] # "TERM" /\ idle_state'[t] = "TERM"
                           => m_fibers = <<>> /\ Busy = {}]_vars

(* Every job handed to schedule() ends, also one that is scheduled while   *)
(* the threads look for work or stop() is under way.                       *)
JobsEnd == \A j \in Jobs : j \in submitted ~> j \in done

(* stop() returns: each thread sees, sooner or later, an empty list and no *)
(* active thread, the calling thread inside its root fiber included.       *)
StopReturns == main = "stop_set" ~> main = "stopped"

-----------------------------------------------------------------------------
(* The scheduler seen as a TaskPool: a thread executes a job while it is   *)
(* on the stack of the job's fiber.                                        *)
JobOn(t) == IF cur[t] # None /\ OnStack(t, cur[t]) THEN m_cb[cur[t]] ELSE None

Pool == INSTANCE TaskPool WITH
    waiting <- (submitted \ done) \ {JobOn(t) : t \in Threads},
    running <- [t \in Threads |-> JobOn(t)],
    ended <- done,
    closed <- main = "stopped"

(* As long as jobs only yield to READY, every behaviour of start(), run()  *)
(* and stop() is a behaviour of the abstract pool: no job is executed by   *)
(* two threads, again after it ended, or left behind by stop().            *)
ImplementsPool == Pool!PoolSpec
=============================================================================
