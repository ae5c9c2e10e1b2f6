------------------------------ MODULE TaskPool ------------------------------
(***************************************************************************)
(* What a sylar::Scheduler promises the code that calls schedule() and     *)
(* stop(), with threads, lists, fibers and counters left out: a job waits, *)
(* is executed by one thread at a time, possibly in several pieces, ends   *)
(* once, and the pool closes only when nothing is left.                    *)
(***************************************************************************)
EXTENDS Naturals

CONSTANTS
    Jobs,       \* the functions handed to schedule()
    Threads,    \* the threads that may execute them
    None        \* no job

VARIABLES
    waiting,    \* accepted jobs that no thread is executing
    running,    \* the job each thread executes
    ended,      \* jobs that returned or threw
    closed      \* stop() has returned

poolVars == <<waiting, running, ended, closed>>

Executing == {running[t] : t \in Threads} \ {None}
Known == waiting \cup Executing \cup ended

PoolInit ==
    /\ waiting = {} /\ ended = {}
    /\ running = [t \in Threads |-> None]
    /\ closed = FALSE

Accept(j) ==
    /\ ~closed
    /\ j \notin Known
    /\ waiting' = waiting \cup {j}
    /\ UNCHANGED <<running, ended, closed>>

Take(t, j) ==
    /\ running[t] = None
    /\ j \in waiting
    /\ running' = [running EXCEPT ![t] = j]
    /\ waiting' = waiting \ {j}
    /\ UNCHANGED <<ended, closed>>

PutBack(t) ==
    /\ running[t] # None
    /\ waiting' = waiting \cup {running[t]}
    /\ running' = [running EXCEPT ![t] = None]
    /\ UNCHANGED <<ended, closed>>

End(t) ==
    /\ running[t] # None
    /\ ended' = ended \cup {running[t]}
    /\ running' = [running EXCEPT ![t] = None]
    /\ UNCHANGED <<waiting, closed>>

Close ==
    /\ waiting = {} /\ Executing = {}
    /\ closed' = TRUE
    /\ UNCHANGED <<waiting, running, ended>>

PoolNext ==
    \/ \E j \in Jobs : Accept(j)
    \/ \E t \in Threads, j \in Jobs : Take(t, j)
    \/ \E t \in Threads : PutBack(t) \/ End(t)
    \/ Close

PoolSpec == PoolInit /\ [][PoolNext]_poolVars
=============================================================================
