---------------------------- MODULE TimerManager ----------------------------
(***************************************************************************)
(* sylar::Timer and sylar::TimerManager (sylar/timer.h, sylar/timer.cpp):  *)
(* the ordered set of timers behind one RWMutex.  Several threads add,     *)
(* cancel, refresh and reset timers and collect the expired ones.          *)
(*                                                                         *)
(* A step is one critical section, or one of the reads the code makes      *)
(* before it takes the lock: the clock in the Timer constructor and in     *)
(* listExpiredCb, m_ms in reset, and listExpiredCb's first look under the  *)
(* read lock.  The virtual call onTimerInsertedAtFront that may follow     *)
(* addTimer is in module IdleLoop.                                         *)
(***************************************************************************)
EXTENDS Integers, FiniteSets

CONSTANTS
    Timers,     \* the Timer objects that may be created
    Threads,    \* the threads that call into the manager
    Periods,    \* the values of ms in addTimer and reset
    MaxTime,    \* bound on the clock
    Never       \* what getNextTimer returns without timers: ~0ull

ASSUME TimerAssumption ==
    /\ Periods \subseteq Nat /\ MaxTime \in Nat
    /\ Never \in Nat /\ \A p \in Periods : Never > MaxTime + p

VARIABLES
    now,          \* GetCurrentMS()
    created,      \* timers whose constructor ran
    m_recurring, m_ms, m_next,
    m_cb,         \* does the timer have a callback?
    m_timers,     \* TimerManager::m_timers
    m_tickled,
    op            \* what each thread is in the middle of

timerVars == <<created, m_recurring, m_ms, m_next, m_cb>>

VARIABLES
    start,        \* the time a timer's current period began
    delivered,    \* how often a timer's callback was handed out by listExpiredCb
    cancelled,    \* timers whose cancle() returned true
    nextSeen      \* the earliest expiry the last getNextTimer saw

historyVars == <<start, delivered, cancelled, nextSeen>>
vars == <<now, timerVars, m_timers, m_tickled, op, historyVars>>

-----------------------------------------------------------------------------
NoOp == [kind |-> "none"]
Ops == {NoOp}
       \cup [kind : {"add"}, timer : Timers]
       \cup [kind : {"reset"}, timer : Timers, ms : Periods, from_now : BOOLEAN]
       \cup [kind : {"list_peek", "list_take"}, now_ms : 0..MaxTime]

Init ==
    /\ now = 0
    /\ created = {}
    /\ m_recurring = [x \in Timers |-> FALSE]
    /\ m_ms = [x \in Timers |-> 0] /\ m_next = [x \in Timers |-> 0]
    /\ m_cb = [x \in Timers |-> FALSE]
    /\ m_timers = {} /\ m_tickled = FALSE
    /\ op = [t \in Threads |-> NoOp]
    /\ start = [x \in Timers |-> 0] /\ delivered = [x \in Timers |-> 0]
    /\ cancelled = {} /\ nextSeen = 0

Tick ==
    /\ now < MaxTime
    /\ now' = now + 1
    /\ UNCHANGED <<timerVars, m_timers, m_tickled, op, historyVars>>

(* Is x, just inserted, the first of the set?  Timers with the same m_next *)
(* are ordered by their address.                                           *)
MayBeFirst(x, first) ==
    /\ (\E y \in m_timers' : m_next'[y] < m_next'[x]) => ~first
    /\ (\A y \in m_timers' \ {x} : m_next'[x] < m_next'[y]) => first

(* addTimer(val, lock): insert; a new front raises m_tickled, once until   *)
(* the next getNextTimer.                                                  *)
Insert_Quiet(x) ==
    /\ m_timers' = m_timers \cup {x}
    /\ UNCHANGED m_tickled
Insert(x) ==
    /\ m_timers' = m_timers \cup {x}
    /\ \E first \in BOOLEAN :
        /\ MayBeFirst(x, first)
        /\ m_tickled' = (m_tickled \/ first)

(* addTimer(ms, cb, recurring): the constructor reads the clock... *)
AddTimer(t) ==
    /\ op[t] = NoOp
    /\ \E x \in Timers \ created, ms \in Periods, recurring \in BOOLEAN :
        /\ created' = created \cup {x}
        /\ m_recurring' = [m_recurring EXCEPT ![x] = recurring]
        /\ m_ms' = [m_ms EXCEPT ![x] = ms]
        /\ m_next' = [m_next EXCEPT ![x] = now + ms]
        /\ m_cb' = [m_cb EXCEPT ![x] = TRUE]
        /\ start' = [start EXCEPT ![x] = now]
        /\ op' = [op EXCEPT ![t] = [kind |-> "add", timer |-> x]]
    /\ UNCHANGED <<now, m_timers, m_tickled, delivered, cancelled, nextSeen>>

(* ... and the timer is inserted under the lock.  Only now does the caller *)
(* have the handle.                                                        *)
AddInsert(t) ==
    /\ op[t].kind = "add"
    /\ UNCHANGED m_next
    /\ Insert(op[t].timer)
    /\ op' = [op EXCEPT ![t] = NoOp]
    /\ UNCHANGED <<now, created, m_recurring, m_ms, m_cb, historyVars>>

(* The timers users hold a handle of. *)
Handles == {x \in created : \A t \in Threads : op[t].kind = "add" => op[t].timer # x}

(* Timer::cancle. *)
Cancle_Unchecked(t, x) ==
    /\ op[t] = NoOp
    /\ x \in Handles
    /\ m_cb' = [m_cb EXCEPT ![x] = FALSE]
    /\ m_timers' = m_timers \ {x}
    /\ cancelled' = cancelled \cup {x}
    /\ UNCHANGED <<now, created, m_recurring, m_ms, m_next, m_tickled, op,
                   start, delivered, nextSeen>>
Cancle(t, x) ==
    /\ op[t] = NoOp
    /\ x \in Handles
    /\ m_cb[x]
    /\ m_cb' = [m_cb EXCEPT ![x] = FALSE]
    /\ m_timers' = m_timers \ {x}
    /\ cancelled' = cancelled \cup {x}
    /\ UNCHANGED <<now, created, m_recurring, m_ms, m_next, m_tickled, op,
                   start, delivered, nextSeen>>

(* Timer::refresh: a full period from now, by a plain insert. *)
Refresh(t, x) ==
    /\ op[t] = NoOp
    /\ x \in Handles
    /\ m_cb[x] /\ x \in m_timers
    /\ m_next' = [m_next EXCEPT ![x] = now + m_ms[x]]
    /\ start' = [start EXCEPT ![x] = now]
    /\ UNCHANGED <<now, created, m_recurring, m_ms, m_cb, m_timers, m_tickled, op,
                   delivered, cancelled, nextSeen>>

(* Timer::reset compares m_ms before it takes the lock... *)
ResetCheck(t, x) ==
    /\ op[t] = NoOp
    /\ x \in Handles
    /\ \E ms \in Periods, from_now \in BOOLEAN :
        /\ ms # m_ms[x] \/ from_now
        /\ op' = [op EXCEPT ![t] = [kind |-> "reset", timer |-> x, ms |-> ms,
                                    from_now |-> from_now]]
    /\ UNCHANGED <<now, timerVars, m_timers, m_tickled, historyVars>>

(* ... and under the lock finds the timer gone, or moves it. *)
ResetGone(t) ==
    /\ op[t].kind = "reset"
    /\ ~(m_cb[op[t].timer] /\ op[t].timer \in m_timers)
    /\ op' = [op EXCEPT ![t] = NoOp]
    /\ UNCHANGED <<now, timerVars, m_timers, m_tickled, historyVars>>

ResetMove(t) ==
    LET x == op[t].timer
        begin == IF op[t].from_now THEN now ELSE m_next[x] - m_ms[x]
    IN
    /\ op[t].kind = "reset"
    /\ m_cb[x] /\ x \in m_timers
    /\ m_ms' = [m_ms EXCEPT ![x] = op[t].ms]
    /\ m_next' = [m_next EXCEPT ![x] = begin + op[t].ms]
    /\ start' = IF op[t].from_now THEN [start EXCEPT ![x] = now] ELSE start
    /\ Insert(x)
    /\ op' = [op EXCEPT ![t] = NoOp]
    /\ UNCHANGED <<now, created, m_recurring, m_cb, delivered, cancelled, nextSeen>>

(* getNextTimer: m_tickled goes down (under the read lock), the caller     *)
(* learns when the first timer expires.                                    *)
Earliest(n) == n \in {m_next[x] : x \in m_timers} /\ \A y \in m_timers : n <= m_next[y]

GetNextTimer(t) ==
    /\ op[t] = NoOp
    /\ m_tickled' = FALSE
    /\ \/ m_timers = {} /\ nextSeen' = Never
       \/ \E x \in m_timers : Earliest(m_next[x]) /\ nextSeen' = m_next[x]
    /\ UNCHANGED <<now, timerVars, m_timers, op, start, delivered, cancelled>>

(* listExpiredCb: the clock is read first; then an empty set is ruled out  *)
(* under the read lock; then everything up to now_ms is taken under the    *)
(* write lock.                                                             *)
ListClock(t) ==
    /\ op[t] = NoOp
    /\ op' = [op EXCEPT ![t] = [kind |-> "list_peek", now_ms |-> now]]
    /\ UNCHANGED <<now, timerVars, m_timers, m_tickled, historyVars>>

ListPeek(t) ==
    /\ op[t].kind = "list_peek"
    /\ op' = [op EXCEPT ![t] = IF m_timers = {} THEN NoOp
                               ELSE [kind |-> "list_take", now_ms |-> op[t].now_ms]]
    /\ UNCHANGED <<now, timerVars, m_timers, m_tickled, historyVars>>

(* lower_bound(now_timer), then every timer with m_next == now_ms. *)
Expired_All(now_ms) == m_timers
Expired(now_ms) == {x \in m_timers : m_next[x] <= now_ms}

(* One-shot timers give up their callback, recurring ones start again. *)
DropsCb_Never(x) == FALSE
DropsCb(x) == ~m_recurring[x]

ListTake(t) ==
    LET now_ms == op[t].now_ms
        expired == Expired(now_ms)
        again == {x \in expired : m_recurring[x]}
    IN
    /\ op[t].kind = "list_take"
    /\ delivered' = [x \in Timers |-> IF x \in expired THEN delivered[x] + 1 ELSE delivered[x]]
    /\ m_timers' = (m_timers \ expired) \cup again
    /\ m_next' = [x \in Timers |-> IF x \in again THEN now_ms + m_ms[x] ELSE m_next[x]]
    /\ start' = [x \in Timers |-> IF x \in again THEN now_ms ELSE start[x]]
    /\ m_cb' = [x \in Timers |-> m_cb[x] /\ ~(x \in expired /\ DropsCb(x))]
    /\ op' = [op EXCEPT ![t] = NoOp]
    /\ UNCHANGED <<now, created, m_recurring, m_ms, m_tickled, cancelled, nextSeen>>

-----------------------------------------------------------------------------
Step(t) ==
    \/ AddTimer(t) \/ AddInsert(t)
    \/ \E x \in Timers : Cancle(t, x) \/ Refresh(t, x) \/ ResetCheck(t, x)
    \/ ResetGone(t) \/ ResetMove(t)
    \/ GetNextTimer(t)
    \/ ListClock(t) \/ ListPeek(t) \/ ListTake(t)

Next == Tick \/ \E t \in Threads : Step(t)

Spec == Init /\ [][Next]_vars

-----------------------------------------------------------------------------
(* Every variable holds a value of its C++ type; unsigned differences such *)
(* as m_next - m_ms in reset never wrap.                                   *)
TypeOK ==
    /\ now \in 0..MaxTime
    /\ created \in SUBSET Timers /\ m_timers \in SUBSET Timers
    /\ m_recurring \in [Timers -> BOOLEAN] /\ m_cb \in [Timers -> BOOLEAN]
    /\ m_ms \in [Timers -> Nat] /\ m_next \in [Timers -> Nat]
    /\ m_tickled \in BOOLEAN
    /\ op \in [Threads -> Ops]
    /\ start \in [Timers -> Nat] /\ delivered \in [Timers -> Nat]
    /\ cancelled \in SUBSET Timers /\ nextSeen \in Nat

(* A timer has a callback exactly while it is in the set: cancle() may     *)
(* erase what find() returned without looking, and a timer outside the set *)
(* is never revived by refresh() or reset().                               *)
CbIffQueued == \A x \in Handles : m_cb[x] <=> x \in m_timers

(* A one-shot timer is pending, or was delivered once, or was cancelled,   *)
(* and exactly one of the three, however cancle(), refresh(), reset() and  *)
(* two collecting threads race: cancle() returning true means the callback *)
(* never runs, false that it runs or ran.                                  *)
OneShotOutcome ==
    \A x \in Handles : ~m_recurring[x] =>
        (IF x \in m_timers THEN 1 ELSE 0) + delivered[x] + (IF x \in cancelled THEN 1 ELSE 0) = 1

(* No callback is handed out before the period it waits for is over, also  *)
(* when the collecting thread read the clock long before it got the lock   *)
(* and the timer was refreshed or reset in between.                        *)
NeverEarly ==
    [][\A x \in Timers : delivered'[x] # delivered[x] => now >= start[x] + m_ms[x]]_vars

(* If some timer expires before what the last getNextTimer reported, then  *)
(* m_tickled is up: onTimerInsertedAtFront was called for it, or for one   *)
(* before it, since then.  A thread that sleeps on the older value has     *)
(* been announced the change.                                              *)
FrontAnnounced == \A x \in m_timers : m_next[x] < nextSeen => m_tickled
=============================================================================
