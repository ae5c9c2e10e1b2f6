---------------------------- MODULE TimerProofs ----------------------------
(***************************************************************************)
(* Proofs about TimerManager for any number of timers and threads, any     *)
(* periods and any clock bound.                                            *)
(***************************************************************************)
EXTENDS TimerManager, TLAPS

(* The timers that are constructed and wait for the lock to be inserted. *)
Adding(x) == \E t \in Threads : op[t].kind = "add" /\ op[t].timer = x

(* A period is what separates m_next from the moment it began, which is    *)
(* never in the future; the clock readings threads carry are not either.   *)
PeriodOK ==
    /\ \A x \in Timers : m_next[x] = start[x] + m_ms[x] /\ start[x] <= now
    /\ \A t \in Threads : op[t].kind \in {"list_peek", "list_take"} => op[t].now_ms <= now

(* Who may be where: a timer under construction is known to one thread and *)
(* has done nothing yet; only constructed timers are reset or queued.      *)
OpsOK ==
    /\ \A t \in Threads : op[t].kind \in {"add", "reset"} => op[t].timer \in created
    /\ \A t, u \in Threads : /\ op[t].kind = "add" /\ op[u].kind \in {"add", "reset"}
                             /\ op[t].timer = op[u].timer
                             => t = u
    /\ \A x \in Timers : Adding(x) => m_cb[x]
    /\ \A x \in Timers : Adding(x) \/ x \notin created =>
          x \notin m_timers /\ x \notin cancelled /\ delivered[x] = 0

IInv == TypeOK /\ PeriodOK /\ OpsOK /\ CbIffQueued /\ OneShotOutcome /\ FrontAnnounced

(* What a thread carries, by the kind of its operation. *)
LEMMA OpFields ==
  ASSUME NEW o \in Ops
  PROVE  /\ o.kind = "add" => o.timer \in Timers
         /\ o.kind = "reset" => o.timer \in Timers /\ o.ms \in Nat /\ o.from_now \in BOOLEAN
         /\ o.kind \in {"list_peek", "list_take"} => o.now_ms \in Nat
<1>1. CASE o = NoOp
  BY <1>1 DEF NoOp
<1>2. CASE o \in [kind : {"add"}, timer : Timers]
  BY <1>2
<1>3. CASE o \in [kind : {"reset"}, timer : Timers, ms : Periods, from_now : BOOLEAN]
  BY <1>3, TimerAssumption
<1>4. CASE o \in [kind : {"list_peek", "list_take"}, now_ms : 0..MaxTime]
  BY <1>4, TimerAssumption
<1> QED
  BY <1>1, <1>2, <1>3, <1>4 DEF Ops

(* The invariant holds of a new manager. *)
LEMMA InitIInv == Init => IInv
<1> SUFFICES ASSUME Init PROVE IInv
  OBVIOUS
<1> USE TimerAssumption DEF Init
<1>1. TypeOK
  <2>1. op \in [Threads -> Ops]
    BY DEF Ops
  <2>2. now \in 0..MaxTime
    OBVIOUS
  <2> QED
    BY <2>1, <2>2 DEF TypeOK
<1>2. PeriodOK
  BY DEF PeriodOK, NoOp
<1>3. OpsOK
  BY DEF OpsOK, Adding, NoOp
<1>4. CbIffQueued /\ OneShotOutcome /\ FrontAnnounced
  BY DEF CbIffQueued, OneShotOutcome, FrontAnnounced, Handles
<1> QED
  BY <1>1, <1>2, <1>3, <1>4 DEF IInv

(* Every step preserves the types. *)
LEMMA TypeStep ==
  ASSUME IInv, Next
  PROVE  TypeOK'
<1> USE TimerAssumption DEF IInv, TypeOK, PeriodOK, Ops, timerVars, historyVars
<1>1. CASE Tick
  BY <1>1 DEF Tick
<1>2. ASSUME NEW t \in Threads, AddTimer(t) PROVE TypeOK'
  BY <1>2 DEF AddTimer
<1>3. ASSUME NEW t \in Threads, AddInsert(t) PROVE TypeOK'
  BY <1>3 DEF AddInsert, Insert, NoOp
<1>4. ASSUME NEW t \in Threads, NEW x \in Timers, Cancle(t, x) PROVE TypeOK'
  BY <1>4 DEF Cancle
<1>5. ASSUME NEW t \in Threads, NEW x \in Timers, Refresh(t, x) PROVE TypeOK'
  BY <1>5 DEF Refresh
<1>6. ASSUME NEW t \in Threads, NEW x \in Timers, ResetCheck(t, x) PROVE TypeOK'
  BY <1>6 DEF ResetCheck
<1>7. ASSUME NEW t \in Threads, ResetGone(t) PROVE TypeOK'
  BY <1>7 DEF ResetGone
<1>8. ASSUME NEW t \in Threads, ResetMove(t) PROVE TypeOK'
  <2> DEFINE x == op[t].timer
                begin == IF op[t].from_now THEN now ELSE m_next[x] - m_ms[x]
  <2>1. x \in Timers /\ op[t].ms \in Nat /\ op[t].from_now \in BOOLEAN
    BY <1>8, OpFields DEF ResetMove
  <2>2. begin \in Nat
    <3>1. m_next[x] - m_ms[x] = start[x]
      BY <2>1
    <3> QED
      BY <2>1, <3>1
  <2>3. m_ms' \in [Timers -> Nat] /\ m_next' \in [Timers -> Nat] /\ start' \in [Timers -> Nat]
    BY <1>8, <2>1, <2>2 DEF ResetMove
  <2>4. m_timers' \in SUBSET Timers /\ m_tickled' \in BOOLEAN
    BY <1>8, <2>1 DEF ResetMove, Insert
  <2>5. op' \in [Threads -> Ops]
    BY <1>8 DEF ResetMove
  <2> QED
    BY <1>8, <2>3, <2>4, <2>5 DEF ResetMove
<1>9. ASSUME NEW t \in Threads, GetNextTimer(t) PROVE TypeOK'
  BY <1>9 DEF GetNextTimer, Earliest
<1>10. ASSUME NEW t \in Threads, ListClock(t) PROVE TypeOK'
  BY <1>10 DEF ListClock
<1>11. ASSUME NEW t \in Threads, ListPeek(t) PROVE TypeOK'
  BY <1>11 DEF ListPeek, NoOp
<1>12. ASSUME NEW t \in Threads, ListTake(t) PROVE TypeOK'
  <2>1. op[t].now_ms \in Nat
    BY <1>12, OpFields DEF ListTake
  <2>2. m_next' \in [Timers -> Nat] /\ start' \in [Timers -> Nat] /\ delivered' \in [Timers -> Nat]
    BY <1>12, <2>1 DEF ListTake
  <2>3. m_timers' \in SUBSET Timers /\ m_cb' \in [Timers -> BOOLEAN]
    BY <1>12 DEF ListTake, Expired
  <2>4. op' \in [Threads -> Ops]
    BY <1>12 DEF ListTake
  <2> QED
    BY <1>12, <2>2, <2>3, <2>4 DEF ListTake
<1> QED
  BY <1>1, <1>2, <1>3, <1>4, <1>5, <1>6, <1>7, <1>8, <1>9, <1>10, <1>11, <1>12 DEF Next, Step

(* Every step preserves what is known of periods and clock readings. *)
LEMMA PeriodStep ==
  ASSUME IInv, Next
  PROVE  PeriodOK'
<1> USE TimerAssumption DEF IInv, TypeOK, PeriodOK, NoOp, timerVars, historyVars
<1>1. CASE Tick
  BY <1>1, OpFields DEF Tick
<1>2. ASSUME NEW t \in Threads, AddTimer(t) PROVE PeriodOK'
  BY <1>2 DEF AddTimer
<1>3. ASSUME NEW t \in Threads, AddInsert(t) PROVE PeriodOK'
  BY <1>3 DEF AddInsert, Insert
<1>4. ASSUME NEW t \in Threads, NEW x \in Timers, Cancle(t, x) PROVE PeriodOK'
  BY <1>4 DEF Cancle
<1>5. ASSUME NEW t \in Threads, NEW x \in Timers, Refresh(t, x) PROVE PeriodOK'
  BY <1>5 DEF Refresh
<1>6. ASSUME NEW t \in Threads, NEW x \in Timers, ResetCheck(t, x) PROVE PeriodOK'
  BY <1>6 DEF ResetCheck
<1>7. ASSUME NEW t \in Threads, ResetGone(t) PROVE PeriodOK'
  BY <1>7 DEF ResetGone
<1>8. ASSUME NEW t \in Threads, ResetMove(t) PROVE PeriodOK'
  BY <1>8 DEF ResetMove, Insert
<1>9. ASSUME NEW t \in Threads, GetNextTimer(t) PROVE PeriodOK'
  BY <1>9 DEF GetNextTimer
<1>10. ASSUME NEW t \in Threads, ListClock(t) PROVE PeriodOK'
  BY <1>10 DEF ListClock
<1>11. ASSUME NEW t \in Threads, ListPeek(t) PROVE PeriodOK'
  BY <1>11 DEF ListPeek, Ops
<1>12. ASSUME NEW t \in Threads, ListTake(t) PROVE PeriodOK'
  BY <1>12 DEF ListTake, Expired, DropsCb, Ops
<1> QED
  BY <1>1, <1>2, <1>3, <1>4, <1>5, <1>6, <1>7, <1>8, <1>9, <1>10, <1>11, <1>12 DEF Next, Step

(* Every step preserves what is known of operations under way. *)
LEMMA OpsStep ==
  ASSUME IInv, Next
  PROVE  OpsOK'
<1> USE TimerAssumption DEF IInv, TypeOK, OpsOK, Adding, NoOp, Handles, timerVars, historyVars
<1>1. CASE Tick
  BY <1>1 DEF Tick
<1>2. ASSUME NEW t \in Threads, AddTimer(t) PROVE OpsOK'
  BY <1>2 DEF AddTimer
<1>3. ASSUME NEW t \in Threads, AddInsert(t) PROVE OpsOK'
  BY <1>3 DEF AddInsert, Insert
<1>4. ASSUME NEW t \in Threads, NEW x \in Timers, Cancle(t, x) PROVE OpsOK'
  BY <1>4 DEF Cancle
<1>5. ASSUME NEW t \in Threads, NEW x \in Timers, Refresh(t, x) PROVE OpsOK'
  BY <1>5 DEF Refresh
<1>6. ASSUME NEW t \in Threads, NEW x \in Timers, ResetCheck(t, x) PROVE OpsOK'
  BY <1>6 DEF ResetCheck
<1>7. ASSUME NEW t \in Threads, ResetGone(t) PROVE OpsOK'
  BY <1>7 DEF ResetGone
<1>8. ASSUME NEW t \in Threads, ResetMove(t) PROVE OpsOK'
  BY <1>8 DEF ResetMove, Insert
<1>9. ASSUME NEW t \in Threads, GetNextTimer(t) PROVE OpsOK'
  BY <1>9 DEF GetNextTimer
<1>10. ASSUME NEW t \in Threads, ListClock(t) PROVE OpsOK'
  BY <1>10 DEF ListClock
<1>11. ASSUME NEW t \in Threads, ListPeek(t) PROVE OpsOK'
  BY <1>11 DEF ListPeek
<1>12. ASSUME NEW t \in Threads, ListTake(t) PROVE OpsOK'
  BY <1>12 DEF ListTake, Expired, DropsCb
<1> QED
  BY <1>1, <1>2, <1>3, <1>4, <1>5, <1>6, <1>7, <1>8, <1>9, <1>10, <1>11, <1>12 DEF Next, Step

(* Every step keeps callbacks and the set in agreement. *)
LEMMA CbStep ==
  ASSUME IInv, Next
  PROVE  CbIffQueued'
<1> USE TimerAssumption DEF IInv, TypeOK, CbIffQueued, OpsOK, Adding, NoOp, Handles, timerVars, historyVars
<1>1. CASE Tick
  BY <1>1 DEF Tick
<1>2. ASSUME NEW t \in Threads, AddTimer(t) PROVE CbIffQueued'
  BY <1>2 DEF AddTimer
<1>3. ASSUME NEW t \in Threads, AddInsert(t) PROVE CbIffQueued'
  BY <1>3 DEF AddInsert, Insert
<1>4. ASSUME NEW t \in Threads, NEW x \in Timers, Cancle(t, x) PROVE CbIffQueued'
  BY <1>4 DEF Cancle
<1>5. ASSUME NEW t \in Threads, NEW x \in Timers, Refresh(t, x) PROVE CbIffQueued'
  BY <1>5 DEF Refresh
<1>6. ASSUME NEW t \in Threads, NEW x \in Timers, ResetCheck(t, x) PROVE CbIffQueued'
  BY <1>6 DEF ResetCheck
<1>7. ASSUME NEW t \in Threads, ResetGone(t) PROVE CbIffQueued'
  BY <1>7 DEF ResetGone
<1>8. ASSUME NEW t \in Threads, ResetMove(t) PROVE CbIffQueued'
  BY <1>8 DEF ResetMove, Insert
<1>9. ASSUME NEW t \in Threads, GetNextTimer(t) PROVE CbIffQueued'
  BY <1>9 DEF GetNextTimer
<1>10. ASSUME NEW t \in Threads, ListClock(t) PROVE CbIffQueued'
  BY <1>10 DEF ListClock
<1>11. ASSUME NEW t \in Threads, ListPeek(t) PROVE CbIffQueued'
  BY <1>11 DEF ListPeek
<1>12. ASSUME NEW t \in Threads, ListTake(t) PROVE CbIffQueued'
  BY <1>12 DEF ListTake, Expired, DropsCb
<1> QED
  BY <1>1, <1>2, <1>3, <1>4, <1>5, <1>6, <1>7, <1>8, <1>9, <1>10, <1>11, <1>12 DEF Next, Step

(* Every step keeps the outcome of a one-shot timer unique. *)
LEMMA OutcomeStep ==
  ASSUME IInv, Next
  PROVE  OneShotOutcome'
<1> USE TimerAssumption DEF IInv, TypeOK, OneShotOutcome, CbIffQueued, OpsOK, Adding, NoOp, Handles, timerVars, historyVars
<1>1. CASE Tick
  BY <1>1 DEF Tick
<1>2. ASSUME NEW t \in Threads, AddTimer(t) PROVE OneShotOutcome'
  BY <1>2 DEF AddTimer
<1>3. ASSUME NEW t \in Threads, AddInsert(t) PROVE OneShotOutcome'
  BY <1>3 DEF AddInsert, Insert
<1>4. ASSUME NEW t \in Threads, NEW x \in Timers, Cancle(t, x) PROVE OneShotOutcome'
  BY <1>4 DEF Cancle
<1>5. ASSUME NEW t \in Threads, NEW x \in Timers, Refresh(t, x) PROVE OneShotOutcome'
  BY <1>5 DEF Refresh
<1>6. ASSUME NEW t \in Threads, NEW x \in Timers, ResetCheck(t, x) PROVE OneShotOutcome'
  BY <1>6 DEF ResetCheck
<1>7. ASSUME NEW t \in Threads, ResetGone(t) PROVE OneShotOutcome'
  BY <1>7 DEF ResetGone
<1>8. ASSUME NEW t \in Threads, ResetMove(t) PROVE OneShotOutcome'
  BY <1>8 DEF ResetMove, Insert
<1>9. ASSUME NEW t \in Threads, GetNextTimer(t) PROVE OneShotOutcome'
  BY <1>9 DEF GetNextTimer
<1>10. ASSUME NEW t \in Threads, ListClock(t) PROVE OneShotOutcome'
  BY <1>10 DEF ListClock
<1>11. ASSUME NEW t \in Threads, ListPeek(t) PROVE OneShotOutcome'
  BY <1>11 DEF ListPeek
<1>12. ASSUME NEW t \in Threads, ListTake(t) PROVE OneShotOutcome'
  BY <1>12 DEF ListTake, Expired, DropsCb
<1> QED
  BY <1>1, <1>2, <1>3, <1>4, <1>5, <1>6, <1>7, <1>8, <1>9, <1>10, <1>11, <1>12 DEF Next, Step

(* Every step that moves a timer ahead of what was reported raises m_tickled. *)
LEMMA FrontStep ==
  ASSUME IInv, Next
  PROVE  FrontAnnounced'
<1> USE TimerAssumption DEF IInv, FrontAnnounced, timerVars, historyVars
<1>1. CASE Tick
  <2>1. UNCHANGED <<m_timers, m_next, nextSeen, m_tickled>>
    BY <1>1 DEF Tick
  <2> QED
    BY <2>1
<1>2. ASSUME NEW t \in Threads, AddTimer(t) PROVE FrontAnnounced'
  <2>1. \A y \in m_timers : m_next'[y] = m_next[y]
    BY <1>2 DEF AddTimer, OpsOK, TypeOK
  <2> QED
    BY <1>2, <2>1 DEF AddTimer
<1>3. ASSUME NEW t \in Threads, AddInsert(t) PROVE FrontAnnounced'
  <2> DEFINE x == op[t].timer
  <2>1. x \in Timers
    BY <1>3, OpFields DEF AddInsert, TypeOK
  <2>2. UNCHANGED m_next
    BY <1>3 DEF AddInsert, TypeOK
  <2>3. PICK first \in BOOLEAN : MayBeFirst(x, first) /\ m_tickled' = (m_tickled \/ first)
    BY <1>3 DEF AddInsert, Insert
  <2>4. m_timers' = m_timers \cup {x} /\ nextSeen' = nextSeen
    BY <1>3 DEF AddInsert, Insert
  <2>5. m_next \in [Timers -> Nat] /\ m_next' \in [Timers -> Nat] /\ nextSeen \in Nat
    BY TypeStep DEF TypeOK
  <2> SUFFICES ASSUME NEW y \in m_timers', m_next'[y] < nextSeen', ~first
               PROVE  m_tickled
    BY <2>3 DEF FrontAnnounced
  <2>6. PICK z \in m_timers' \ {x} : m_next'[z] <= m_next'[x]
    <3>1. ~(\A z \in m_timers' \ {x} : m_next'[x] < m_next'[z])
      BY <2>3 DEF MayBeFirst
    <3> QED
      BY <3>1, <2>1, <2>4, <2>5 DEF TypeOK
  <2>7. CASE y = x
    <3>1. z \in m_timers /\ m_next[z] < nextSeen
      BY <2>1, <2>2, <2>4, <2>5, <2>6, <2>7 DEF TypeOK
    <3> QED
      BY <3>1
  <2>8. CASE y # x
    BY <2>2, <2>4, <2>8 DEF TypeOK
  <2> QED
    BY <2>7, <2>8
<1>4. ASSUME NEW t \in Threads, NEW x \in Timers, Cancle(t, x) PROVE FrontAnnounced'
  BY <1>4 DEF Cancle
<1>5. ASSUME NEW t \in Threads, NEW x \in Timers, Refresh(t, x) PROVE FrontAnnounced'
  BY <1>5 DEF Refresh, TypeOK, PeriodOK
<1>6. ASSUME NEW t \in Threads, NEW x \in Timers, ResetCheck(t, x) PROVE FrontAnnounced'
  BY <1>6 DEF ResetCheck
<1>7. ASSUME NEW t \in Threads, ResetGone(t) PROVE FrontAnnounced'
  BY <1>7 DEF ResetGone
<1>8. ASSUME NEW t \in Threads, ResetMove(t) PROVE FrontAnnounced'
  <2> DEFINE x == op[t].timer
  <2>1. x \in Timers
    BY <1>8, OpFields DEF ResetMove, TypeOK
  <2>2. \A y \in Timers : y # x => m_next'[y] = m_next[y]
    BY <1>8 DEF ResetMove, TypeOK
  <2>3. PICK first \in BOOLEAN : MayBeFirst(x, first) /\ m_tickled' = (m_tickled \/ first)
    BY <1>8 DEF ResetMove, Insert
  <2>4. m_timers' = m_timers \cup {x} /\ nextSeen' = nextSeen
    BY <1>8 DEF ResetMove, Insert
  <2>5. m_next \in [Timers -> Nat] /\ m_next' \in [Timers -> Nat] /\ nextSeen \in Nat
    BY TypeStep DEF TypeOK
  <2> SUFFICES ASSUME NEW y \in m_timers', m_next'[y] < nextSeen', ~first
               PROVE  m_tickled
    BY <2>3 DEF FrontAnnounced
  <2>6. PICK z \in m_timers' \ {x} : m_next'[z] <= m_next'[x]
    <3>1. ~(\A z \in m_timers' \ {x} : m_next'[x] < m_next'[z])
      BY <2>3 DEF MayBeFirst
    <3> QED
      BY <3>1, <2>1, <2>4, <2>5 DEF TypeOK
  <2>7. CASE y = x
    <3>1. z \in m_timers /\ m_next[z] < nextSeen
      BY <2>1, <2>2, <2>4, <2>5, <2>6, <2>7 DEF TypeOK
    <3> QED
      BY <3>1
  <2>8. CASE y # x
    BY <2>2, <2>4, <2>8 DEF TypeOK
  <2> QED
    BY <2>7, <2>8
<1>9. ASSUME NEW t \in Threads, GetNextTimer(t) PROVE FrontAnnounced'
  BY <1>9 DEF GetNextTimer, TypeOK, Earliest
<1>10. ASSUME NEW t \in Threads, ListClock(t) PROVE FrontAnnounced'
  BY <1>10 DEF ListClock
<1>11. ASSUME NEW t \in Threads, ListPeek(t) PROVE FrontAnnounced'
  BY <1>11 DEF ListPeek
<1>12. ASSUME NEW t \in Threads, ListTake(t) PROVE FrontAnnounced'
  <2>1. op[t].now_ms \in Nat
    BY <1>12, OpFields DEF ListTake, TypeOK
  <2> SUFFICES ASSUME NEW y \in m_timers', m_next'[y] < nextSeen'
               PROVE  m_tickled'
    BY DEF FrontAnnounced
  <2>2. y \in m_timers /\ m_next[y] <= m_next'[y]
    BY <1>12, <2>1 DEF ListTake, Expired, TypeOK
  <2>3. m_next[y] < nextSeen
    <3>1. m_next[y] \in Nat /\ m_next'[y] \in Nat /\ nextSeen \in Nat /\ nextSeen' = nextSeen
      BY <1>12, <2>2, TypeStep DEF ListTake, TypeOK
    <3> QED
      BY <2>2, <3>1
  <2> QED
    BY <1>12, <2>2, <2>3 DEF ListTake
<1> QED
  BY <1>1, <1>2, <1>3, <1>4, <1>5, <1>6, <1>7, <1>8, <1>9, <1>10, <1>11, <1>12 DEF Next, Step

-----------------------------------------------------------------------------
(* IInv is an invariant of the timer manager. *)
THEOREM Invariance == Spec => []IInv
<1>1. IInv /\ [Next]_vars => IInv'
  <2> SUFFICES ASSUME IInv, [Next]_vars PROVE IInv'
    OBVIOUS
  <2>1. CASE Next
    BY <2>1, TypeStep, PeriodStep, OpsStep, CbStep, OutcomeStep, FrontStep DEF IInv
  <2>2. CASE UNCHANGED vars
    BY <2>2 DEF IInv, TypeOK, PeriodOK, OpsOK, Adding, CbIffQueued, OneShotOutcome,
                FrontAnnounced, Handles, vars, timerVars, historyVars
  <2> QED
    BY <2>1, <2>2
<1> QED
  BY InitIInv, <1>1, PTL DEF Spec

(* Type correctness: no unsigned subtraction of the timer code wraps. *)
THEOREM TypeCorrect == Spec => []TypeOK
<1>1. IInv => TypeOK
  BY DEF IInv
<1> QED
  BY Invariance, <1>1, PTL

(* cancle() always finds the timer it erases: a timer has a callback       *)
(* exactly while it is in m_timers.                                        *)
THEOREM CallbackIffQueued == Spec => []CbIffQueued
<1>1. IInv => CbIffQueued
  BY DEF IInv
<1> QED
  BY Invariance, <1>1, PTL

(* A one-shot timer is delivered or cancelled, never both and never twice. *)
THEOREM OneShotOnce == Spec => []OneShotOutcome
<1>1. IInv => OneShotOutcome
  BY DEF IInv
<1> QED
  BY Invariance, <1>1, PTL

(* A new front of the set is announced unless an announcement is pending. *)
THEOREM FrontIsAnnounced == Spec => []FrontAnnounced
<1>1. IInv => FrontAnnounced
  BY DEF IInv
<1> QED
  BY Invariance, <1>1, PTL

(* listExpiredCb never hands out a callback before its time, although it   *)
(* reads the clock before it takes the lock.                               *)
THEOREM NothingEarly == Spec => NeverEarly
<1> DEFINE Early == \A x \in Timers : delivered'[x] # delivered[x] => now >= start[x] + m_ms[x]
<1>1. ASSUME IInv, [Next]_vars PROVE [Early]_vars
  <2>1. ASSUME NEW t \in Threads, ListTake(t) PROVE Early
    <3>1. op[t].now_ms \in Nat /\ op[t].now_ms <= now
      BY <1>1, <2>1, OpFields DEF IInv, TypeOK, PeriodOK, ListTake
    <3>2. ASSUME NEW x \in Timers, delivered'[x] # delivered[x] PROVE m_next[x] <= op[t].now_ms
      BY <1>1, <2>1, <3>2 DEF IInv, TypeOK, ListTake, Expired
    <3> QED
      BY <1>1, <3>1, <3>2 DEF IInv, TypeOK, PeriodOK
  <2>2. CASE UNCHANGED delivered
    BY <2>2
  <2>3. ASSUME NEW t \in Threads, Step(t), ~ListTake(t) PROVE UNCHANGED delivered
    BY <2>3 DEF Step, AddTimer, AddInsert, Cancle, Refresh, ResetCheck, ResetGone, ResetMove,
                GetNextTimer, ListClock, ListPeek, historyVars
  <2>4. CASE Tick
    BY <2>2, <2>4 DEF Tick, historyVars
  <2>5. CASE UNCHANGED vars
    BY <2>5
  <2> QED
    BY <1>1, <2>1, <2>2, <2>3, <2>4, <2>5 DEF Next
<1> QED
  BY Invariance, <1>1, PTL DEF Spec, NeverEarly
=============================================================================
