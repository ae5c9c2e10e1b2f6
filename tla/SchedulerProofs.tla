-------------------------- MODULE SchedulerProofs --------------------------
(***************************************************************************)
(* Proofs about Scheduler for every number of threads, jobs and fibers,    *)
(* with and without use_caller, jobs that hold included: the types, and    *)
(* that the two counters run() keeps by hand are exact.  Then, as long as  *)
(* jobs only yield to READY, that Scheduler implements TaskPool, for every *)
(* number of yields, too.                                                  *)
(***************************************************************************)
EXTENDS Scheduler, TLAPS, FiniteSetTheorems, SequenceTheorems

(* The pool of threads is finite. *)
LEMMA ThreadsFinite == IsFiniteSet(Threads)
<1>1. IsFiniteSet(Workers)
  BY SchedulerAssumption
<1>2. IsFiniteSet(Workers \cup {Root})
  BY <1>1, FS_AddElement
<1> QED
  BY <1>1, <1>2 DEF Threads

(* erase() leaves a list of the same type. *)
LEMMA RemoveAtType ==
  ASSUME NEW S, NEW s \in Seq(S), NEW i \in DOMAIN s
  PROVE  RemoveAt(s, i) \in Seq(S)
<1>1. i \in 1..Len(s) /\ Len(s) \in Nat
  BY LenProperties
<1>2. SubSeq(s, 1, i - 1) \in Seq(S)
  BY <1>1, SubSeqProperties
<1>3. SubSeq(s, i + 1, Len(s)) \in Seq(S)
  BY <1>1, SubSeqProperties
<1> QED
  BY <1>2, <1>3, ConcatProperties DEF RemoveAt

-----------------------------------------------------------------------------
(* The inductive invariant.  A thread that is past swapIn has a fiber; no  *)
(* thread runs before start(), and the root fiber not before stop() calls  *)
(* it.  The last two are what keeps Start and StopCall, which put threads  *)
(* into run(), from disturbing the counts.                                 *)
CurOK == \A t \in Threads :
    pc[t] \in {"exec", "holding", "leaving", "back", "after"} => cur[t] \in FiberIds

PhaseOK ==
    /\ main = "constructed" => \A t \in Threads : pc[t] = "off"
    /\ main \in {"constructed", "started", "stop_caller_only", "stop_set", "stop_call"}
         => \A t \in Threads : t = Root => pc[t] = "off"

IInv == TypeOK /\ CurOK /\ PhaseOK /\ CountersExact

(* Types, current fibers and phases hold when the scheduler is constructed. *)
LEMMA InitIInv == Init => IInv
<1> SUFFICES ASSUME Init PROVE IInv
  OBVIOUS
<1> USE SchedulerAssumption DEF Init
<1>1. TypeOK
  <2>1. SchedTypeOK
    BY EmptySeq DEF SchedTypeOK
  <2>2. FiberTypeOK
    BY DEF FiberTypeOK, State
  <2>3. ThreadTypeOK
    BY DEF ThreadTypeOK, NoTask, FiberAndThread, State
  <2>4. JobTypeOK
    BY DEF JobTypeOK
  <2> QED
    BY <2>1, <2>2, <2>3, <2>4 DEF TypeOK
<1>2. CurOK
  BY DEF CurOK
<1>3. PhaseOK
  BY DEF PhaseOK
<1>4. CountersExact
  <2>1. Busy = {} /\ IdleThreads = {}
    BY DEF Busy, IdleThreads
  <2> QED
    BY <2>1, FS_EmptySet DEF CountersExact
<1> QED
  BY <1>1, <1>2, <1>3, <1>4 DEF IInv

-----------------------------------------------------------------------------
(* Counting threads: one more in the set, or one less. *)
LEMMA CountMore ==
  ASSUME NEW S, IsFiniteSet(S), NEW B \in SUBSET S, NEW x \in S, x \notin B
  PROVE  Cardinality(B \cup {x}) = Cardinality(B) + 1
<1>1. IsFiniteSet(B)
  BY FS_Subset
<1> QED
  BY <1>1, FS_AddElement

(* One element less counts one less. *)
LEMMA CountLess ==
  ASSUME NEW S, IsFiniteSet(S), NEW B \in SUBSET S, NEW x \in B
  PROVE  Cardinality(B \ {x}) = Cardinality(B) - 1
<1>1. IsFiniteSet(B)
  BY FS_Subset
<1> QED
  BY <1>1, FS_RemoveElement

(* Every ++ and -- of run() comes with exactly the move of its thread into *)
(* or out of the set the counter stands for.                               *)
LEMMA CountersStep ==
  ASSUME IInv, Next
  PROVE  CountersExact'
<1> USE ThreadsFinite, SchedulerAssumption
<1> USE DEF IInv, TypeOK, ThreadTypeOK, schedVars, threadVars
<1>a. Busy \in SUBSET Threads /\ IdleThreads \in SUBSET Threads
  BY DEF Busy, IdleThreads
<1>b. ASSUME Busy' = Busy, IdleThreads' = IdleThreads,
             UNCHANGED <<m_activeThreadCount, m_idleThreadCount>>
      PROVE  CountersExact'
  BY <1>b DEF CountersExact
<1>c. ASSUME pc' = pc, UNCHANGED <<m_activeThreadCount, m_idleThreadCount>>
      PROVE  CountersExact'
  BY <1>b, <1>c DEF Busy, IdleThreads
<1>1. CASE MainSchedule \/ StopAuto \/ StopCallerOnly \/ StopSet \/ RootReturns \/ Join
  BY <1>c, <1>1 DEF MainSchedule, StopAuto, StopCallerOnly, StopSet, RootReturns, Join
<1>2. CASE Start
  BY <1>b, <1>2 DEF Start, PhaseOK, Busy, IdleThreads
<1>3. CASE StopCall
  <2>1. Root \in Threads => pc[Root] = "off"
    BY <1>3 DEF StopCall, PhaseOK
  <2> QED
    BY <1>b, <2>1, <1>3 DEF StopCall, Busy, IdleThreads
<1>4. ASSUME NEW f \in FiberIds, Wake(f) PROVE CountersExact'
  BY <1>c, <1>4 DEF Wake
<1>5. ASSUME NEW t \in Threads, JobSchedules(t) \/ SelfSchedule(t) PROVE CountersExact'
  BY <1>c, <1>5 DEF JobSchedules, SelfSchedule
<1>6. ASSUME NEW t \in Threads, PickTask(t) PROVE CountersExact'
  <2>1. t \notin Busy /\ Busy' = Busy \cup {t} /\ IdleThreads' = IdleThreads
    BY <1>6 DEF PickTask, Busy, IdleThreads
  <2>2. Cardinality(Busy') = Cardinality(Busy) + 1
    BY <1>a, <2>1, CountMore
  <2> QED
    BY <1>6, <2>1, <2>2 DEF PickTask, ActiveMore, CountersExact
<1>7. ASSUME NEW t \in Threads, PickNothing(t) PROVE CountersExact'
  <2>1. CASE idle_state[t] = "TERM"
    BY <1>b, <1>7, <2>1 DEF PickNothing, Busy, IdleThreads
  <2>2. CASE idle_state[t] # "TERM"
    <3>1. t \notin IdleThreads /\ IdleThreads' = IdleThreads \cup {t} /\ Busy' = Busy
      BY <1>7, <2>2 DEF PickNothing, Busy, IdleThreads
    <3>2. Cardinality(IdleThreads') = Cardinality(IdleThreads) + 1
      BY <1>a, <3>1, CountMore
    <3> QED
      BY <1>7, <2>2, <3>1, <3>2 DEF PickNothing, IdleMore, CountersExact
  <2> QED
    BY <2>1, <2>2
<1>8. ASSUME NEW t \in Threads, Idle(t) PROVE CountersExact'
  <2>1. t \in IdleThreads /\ IdleThreads' = IdleThreads \ {t} /\ Busy' = Busy
    BY <1>8 DEF Idle, Busy, IdleThreads
  <2>2. Cardinality(IdleThreads') = Cardinality(IdleThreads) - 1
    BY <1>a, <2>1, CountLess
  <2> QED
    BY <1>8, <2>1, <2>2 DEF Idle, IdleLess, CountersExact
<1>9. ASSUME NEW t \in Threads, DispatchEnded(t) \/ Back(t) PROVE CountersExact'
  <2>1. t \in Busy /\ Busy' = Busy \ {t} /\ IdleThreads' = IdleThreads
    BY <1>9 DEF DispatchEnded, Back, Busy, IdleThreads
  <2>2. Cardinality(Busy') = Cardinality(Busy) - 1
    BY <1>a, <2>1, CountLess
  <2> QED
    BY <1>9, <2>1, <2>2 DEF DispatchEnded, Back, ActiveLess, CountersExact
<1>10. ASSUME NEW t \in Threads, DispatchFiber(t) PROVE CountersExact'
  BY <1>b, <1>10 DEF DispatchFiber, SwapIn, Abort, Busy, IdleThreads
<1>11. ASSUME NEW t \in Threads, DispatchCb(t) PROVE CountersExact'
  BY <1>b, <1>11 DEF DispatchCb, SwapIn, Abort, NewFiber, Busy, IdleThreads
<1>12. ASSUME NEW t \in Threads, Finish(t) PROVE CountersExact'
  BY <1>b, <1>12 DEF Finish, Busy, IdleThreads
<1>13. ASSUME NEW t \in Threads, YiledToReady(t) PROVE CountersExact'
  BY <1>b, <1>13 DEF YiledToReady, YieldTo, Abort, Busy, IdleThreads
<1>14. ASSUME NEW t \in Threads, Arm(t) PROVE CountersExact'
  BY <1>b, <1>14 DEF Arm, Busy, IdleThreads
<1>15. ASSUME NEW t \in Threads, YiledToHold(t) PROVE CountersExact'
  BY <1>b, <1>15 DEF YiledToHold, YieldTo, Abort, Busy, IdleThreads
<1>16. ASSUME NEW t \in Threads, SwapOut(t) PROVE CountersExact'
  BY <1>b, <1>16 DEF SwapOut, Busy, IdleThreads
<1>17. ASSUME NEW t \in Threads, After(t) PROVE CountersExact'
  BY <1>b, <1>17 DEF After, Busy, IdleThreads
<1>18. CASE Halted
  BY <1>c, <1>18 DEF Halted, vars
<1> QED
  BY <1>1, <1>2, <1>3, <1>4, <1>5, <1>6, <1>7, <1>8, <1>9, <1>10, <1>11, <1>12, <1>13, <1>14, <1>15, <1>16, <1>17, <1>18
     DEF Next, MainStep, RunStep, EnvStep

-----------------------------------------------------------------------------
(* A list entry is a FiberAndThread, and so is one more of them appended. *)
LEMMA TaskTypes ==
  /\ NoTask \in FiberAndThread
  /\ \A f \in FiberIds, t \in Threads \cup {None} : FiberTask(f, t) \in FiberAndThread
  /\ \A j \in Jobs, t \in Threads \cup {None} : CbTask(j, t) \in FiberAndThread
BY DEF NoTask, FiberTask, CbTask, FiberAndThread

(* schedule() keeps m_fibers a list of tasks. *)
LEMMA ScheduleType ==
  ASSUME m_fibers \in Seq(FiberAndThread), NEW task \in FiberAndThread, Schedule(task)
  PROVE  m_fibers' \in Seq(FiberAndThread)
BY AppendProperties DEF Schedule

(* schedule() by a user, from the Root thread or from a job. *)
LEMMA SubmitType ==
  ASSUME SchedTypeOK, FiberTypeOK, JobTypeOK, UNCHANGED armed,
         NEW j \in Jobs, NEW p \in Threads \cup {None}, Submit(j, p)
  PROVE  m_fibers' \in Seq(FiberAndThread) /\ FiberTypeOK' /\ JobTypeOK'
<1>1. CASE Schedule(CbTask(j, p)) /\ UNCHANGED fiberVars
  <2>1. m_fibers' \in Seq(FiberAndThread)
    BY <1>1, TaskTypes, ScheduleType DEF SchedTypeOK
  <2> QED
    BY <1>1, <2>1 DEF Submit, FiberTypeOK, JobTypeOK, fiberVars
<1>2. ASSUME NEW f \in FiberIds, NewFiber(f, j), Schedule(FiberTask(f, p)), UNCHANGED m_state
      PROVE  m_fibers' \in Seq(FiberAndThread) /\ FiberTypeOK' /\ JobTypeOK'
  <2>1. m_fibers' \in Seq(FiberAndThread)
    BY <1>2, TaskTypes, ScheduleType DEF SchedTypeOK
  <2> QED
    BY <1>2, <2>1 DEF Submit, NewFiber, FiberTypeOK, JobTypeOK
<1> QED
  BY <1>1, <1>2 DEF Submit

(* Every step preserves the types, and the current fibers of the threads.  *)
LEMMA TypeStep ==
  ASSUME IInv, Next
  PROVE  TypeOK' /\ CurOK'
<1> DEFINE Goal == SchedTypeOK' /\ FiberTypeOK' /\ ThreadTypeOK' /\ JobTypeOK' /\ CurOK'
<1> USE SchedulerAssumption
<1> USE DEF IInv, TypeOK, schedVars, fiberVars, threadVars, jobVars
<1>a. m_activeThreadCount' \in Nat /\ m_idleThreadCount' \in Nat
  <2>1. CountersExact'
    BY CountersStep
  <2>2. IsFiniteSet(Busy') /\ IsFiniteSet(IdleThreads')
    BY ThreadsFinite, FS_Subset DEF Busy, IdleThreads
  <2> QED
    BY <2>1, <2>2, FS_CardinalityType DEF CountersExact
<1>1. CASE MainSchedule
  <2>1. PICK j \in Jobs, p \in Threads \cup {None} : Submit(j, p)
    BY <1>1 DEF MainSchedule
  <2>2. m_fibers' \in Seq(FiberAndThread) /\ FiberTypeOK' /\ JobTypeOK'
    BY <1>1, <2>1, SubmitType DEF MainSchedule
  <2>3. SchedTypeOK'
    BY <1>1, <1>a, <2>2 DEF MainSchedule, SchedTypeOK
  <2>4. ThreadTypeOK' /\ CurOK'
    BY <1>1 DEF MainSchedule, ThreadTypeOK, CurOK
  <2> QED
    BY <2>2, <2>3, <2>4
<1>2. CASE Start
  <2>1. SchedTypeOK'
    BY <1>2, <1>a DEF Start, SchedTypeOK
  <2>2. FiberTypeOK'
    BY <1>2 DEF Start, FiberTypeOK
  <2>3. ThreadTypeOK'
    BY <1>2 DEF Start, ThreadTypeOK
  <2>4. JobTypeOK'
    BY <1>2 DEF Start, JobTypeOK
  <2>5. CurOK'
    BY <1>2 DEF Start, CurOK, ThreadTypeOK
  <2> QED
    BY <2>1, <2>2, <2>3, <2>4, <2>5
<1>3. CASE StopAuto
  <2>1. SchedTypeOK'
    BY <1>3, <1>a DEF StopAuto, AutoStop, SchedTypeOK
  <2>2. FiberTypeOK'
    BY <1>3 DEF StopAuto, AutoStop, FiberTypeOK
  <2>3. ThreadTypeOK'
    BY <1>3 DEF StopAuto, AutoStop, ThreadTypeOK
  <2>4. JobTypeOK'
    BY <1>3 DEF StopAuto, AutoStop, JobTypeOK
  <2>5. CurOK'
    BY <1>3 DEF StopAuto, AutoStop, CurOK, ThreadTypeOK
  <2> QED
    BY <2>1, <2>2, <2>3, <2>4, <2>5
<1>4. CASE StopCallerOnly
  <2>1. SchedTypeOK'
    BY <1>4, <1>a DEF StopCallerOnly, SchedTypeOK
  <2>2. FiberTypeOK'
    BY <1>4 DEF StopCallerOnly, FiberTypeOK
  <2>3. ThreadTypeOK'
    BY <1>4 DEF StopCallerOnly, ThreadTypeOK
  <2>4. JobTypeOK'
    BY <1>4 DEF StopCallerOnly, JobTypeOK
  <2>5. CurOK'
    BY <1>4 DEF StopCallerOnly, CurOK, ThreadTypeOK
  <2> QED
    BY <2>1, <2>2, <2>3, <2>4, <2>5
<1>5. CASE StopSet
  <2>1. SchedTypeOK'
    BY <1>5, <1>a DEF StopSet, SchedTypeOK
  <2>2. FiberTypeOK'
    BY <1>5 DEF StopSet, FiberTypeOK
  <2>3. ThreadTypeOK'
    BY <1>5 DEF StopSet, ThreadTypeOK
  <2>4. JobTypeOK'
    BY <1>5 DEF StopSet, JobTypeOK
  <2>5. CurOK'
    BY <1>5 DEF StopSet, CurOK, ThreadTypeOK
  <2> QED
    BY <2>1, <2>2, <2>3, <2>4, <2>5
<1>6. CASE StopCall
  <2>1. SchedTypeOK'
    BY <1>6, <1>a DEF StopCall, CallsRoot, SchedTypeOK
  <2>2. FiberTypeOK'
    BY <1>6 DEF StopCall, CallsRoot, FiberTypeOK
  <2>3. ThreadTypeOK'
    BY <1>6 DEF StopCall, CallsRoot, ThreadTypeOK
  <2>4. JobTypeOK'
    BY <1>6 DEF StopCall, CallsRoot, JobTypeOK
  <2>5. CurOK'
    BY <1>6 DEF StopCall, CallsRoot, CurOK, ThreadTypeOK
  <2> QED
    BY <2>1, <2>2, <2>3, <2>4, <2>5
<1>7. CASE RootReturns
  <2>1. SchedTypeOK'
    BY <1>7, <1>a DEF RootReturns, SchedTypeOK
  <2>2. FiberTypeOK'
    BY <1>7 DEF RootReturns, FiberTypeOK
  <2>3. ThreadTypeOK'
    BY <1>7 DEF RootReturns, ThreadTypeOK
  <2>4. JobTypeOK'
    BY <1>7 DEF RootReturns, JobTypeOK
  <2>5. CurOK'
    BY <1>7 DEF RootReturns, CurOK, ThreadTypeOK
  <2> QED
    BY <2>1, <2>2, <2>3, <2>4, <2>5
<1>8. CASE Join
  <2>1. SchedTypeOK'
    BY <1>8, <1>a DEF Join, SchedTypeOK
  <2>2. FiberTypeOK'
    BY <1>8 DEF Join, FiberTypeOK
  <2>3. ThreadTypeOK'
    BY <1>8 DEF Join, ThreadTypeOK
  <2>4. JobTypeOK'
    BY <1>8 DEF Join, JobTypeOK
  <2>5. CurOK'
    BY <1>8 DEF Join, CurOK, ThreadTypeOK
  <2> QED
    BY <2>1, <2>2, <2>3, <2>4, <2>5
<1>9. ASSUME NEW f \in FiberIds, Wake(f) PROVE Goal
  <2>1. m_fibers' \in Seq(FiberAndThread)
    BY <1>9, TaskTypes, ScheduleType DEF Wake, SchedTypeOK
  <2>2. SchedTypeOK'
    BY <1>9, <1>a, <2>1 DEF Wake, SchedTypeOK
  <2>3. FiberTypeOK' /\ JobTypeOK'
    BY <1>9 DEF Wake, FiberTypeOK, JobTypeOK
  <2>4. ThreadTypeOK' /\ CurOK'
    BY <1>9 DEF Wake, ThreadTypeOK, CurOK
  <2> QED
    BY <2>2, <2>3, <2>4
<1>10. ASSUME NEW t \in Threads, PickTask(t) PROVE Goal
  <2>1. PICK i \in DOMAIN m_fibers : ft' = [ft EXCEPT ![t] = m_fibers[i]] /\ Erase(i)
    BY <1>10 DEF PickTask
  <2>2. m_fibers' \in Seq(FiberAndThread) /\ m_fibers[i] \in FiberAndThread
    BY <2>1, RemoveAtType, ElementOfSeq, LenProperties DEF Erase, SchedTypeOK
  <2>3. SchedTypeOK'
    BY <1>10, <1>a, <2>2 DEF PickTask, SchedTypeOK
  <2>4. FiberTypeOK' /\ JobTypeOK'
    BY <1>10 DEF PickTask, FiberTypeOK, JobTypeOK
  <2>5. ThreadTypeOK'
    BY <1>10, <2>1, <2>2 DEF PickTask, ThreadTypeOK
  <2>6. CurOK'
    BY <1>10 DEF PickTask, ThreadTypeOK, CurOK
  <2> QED
    BY <2>3, <2>4, <2>5, <2>6
<1>11. ASSUME NEW t \in Threads, PickNothing(t) PROVE Goal
  <2>1. SchedTypeOK'
    BY <1>11, <1>a DEF PickNothing, IdleMore, SchedTypeOK
  <2>2. FiberTypeOK'
    BY <1>11 DEF PickNothing, IdleMore, FiberTypeOK
  <2>3. ThreadTypeOK'
    BY <1>11, TaskTypes DEF PickNothing, IdleMore, ThreadTypeOK, State
  <2>4. JobTypeOK'
    BY <1>11 DEF PickNothing, IdleMore, JobTypeOK
  <2>5. CurOK'
    BY <1>11 DEF PickNothing, IdleMore, CurOK, ThreadTypeOK
  <2> QED
    BY <2>1, <2>2, <2>3, <2>4, <2>5
<1>12. ASSUME NEW t \in Threads, Idle(t) PROVE Goal
  <2>1. SchedTypeOK'
    BY <1>12, <1>a DEF Idle, IdleLess, SchedTypeOK
  <2>2. FiberTypeOK'
    BY <1>12 DEF Idle, IdleLess, FiberTypeOK
  <2>3. ThreadTypeOK'
    BY <1>12, TaskTypes DEF Idle, IdleLess, ThreadTypeOK, State
  <2>4. JobTypeOK'
    BY <1>12 DEF Idle, IdleLess, JobTypeOK
  <2>5. CurOK'
    BY <1>12 DEF Idle, IdleLess, CurOK, ThreadTypeOK
  <2> QED
    BY <2>1, <2>2, <2>3, <2>4, <2>5
<1>13. ASSUME NEW t \in Threads, DispatchFiber(t) PROVE Goal
  <2>1. SchedTypeOK'
    BY <1>13, <1>a DEF DispatchFiber, SwapIn, Abort, SchedTypeOK
  <2>2. FiberTypeOK'
    BY <1>13 DEF DispatchFiber, SwapIn, Abort, FiberTypeOK, State, CurOK, ThreadTypeOK, FiberAndThread
  <2>3. ThreadTypeOK'
    BY <1>13, TaskTypes DEF DispatchFiber, SwapIn, Abort, ThreadTypeOK, State, CurOK, FiberTypeOK, FiberAndThread
  <2>4. JobTypeOK'
    BY <1>13 DEF DispatchFiber, SwapIn, Abort, JobTypeOK, FiberTypeOK, CurOK, ThreadTypeOK, FiberAndThread
  <2>5. CurOK'
    BY <1>13 DEF DispatchFiber, SwapIn, Abort, CurOK, ThreadTypeOK, FiberAndThread
  <2> QED
    BY <2>1, <2>2, <2>3, <2>4, <2>5
<1>14. ASSUME NEW t \in Threads, DispatchEnded(t) PROVE Goal
  <2>1. SchedTypeOK'
    BY <1>14, <1>a DEF DispatchEnded, ActiveLess, SchedTypeOK
  <2>2. FiberTypeOK'
    BY <1>14 DEF DispatchEnded, ActiveLess, FiberTypeOK
  <2>3. ThreadTypeOK'
    BY <1>14, TaskTypes DEF DispatchEnded, ActiveLess, ThreadTypeOK, State
  <2>4. JobTypeOK'
    BY <1>14 DEF DispatchEnded, ActiveLess, JobTypeOK
  <2>5. CurOK'
    BY <1>14 DEF DispatchEnded, ActiveLess, CurOK, ThreadTypeOK
  <2> QED
    BY <2>1, <2>2, <2>3, <2>4, <2>5
<1>15. ASSUME NEW t \in Threads, DispatchCb(t) PROVE Goal
  <2>1. SchedTypeOK'
    BY <1>15, <1>a DEF DispatchCb, SwapIn, Abort, NewFiber, SchedTypeOK
  <2>2. FiberTypeOK'
    BY <1>15 DEF DispatchCb, SwapIn, Abort, NewFiber, FiberTypeOK, State, CurOK, ThreadTypeOK, FiberAndThread
  <2>3. ThreadTypeOK'
    BY <1>15, TaskTypes DEF DispatchCb, SwapIn, Abort, NewFiber, ThreadTypeOK, State, CurOK, FiberTypeOK, FiberAndThread
  <2>4. JobTypeOK'
    BY <1>15 DEF DispatchCb, SwapIn, Abort, NewFiber, JobTypeOK, FiberTypeOK, CurOK, ThreadTypeOK, FiberAndThread
  <2>5. CurOK'
    BY <1>15 DEF DispatchCb, SwapIn, Abort, NewFiber, CurOK, ThreadTypeOK, FiberAndThread
  <2> QED
    BY <2>1, <2>2, <2>3, <2>4, <2>5
<1>16. ASSUME NEW t \in Threads, Finish(t) PROVE Goal
  <2>1. SchedTypeOK'
    BY <1>16, <1>a DEF Finish, SchedTypeOK
  <2>2. FiberTypeOK'
    BY <1>16 DEF Finish, FiberTypeOK, State, CurOK, ThreadTypeOK, FiberAndThread
  <2>3. ThreadTypeOK'
    BY <1>16, TaskTypes DEF Finish, ThreadTypeOK, State, CurOK, FiberTypeOK, FiberAndThread
  <2>4. JobTypeOK'
    BY <1>16 DEF Finish, JobTypeOK, FiberTypeOK, CurOK, ThreadTypeOK, FiberAndThread
  <2>5. CurOK'
    BY <1>16 DEF Finish, CurOK, ThreadTypeOK, FiberAndThread
  <2> QED
    BY <2>1, <2>2, <2>3, <2>4, <2>5
<1>17. ASSUME NEW t \in Threads, YiledToReady(t) PROVE Goal
  <2>1. SchedTypeOK'
    BY <1>17, <1>a DEF YiledToReady, YieldTo, Abort, SchedTypeOK
  <2>2. FiberTypeOK'
    BY <1>17 DEF YiledToReady, YieldTo, Abort, FiberTypeOK, State, CurOK, ThreadTypeOK, FiberAndThread
  <2>3. ThreadTypeOK'
    BY <1>17, TaskTypes DEF YiledToReady, YieldTo, Abort, ThreadTypeOK, State, CurOK, FiberTypeOK, FiberAndThread
  <2>4. JobTypeOK'
    BY <1>17 DEF YiledToReady, YieldTo, Abort, JobTypeOK, FiberTypeOK, CurOK, ThreadTypeOK, FiberAndThread
  <2>5. CurOK'
    BY <1>17 DEF YiledToReady, YieldTo, Abort, CurOK, ThreadTypeOK, FiberAndThread
  <2> QED
    BY <2>1, <2>2, <2>3, <2>4, <2>5
<1>18. ASSUME NEW t \in Threads, Arm(t) PROVE Goal
  <2>1. SchedTypeOK'
    BY <1>18, <1>a DEF Arm, SchedTypeOK
  <2>2. FiberTypeOK'
    BY <1>18 DEF Arm, FiberTypeOK, CurOK
  <2>3. ThreadTypeOK'
    BY <1>18 DEF Arm, ThreadTypeOK
  <2>4. JobTypeOK'
    BY <1>18 DEF Arm, JobTypeOK, FiberTypeOK, CurOK
  <2>5. CurOK'
    BY <1>18 DEF Arm, CurOK, ThreadTypeOK
  <2> QED
    BY <2>1, <2>2, <2>3, <2>4, <2>5
<1>19. ASSUME NEW t \in Threads, YiledToHold(t) PROVE Goal
  <2>1. SchedTypeOK'
    BY <1>19, <1>a DEF YiledToHold, YieldTo, Abort, SchedTypeOK
  <2>2. FiberTypeOK'
    BY <1>19 DEF YiledToHold, YieldTo, Abort, FiberTypeOK, State, CurOK, ThreadTypeOK, FiberAndThread
  <2>3. ThreadTypeOK'
    BY <1>19, TaskTypes DEF YiledToHold, YieldTo, Abort, ThreadTypeOK, State, CurOK, FiberTypeOK, FiberAndThread
  <2>4. JobTypeOK'
    BY <1>19 DEF YiledToHold, YieldTo, Abort, JobTypeOK, FiberTypeOK, CurOK, ThreadTypeOK, FiberAndThread
  <2>5. CurOK'
    BY <1>19 DEF YiledToHold, YieldTo, Abort, CurOK, ThreadTypeOK, FiberAndThread
  <2> QED
    BY <2>1, <2>2, <2>3, <2>4, <2>5
<1>20. ASSUME NEW t \in Threads, SwapOut(t) PROVE Goal
  <2>1. SchedTypeOK'
    BY <1>20, <1>a DEF SwapOut, SchedTypeOK
  <2>2. FiberTypeOK'
    BY <1>20 DEF SwapOut, FiberTypeOK
  <2>3. ThreadTypeOK'
    BY <1>20, TaskTypes DEF SwapOut, ThreadTypeOK, State
  <2>4. JobTypeOK'
    BY <1>20 DEF SwapOut, JobTypeOK
  <2>5. CurOK'
    BY <1>20 DEF SwapOut, CurOK, ThreadTypeOK
  <2> QED
    BY <2>1, <2>2, <2>3, <2>4, <2>5
<1>21. ASSUME NEW t \in Threads, Back(t) PROVE Goal
  <2>1. SchedTypeOK'
    BY <1>21, <1>a DEF Back, ActiveLess, SchedTypeOK
  <2>2. FiberTypeOK'
    BY <1>21 DEF Back, ActiveLess, FiberTypeOK, State, CurOK, ThreadTypeOK, FiberAndThread
  <2>3. ThreadTypeOK'
    BY <1>21, TaskTypes DEF Back, ActiveLess, ThreadTypeOK, State, CurOK, FiberTypeOK, FiberAndThread
  <2>4. JobTypeOK'
    BY <1>21 DEF Back, ActiveLess, JobTypeOK, FiberTypeOK, CurOK, ThreadTypeOK, FiberAndThread
  <2>5. CurOK'
    BY <1>21 DEF Back, ActiveLess, CurOK, ThreadTypeOK, FiberAndThread
  <2> QED
    BY <2>1, <2>2, <2>3, <2>4, <2>5
<1>22. ASSUME NEW t \in Threads, After(t) PROVE Goal
  <2>1. cur[t] \in FiberIds
    BY <1>22 DEF After, CurOK
  <2>2. m_fibers' \in Seq(FiberAndThread)
    BY <1>22, <2>1, TaskTypes, ScheduleType DEF After, SchedTypeOK
  <2>3. SchedTypeOK'
    BY <1>22, <1>a, <2>2 DEF After, SchedTypeOK
  <2>4. StateAfter(t) \in State
    BY <2>1 DEF StateAfter, State, FiberTypeOK
  <2>5. FiberTypeOK'
    BY <1>22, <2>1, <2>4 DEF After, FiberTypeOK
  <2>6. JobTypeOK'
    BY <1>22 DEF After, JobTypeOK
  <2>7. ThreadTypeOK'
    BY <1>22, TaskTypes DEF After, ThreadTypeOK
  <2>8. CurOK'
    BY <1>22 DEF After, ThreadTypeOK, CurOK
  <2> QED
    BY <2>3, <2>5, <2>6, <2>7, <2>8
<1>23. ASSUME NEW t \in Threads, JobSchedules(t) PROVE Goal
  <2>1. PICK j \in Jobs, p \in Threads \cup {None} : Submit(j, p)
    BY <1>23 DEF JobSchedules
  <2>2. m_fibers' \in Seq(FiberAndThread) /\ FiberTypeOK' /\ JobTypeOK'
    BY <1>23, <2>1, SubmitType DEF JobSchedules
  <2>3. SchedTypeOK'
    BY <1>23, <1>a, <2>2 DEF JobSchedules, SchedTypeOK
  <2>4. ThreadTypeOK' /\ CurOK'
    BY <1>23 DEF JobSchedules, ThreadTypeOK, CurOK
  <2> QED
    BY <2>2, <2>3, <2>4
<1>24. ASSUME NEW t \in Threads, SelfSchedule(t) PROVE Goal
  <2>1. cur[t] \in FiberIds
    BY <1>24 DEF SelfSchedule, CurOK
  <2>2. m_fibers' \in Seq(FiberAndThread)
    BY <1>24, <2>1, TaskTypes, ScheduleType DEF SelfSchedule, SchedTypeOK
  <2>3. SchedTypeOK'
    BY <1>24, <1>a, <2>2 DEF SelfSchedule, SchedTypeOK
  <2>4. FiberTypeOK' /\ JobTypeOK'
    BY <1>24 DEF SelfSchedule, FiberTypeOK, JobTypeOK
  <2>5. ThreadTypeOK' /\ CurOK'
    BY <1>24 DEF SelfSchedule, ThreadTypeOK, CurOK
  <2> QED
    BY <2>3, <2>4, <2>5
<1>25. CASE Halted
  BY <1>25 DEF Halted, vars, SchedTypeOK, FiberTypeOK, ThreadTypeOK, JobTypeOK, CurOK
<1> QED
  BY <1>1, <1>2, <1>3, <1>4, <1>5, <1>6, <1>7, <1>8, <1>9, <1>10, <1>11, <1>12, <1>13, <1>14, <1>15, <1>16, <1>17, <1>18, <1>19, <1>20, <1>21, <1>22, <1>23, <1>24, <1>25
     DEF Next, MainStep, RunStep, EnvStep

(* Threads enter run() only through start() and through stop()'s call of   *)
(* the root fiber.                                                         *)
LEMMA PhaseStep ==
  ASSUME IInv, Next
  PROVE  PhaseOK'
<1> USE SchedulerAssumption
<1> USE DEF IInv, TypeOK, ThreadTypeOK, PhaseOK, threadVars
<1>1. CASE MainSchedule \/ StopAuto \/ StopCallerOnly \/ StopSet \/ StopCall \/ RootReturns \/ Join
  BY <1>1 DEF MainSchedule, StopAuto, StopCallerOnly, StopSet, StopCall, RootReturns, Join
<1>2. CASE Start
  BY <1>2 DEF Start, Threads
<1>3. ASSUME NEW f \in FiberIds, Wake(f) PROVE PhaseOK'
  BY <1>3 DEF Wake
<1>4. ASSUME NEW t \in Threads, JobSchedules(t) \/ SelfSchedule(t) PROVE PhaseOK'
  BY <1>4 DEF JobSchedules, SelfSchedule
<1>5. ASSUME NEW t \in Threads, RunStep(t) PROVE PhaseOK'
  <2>1. pc[t] # "off" /\ main' = main /\ \A u \in Threads : u # t => pc'[u] = pc[u]
    <3>1. CASE PickTask(t) \/ PickNothing(t) \/ Idle(t)
      BY <3>1 DEF PickTask, PickNothing, Idle
    <3>2. CASE DispatchFiber(t) \/ DispatchEnded(t) \/ DispatchCb(t)
      BY <3>2 DEF DispatchFiber, DispatchEnded, DispatchCb, SwapIn
    <3>3. CASE Finish(t) \/ Arm(t) \/ SwapOut(t) \/ Back(t) \/ After(t)
      BY <3>3 DEF Finish, Arm, SwapOut, Back, After
    <3>4. CASE YiledToReady(t) \/ YiledToHold(t)
      BY <3>4 DEF YiledToReady, YiledToHold, YieldTo
    <3> QED
      BY <1>5, <3>1, <3>2, <3>3, <3>4 DEF RunStep
  <2> QED
    BY <2>1
<1>6. CASE Halted
  BY <1>6 DEF Halted, vars
<1> QED
  BY <1>1, <1>2, <1>3, <1>4, <1>5, <1>6 DEF Next, MainStep, EnvStep

-----------------------------------------------------------------------------
(* IInv is an invariant of the scheduler. *)
THEOREM Invariance == Spec => []IInv
<1>1. IInv /\ [Next]_vars => IInv'
  <2> SUFFICES ASSUME IInv, [Next]_vars PROVE IInv'
    OBVIOUS
  <2>1. CASE Next
    BY <2>1, TypeStep, CountersStep, PhaseStep DEF IInv
  <2>2. CASE UNCHANGED vars
    BY <2>2 DEF IInv, TypeOK, SchedTypeOK, FiberTypeOK, ThreadTypeOK, JobTypeOK, CurOK, PhaseOK,
                CountersExact, Busy, IdleThreads, vars, schedVars, fiberVars, threadVars, jobVars
  <2> QED
    BY <2>1, <2>2
<1> QED
  BY InitIInv, <1>1, PTL DEF Spec

(* Type correctness of Scheduler and Fiber: whatever the numbers of        *)
(* threads, jobs, fibers and yields.                                       *)
THEOREM TypeCorrect == Spec => []TypeOK
<1>1. IInv => TypeOK
  BY DEF IInv
<1> QED
  BY Invariance, <1>1, PTL

(* m_activeThreadCount and m_idleThreadCount always equal the numbers of   *)
(* threads that hold a task and that are in the idle fiber, so the ++ and  *)
(* -- on the paths of run() are balanced on every path.                    *)
THEOREM CountersCorrect == Spec => []CountersExact
<1>1. IInv => CountersExact
  BY DEF IInv
<1> QED
  BY Invariance, <1>1, PTL

(* No thread leaves run() while another one holds a task: the step that    *)
(* ends an idle fiber sees an empty list and, the counter being exact, no  *)
(* busy thread.                                                            *)
THEOREM QuietExitCorrect == Spec => QuietExit
<1> DEFINE Quiet == \A t \in Threads : idle_state[t] # "TERM" /\ idle_state'[t] = "TERM"
                                        => m_fibers = <<>> /\ Busy = {}
<1>1. ASSUME IInv, [Next]_vars PROVE [Quiet]_vars
  <2> USE DEF IInv, TypeOK, ThreadTypeOK, threadVars
  <2>1. ASSUME NEW t \in Threads, Idle(t) PROVE Quiet
    <3>1. CASE stopping
      <4>1. Cardinality(Busy) = 0
        BY <1>1, <3>1 DEF stopping, CountersExact
      <4>2. IsFiniteSet(Busy)
        BY ThreadsFinite, FS_Subset DEF Busy
      <4>3. Busy = {}
        BY <4>1, <4>2, FS_EmptySet
      <4> QED
        BY <3>1, <4>3 DEF stopping
    <3>2. CASE ~stopping
      BY <2>1, <3>2 DEF Idle
    <3> QED
      BY <3>1, <3>2
  <2>2. CASE UNCHANGED idle_state
    BY <2>2
  <2>3. ASSUME NEW t \in Threads, RunStep(t), ~Idle(t) PROVE UNCHANGED idle_state
    <3>1. CASE PickTask(t) \/ PickNothing(t)
      BY <3>1 DEF PickTask, PickNothing
    <3>2. CASE DispatchFiber(t) \/ DispatchEnded(t) \/ DispatchCb(t)
      BY <3>2 DEF DispatchFiber, DispatchEnded, DispatchCb
    <3>3. CASE Finish(t) \/ Arm(t) \/ SwapOut(t) \/ Back(t) \/ After(t)
      BY <3>3 DEF Finish, Arm, SwapOut, Back, After
    <3>4. CASE YiledToReady(t) \/ YiledToHold(t)
      BY <3>4 DEF YiledToReady, YiledToHold
    <3> QED
      BY <2>3, <3>1, <3>2, <3>3, <3>4 DEF RunStep
  <2>4. CASE MainStep
    BY <2>4, <2>2 DEF MainStep, Start, StopAuto, StopCallerOnly, StopSet, StopCall, RootReturns, Join
  <2>5. CASE EnvStep
    BY <2>5, <2>2 DEF EnvStep, MainSchedule, JobSchedules, SelfSchedule, Wake
  <2>6. CASE UNCHANGED vars
    BY <2>6
  <2> QED
    BY <1>1, <2>1, <2>2, <2>3, <2>4, <2>5, <2>6 DEF Next, Halted
<1> QED
  BY Invariance, <1>1, PTL DEF Spec, QuietExit

-----------------------------------------------------------------------------
(* Scheduler implements TaskPool as long as jobs only yield to READY: what *)
(* the race of YiledToHold (run sched_race) does not touch.  The argument  *)
(* is one of ownership: a fiber object is in the list once, or belongs to  *)
(* one thread, and a job is at one place.                                  *)


(* The jobs only yield to READY, and do not schedule. *)
OnlyReady == MaxHold = 0 /\ ~Spawns

-----------------------------------------------------------------------------
(* The inductive invariant. *)

(* Thread t refers to fiber f; the list does. *)
Has(t, f) == f = cur[t] \/ f = ft[t].fiber \/ f = cb_fiber[t]
Queued(f) == \E i \in DOMAIN m_fibers : m_fibers[i].fiber = f

(* A fiber is queued once or belongs to one thread; a new one is blank. *)
Apart == \A f \in FiberIds :
    /\ \A i, k \in DOMAIN m_fibers : m_fibers[i].fiber = f /\ m_fibers[k].fiber = f => i = k
    /\ \A t, u \in Threads : Has(t, f) /\ Has(u, f) => t = u
    /\ \A t \in Threads : Has(t, f) => ~Queued(f)
    /\ f \notin created => /\ ~Queued(f) /\ m_state[f] = "INIT" /\ m_cb[f] = None
                           /\ \A t \in Threads : ~Has(t, f)

(* An entry of the list is a callback, or a fiber that waits to run. *)
Entry(task) ==
    \/ /\ task.fiber \in FiberIds /\ task.cb = None
       /\ m_state[task.fiber] \in {"INIT", "READY"} /\ m_cb[task.fiber] # None
    \/ task.fiber = None /\ task.cb \in Jobs

(* A thread and its fiber agree on how far they are. *)
Running == {"exec", "leaving", "back", "after"}
ThreadOK(t) ==
    /\ pc[t] # "holding"
    /\ pc[t] \in {"off", "pick", "idle", "exited"} => ft[t] = NoTask /\ cur[t] = None
    /\ pc[t] = "dispatch" => cur[t] = None /\ Entry(ft[t])
    /\ pc[t] \in Running =>
         /\ ft[t].cb = None
         /\ ft[t].fiber = cur[t] \/ (ft[t].fiber = None /\ cb_fiber[t] = cur[t])
         /\ IF m_state[cur[t]] \in Ended THEN m_cb[cur[t]] \in done \cup {None}
            ELSE m_cb[cur[t]] # None /\ m_cb[cur[t]] \notin done
    /\ pc[t] = "exec" => m_state[cur[t]] = "EXEC"
    /\ pc[t] = "leaving" => m_state[cur[t]] = "READY"
    /\ pc[t] \in {"back", "after"} => m_state[cur[t]] \in Ended \cup {"READY"}
    /\ pc[t] = "after" => seen[t] = m_state[cur[t]]
    /\ cb_fiber[t] # None => ft[t].fiber # cb_fiber[t]
    /\ cb_fiber[t] # None /\ cb_fiber[t] # cur[t] =>
         m_state[cb_fiber[t]] = "INIT" /\ m_cb[cb_fiber[t]] = None

Entries == \A i \in DOMAIN m_fibers : Entry(m_fibers[i])
FibersOK == armed = {} /\ ~aborted /\ Entries /\ \A t \in Threads : ThreadOK(t)

(* A job is a callback in the list, a callback in the hands of a thread,   *)
(* or on a fiber, and only one of them; a job that ended is at most on a   *)
(* fiber it threw out of.                                                  *)
ListedCb(j) == \E i \in DOMAIN m_fibers : m_fibers[i].cb = j
HeldCb(j) == \E t \in Threads : ft[t].cb = j
OnFiber(j) == \E f \in FiberIds : m_cb[f] = j
OnePlace == \A j \in Jobs :
    /\ \A i, k \in DOMAIN m_fibers : m_fibers[i].cb = j /\ m_fibers[k].cb = j => i = k
    /\ \A t, u \in Threads : ft[t].cb = j /\ ft[u].cb = j => t = u
    /\ \A f, g \in FiberIds : m_cb[f] = j /\ m_cb[g] = j => f = g
    /\ ~(ListedCb(j) /\ HeldCb(j)) /\ ~(ListedCb(j) /\ OnFiber(j)) /\ ~(HeldCb(j) /\ OnFiber(j))
    /\ j \in submitted <=> j \in done \/ ListedCb(j) \/ HeldCb(j) \/ OnFiber(j)
    /\ j \in done => ~ListedCb(j) /\ ~HeldCb(j) /\ \A f \in FiberIds : m_cb[f] = j => m_state[f] = "EXCEPT"

(* A fiber with a job to do is queued or belongs to a thread. *)
Placed == \A f \in FiberIds : m_cb[f] # None /\ m_cb[f] \notin done
                               => Queued(f) \/ \E t \in Threads : f = ft[t].fiber \/ f = cur[t]

(* Once an idle fiber has ended, or stop() is past the root fiber, the     *)
(* list only holds entries any thread may take, and the last thread to     *)
(* leave run() leaves it empty.                                            *)
Out(t) == pc[t] \in {"off", "exited"}
RootOut == UseCaller /\ main \in {"join", "stopped"}
Closing == RootOut \/ \E t \in Threads : idle_state[t] = "TERM"
Left == RootOut \/ \E t \in Threads : pc[t] = "exited"
StopOK ==
    /\ m_autoStop => main \notin {"constructed", "started"}
    /\ main = "stop_caller_only" => UseCaller /\ Workers = {}
    /\ RootOut => Out(Root)
    /\ \A t \in Threads : pc[t] = "exited" => idle_state[t] = "TERM"
    /\ Closing => main \notin {"constructed", "started"} /\ \A i \in DOMAIN m_fibers : m_fibers[i].thread = None
    /\ Left /\ m_fibers # <<>> => \E t \in Threads : ~Out(t)
    /\ main = "stopped" => m_fibers = <<>> /\ \A t \in Threads : Out(t)

IPool == IInv /\ Apart /\ FibersOK /\ OnePlace /\ Placed /\ StopOK

-----------------------------------------------------------------------------
(* The list after an append and after an erase. *)
LEMMA AppendEntries ==
  ASSUME m_fibers \in Seq(FiberAndThread), NEW task \in FiberAndThread, Schedule(task)
  PROVE  /\ m_fibers' \in Seq(FiberAndThread)
         /\ Len(m_fibers) \in Nat /\ DOMAIN m_fibers = 1..Len(m_fibers)
         /\ DOMAIN m_fibers' = 1..(Len(m_fibers) + 1)
         /\ \A i \in DOMAIN m_fibers : m_fibers'[i] = m_fibers[i]
         /\ m_fibers'[Len(m_fibers) + 1] = task
BY AppendProperties, LenProperties DEF Schedule

(* A fiber that is not queued is queued once by schedule(), *)
LEMMA AppendOnce ==
  ASSUME m_fibers \in Seq(FiberAndThread), NEW task \in FiberAndThread, Schedule(task), NEW f,
         \A i, k \in DOMAIN m_fibers : m_fibers[i].fiber = f /\ m_fibers[k].fiber = f => i = k,
         task.fiber = f => ~Queued(f)
  PROVE  \A i, k \in DOMAIN m_fibers' : m_fibers'[i].fiber = f /\ m_fibers'[k].fiber = f => i = k
<1>1. \A i \in DOMAIN m_fibers' : \/ i \in DOMAIN m_fibers /\ m_fibers'[i] = m_fibers[i]
                                  \/ i = Len(m_fibers) + 1 /\ m_fibers'[i] = task
  BY AppendEntries
<1>2. task.fiber = f => \A i \in DOMAIN m_fibers : m_fibers[i].fiber # f
  BY DEF Queued
<1> QED
  BY <1>1, <1>2

(* and so is a callback that is not in the list. *)
LEMMA AppendOnceCb ==
  ASSUME m_fibers \in Seq(FiberAndThread), NEW task \in FiberAndThread, Schedule(task), NEW j,
         \A i, k \in DOMAIN m_fibers : m_fibers[i].cb = j /\ m_fibers[k].cb = j => i = k,
         task.cb = j => ~ListedCb(j)
  PROVE  \A i, k \in DOMAIN m_fibers' : m_fibers'[i].cb = j /\ m_fibers'[k].cb = j => i = k
<1>1. \A i \in DOMAIN m_fibers' : \/ i \in DOMAIN m_fibers /\ m_fibers'[i] = m_fibers[i]
                                  \/ i = Len(m_fibers) + 1 /\ m_fibers'[i] = task
  BY AppendEntries
<1>2. task.cb = j => \A i \in DOMAIN m_fibers : m_fibers[i].cb # j
  BY DEF ListedCb
<1> QED
  BY <1>1, <1>2

(* m_fibers.erase: the entries behind the one that is taken move up by one. *)
LEMMA EraseEntries ==
  ASSUME m_fibers \in Seq(FiberAndThread), NEW i \in DOMAIN m_fibers, Erase(i)
  PROVE  /\ Len(m_fibers) \in Nat /\ DOMAIN m_fibers = 1..Len(m_fibers)
         /\ DOMAIN m_fibers' = 1..(Len(m_fibers) - 1)
         /\ \A k \in DOMAIN m_fibers' : m_fibers'[k] = m_fibers[IF k < i THEN k ELSE k + 1]
<1> DEFINE s == m_fibers
           a == SubSeq(s, 1, i - 1)
           b == SubSeq(s, i + 1, Len(s))
<1>1. s \in Seq(FiberAndThread) /\ Len(s) \in Nat /\ DOMAIN s = 1..Len(s) /\ i \in 1..Len(s)
  BY LenProperties
<1>2. a \in Seq(FiberAndThread) /\ Len(a) = i - 1 /\ \A k \in 1..(i - 1) : a[k] = s[k]
  BY <1>1, SubSeqProperties
<1>3. b \in Seq(FiberAndThread) /\ Len(b) = Len(s) - i /\ \A k \in 1..(Len(s) - i) : b[k] = s[i + k]
  BY <1>1, SubSeqProperties
<1>4. m_fibers' = a \o b
  BY DEF Erase, RemoveAt
<1>5. Len(a \o b) = Len(s) - 1 /\ a \o b \in Seq(FiberAndThread)
  BY <1>1, <1>2, <1>3, ConcatProperties
<1>6. ASSUME NEW k \in 1..(Len(s) - 1) PROVE (a \o b)[k] = s[IF k < i THEN k ELSE k + 1]
  <2>1. k \in 1..(Len(a) + Len(b))
    BY <1>1, <1>2, <1>3
  <2>2. (a \o b)[k] = IF k <= Len(a) THEN a[k] ELSE b[k - Len(a)]
    BY <1>2, <1>3, <2>1, ConcatProperties
  <2>3. CASE k < i
    BY <1>1, <1>2, <2>2, <2>3
  <2>4. CASE ~(k < i)
    <3>1. ~(k <= Len(a)) /\ k - Len(a) \in 1..(Len(s) - i) /\ i + (k - Len(a)) = k + 1
      BY <1>1, <1>2, <2>4
    <3>2. b[k - Len(a)] = s[i + (k - Len(a))]
      BY <1>3, <3>1
    <3> QED
      BY <2>2, <2>4, <3>1, <3>2
  <2> QED
    BY <2>3, <2>4
<1> QED
  BY <1>1, <1>4, <1>5, <1>6, LenProperties

(* What an erase keeps: the other entries, each once. *)
LEMMA EraseKeeps ==
  ASSUME m_fibers \in Seq(FiberAndThread), NEW i \in DOMAIN m_fibers, Erase(i)
  PROVE  /\ \A k \in DOMAIN m_fibers' : \E o \in DOMAIN m_fibers : o # i /\ m_fibers'[k] = m_fibers[o]
         /\ \A k, l \in DOMAIN m_fibers' : k # l =>
              \E o, p \in DOMAIN m_fibers : o # p /\ m_fibers'[k] = m_fibers[o] /\ m_fibers'[l] = m_fibers[p]
         /\ \A o \in DOMAIN m_fibers : o # i => \E k \in DOMAIN m_fibers' : m_fibers'[k] = m_fibers[o]
<1>1. /\ Len(m_fibers) \in Nat /\ DOMAIN m_fibers = 1..Len(m_fibers)
      /\ DOMAIN m_fibers' = 1..(Len(m_fibers) - 1)
      /\ \A k \in DOMAIN m_fibers' : m_fibers'[k] = m_fibers[IF k < i THEN k ELSE k + 1]
  BY EraseEntries
<1> DEFINE old(k) == IF k < i THEN k ELSE k + 1
<1>2. \A k \in DOMAIN m_fibers' : old(k) \in DOMAIN m_fibers /\ old(k) # i /\ m_fibers'[k] = m_fibers[old(k)]
  BY <1>1
<1>3. \A k, l \in DOMAIN m_fibers' : k # l => old(k) # old(l)
  BY <1>1
<1>4. \A o \in DOMAIN m_fibers : o # i => \E k \in DOMAIN m_fibers' : old(k) = o
  <2> TAKE o \in DOMAIN m_fibers
  <2> HAVE o # i
  <2>1. CASE o < i
    BY <1>1, <2>1
  <2>2. CASE o > i
    <3>1. o - 1 \in DOMAIN m_fibers' /\ old(o - 1) = o
      BY <1>1, <2>2
    <3> QED
      BY <3>1
  <2> QED
    BY <1>1, <2>1, <2>2
<1> HIDE DEF old
<1> QED
  BY <1>2, <1>3, <1>4

-----------------------------------------------------------------------------
(* The steps that are left when jobs only yield to READY; none aborts. *)
Resumes(t) ==
    /\ pc[t] = "dispatch" /\ ft[t].fiber \in FiberIds
    /\ m_state' = [m_state EXCEPT ![ft[t].fiber] = "EXEC"]
    /\ cur' = [cur EXCEPT ![t] = ft[t].fiber]
    /\ pc' = [pc EXCEPT ![t] = "exec"]
    /\ UNCHANGED <<schedVars, m_cb, created, ft, cb_fiber, seen, idle_state, main, armed, aborted,
                   submitted, pin, readies, holds, done>>

ReadyCalls(t) ==
    /\ pc[t] = "dispatch" /\ ft[t].cb \in Jobs
    /\ \E f \in FiberIds :
         /\ \/ f = cb_fiber[t] /\ UNCHANGED created
            \/ cb_fiber[t] = None /\ f \notin created /\ created' = created \cup {f}
         /\ m_cb' = [m_cb EXCEPT ![f] = ft[t].cb]
         /\ m_state' = [m_state EXCEPT ![f] = "EXEC"]
         /\ cb_fiber' = [cb_fiber EXCEPT ![t] = f]
         /\ cur' = [cur EXCEPT ![t] = f]
    /\ ft' = [ft EXCEPT ![t] = NoTask]
    /\ pc' = [pc EXCEPT ![t] = "exec"]
    /\ UNCHANGED <<schedVars, seen, idle_state, main, armed, aborted, submitted, pin, readies, holds, done>>

Yields(t) ==
    /\ pc[t] = "exec"
    /\ m_state' = [m_state EXCEPT ![cur[t]] = "READY"]
    /\ pc' = [pc EXCEPT ![t] = "leaving"]
    /\ UNCHANGED <<schedVars, m_cb, created, ft, cb_fiber, cur, seen, idle_state, main, armed, aborted,
                   submitted, pin, holds, started, done>>

ReadyNext ==
    \/ MainSchedule
    \/ Start \/ StopAuto \/ StopCallerOnly \/ StopSet \/ StopCall \/ RootReturns \/ Join
    \/ \E t \in Threads : \/ PickTask(t) \/ PickNothing(t) \/ Idle(t) \/ Resumes(t) \/ ReadyCalls(t)
                          \/ Finish(t) \/ Yields(t) \/ SwapOut(t) \/ Back(t) \/ After(t)
    \/ UNCHANGED vars

(* What the types say of single threads, fibers and entries. *)
LEMMA Types ==
  ASSUME TypeOK
  PROVE  /\ m_fibers \in Seq(FiberAndThread) /\ Len(m_fibers) \in Nat /\ DOMAIN m_fibers = 1..Len(m_fibers)
         /\ \A i \in DOMAIN m_fibers : m_fibers[i] \in FiberAndThread
         /\ \A t \in Threads : /\ ft[t] \in FiberAndThread /\ ft[t].fiber \in FiberIds \cup {None}
                               /\ ft[t].cb \in Jobs \cup {None}
                               /\ cur[t] \in FiberIds \cup {None} /\ cb_fiber[t] \in FiberIds \cup {None}
         /\ \A f \in FiberIds : m_state[f] \in State /\ m_cb[f] \in Jobs \cup {None}
         /\ done \subseteq Jobs /\ submitted \subseteq Jobs
         /\ None \notin FiberIds /\ None \notin Jobs
<1>1. m_fibers \in Seq(FiberAndThread)
  BY DEF TypeOK, SchedTypeOK
<1>2. Len(m_fibers) \in Nat /\ DOMAIN m_fibers = 1..Len(m_fibers)
  BY <1>1, LenProperties
<1>3. \A i \in DOMAIN m_fibers : m_fibers[i] \in FiberAndThread
  BY <1>1, <1>2, ElementOfSeq
<1> QED
  BY <1>1, <1>2, <1>3, SchedulerAssumption
     DEF TypeOK, FiberTypeOK, ThreadTypeOK, JobTypeOK, FiberAndThread

(* Jobs that neither hold nor spawn never arm or wake: every step is one of ReadyNext. *)
LEMMA OnlyReadySteps ==
  ASSUME OnlyReady, IPool, Next
  PROVE  ReadyNext
<1> USE DEF IPool, IInv, OnlyReady, FibersOK
<1> USE DEF TypeOK, ThreadTypeOK, ThreadOK, CurOK
<1>1. ASSUME NEW t \in Threads PROVE ~Arm(t)
  BY DEF Arm, JobTypeOK, FiberTypeOK
<1>2. ASSUME NEW t \in Threads PROVE ~YiledToHold(t)
  BY DEF YiledToHold
<1>3. ASSUME NEW f \in FiberIds PROVE ~Wake(f)
  BY DEF Wake
<1>4. ASSUME NEW t \in Threads PROVE ~JobSchedules(t) /\ ~SelfSchedule(t)
  BY DEF JobSchedules, SelfSchedule
<1>5. ASSUME NEW t \in Threads, DispatchFiber(t) PROVE Resumes(t)
  BY <1>5, Types DEF DispatchFiber, SwapIn, Resumes, Entry, schedVars
<1>6. ASSUME NEW t \in Threads PROVE ~DispatchEnded(t)
  BY Types DEF DispatchEnded, Entry, Ended
<1>7. ASSUME NEW t \in Threads, DispatchCb(t) PROVE ReadyCalls(t)
  <2>1. cur[t] = None /\ ft[t].cb \in Jobs
    BY <1>7, Types DEF DispatchCb
  <2>2. CASE cb_fiber[t] # None
    <3>1. m_state[cb_fiber[t]] = "INIT" /\ cb_fiber[t] \in FiberIds
      BY <2>1, <2>2, Types
    <3>2. cb_fiber = [cb_fiber EXCEPT ![t] = cb_fiber[t]]
      OBVIOUS
    <3> QED
      BY <1>7, <2>1, <2>2, <3>1, <3>2 DEF DispatchCb, SwapIn, ReadyCalls, NewFiber, schedVars, Ended
  <2>3. CASE cb_fiber[t] = None
    BY <1>7, <2>1, <2>3 DEF DispatchCb, SwapIn, ReadyCalls, NewFiber, schedVars
  <2> QED
    BY <2>2, <2>3
<1>8. ASSUME NEW t \in Threads, YiledToReady(t) PROVE Yields(t)
  BY <1>8 DEF YiledToReady, YieldTo, Yields, schedVars
<1> QED
  BY <1>1, <1>2, <1>3, <1>4, <1>5, <1>6, <1>7, <1>8 DEF Next, MainStep, RunStep, EnvStep, Halted, ReadyNext

(* The invariant holds when the scheduler is constructed. *)
LEMMA InitIPool == Init => IPool
<1> SUFFICES ASSUME Init PROVE IPool
  OBVIOUS
<1>1. IInv
  BY InitIInv
<1>2. DOMAIN m_fibers = {}
  BY DEF Init
<1>3. Apart
  BY <1>2, SchedulerAssumption DEF Init, Apart, Has, Queued, NoTask
<1>4. FibersOK
  BY <1>2 DEF Init, FibersOK, Entries, ThreadOK, NoTask, Running
<1>5. OnePlace
  BY <1>2, SchedulerAssumption DEF Init, OnePlace, ListedCb, HeldCb, OnFiber, NoTask
<1>6. Placed
  BY DEF Init, Placed
<1>7. StopOK
  BY <1>2 DEF Init, StopOK, RootOut, Closing, Left
<1> QED
  BY <1>1, <1>3, <1>4, <1>5, <1>6, <1>7 DEF IPool

(* schedule() of the user: a callback, or a new fiber, is appended. *)
Submits ==
    /\ main \in {"constructed", "started"}
    /\ \E j \in Jobs, p \in Threads \cup {None} :
         /\ j \notin submitted /\ submitted' = submitted \cup {j}
         /\ \/ Schedule(CbTask(j, p)) /\ UNCHANGED fiberVars
            \/ \E f \in FiberIds \ created :
                 /\ Schedule(FiberTask(f, p))
                 /\ created' = created \cup {f}
                 /\ m_cb' = [m_cb EXCEPT ![f] = j]
                 /\ UNCHANGED m_state
    /\ UNCHANGED <<m_activeThreadCount, m_idleThreadCount, m_stopping, m_autoStop, threadVars, main,
                   armed, aborted, started, done>>

(* schedule() on the calling thread is a submission. *)
LEMMA MainSubmits == MainSchedule => Submits
BY DEF MainSchedule, Submit, NewFiber, Submits, fiberVars

(* Fibers stay apart: they only move between the list and one thread. *)
LEMMA ApartStep ==
  ASSUME IPool, ReadyNext
  PROVE  Apart'
<1> USE DEF IPool, IInv
<1> USE Types, SchedulerAssumption
<1>a. ASSUME UNCHANGED <<m_fibers, cur, ft, cb_fiber, fiberVars>> PROVE Apart'
  BY <1>a DEF Apart, Has, Queued, fiberVars
<1>1. CASE MainSchedule
  <2>0. Submits
    BY <1>1, MainSubmits
  <2>1. PICK j \in Jobs, p \in Threads \cup {None} :
          \/ Schedule(CbTask(j, p)) /\ UNCHANGED fiberVars
          \/ \E f \in FiberIds \ created :
                 /\ Schedule(FiberTask(f, p))
                 /\ created' = created \cup {f}
                 /\ m_cb' = [m_cb EXCEPT ![f] = j]
                 /\ UNCHANGED m_state
    BY <2>0 DEF Submits
  <2>2. CASE Schedule(CbTask(j, p)) /\ UNCHANGED fiberVars
    <3>1. CbTask(j, p) \in FiberAndThread /\ CbTask(j, p).fiber = None
      BY TaskTypes DEF CbTask
    <3>2. \A f \in FiberIds : Queued(f)' => Queued(f)
      BY <2>2, <3>1, AppendEntries DEF Queued
    <3> QED
      BY <2>0, <2>2, <3>1, <3>2, AppendEntries DEF Apart, Has, Submits, threadVars, fiberVars
  <2>3. ASSUME NEW f \in FiberIds \ created, Schedule(FiberTask(f, p)), created' = created \cup {f},
               m_cb' = [m_cb EXCEPT ![f] = j], UNCHANGED m_state
        PROVE  Apart'
    <3>1. FiberTask(f, p) \in FiberAndThread /\ FiberTask(f, p).fiber = f
      BY TaskTypes DEF FiberTask
    <3>2. \A g \in FiberIds : g # f => (Queued(g)' => Queued(g))
      BY <2>3, <3>1, AppendEntries DEF Queued
    <3>3. ~Queued(f) /\ \A t \in Threads : ~Has(t, f)
      BY DEF Apart
    <3>4. \A g \in FiberIds : \A i, k \in DOMAIN m_fibers' : m_fibers'[i].fiber = g /\ m_fibers'[k].fiber = g => i = k
      BY <2>3, <3>1, <3>3, AppendOnce DEF Apart
    <3>5. UNCHANGED <<cur, ft, cb_fiber>>
      BY <2>0 DEF Submits, threadVars
    <3>6. \A g \in FiberIds, t \in Threads : Has(t, g)' <=> Has(t, g)
      BY <3>5 DEF Has
    <3>7. \A g \in FiberIds : g # f => m_cb'[g] = m_cb[g] /\ m_state'[g] = m_state[g]
      BY <2>3 DEF FiberTypeOK, TypeOK
    <3>8. \A g \in FiberIds : g \notin created' => g # f /\ g \notin created
      BY <2>3
    <3> QED
      BY <3>2, <3>3, <3>4, <3>6, <3>7, <3>8 DEF Apart
  <2> QED
    BY <2>1, <2>2, <2>3
<1>2. CASE Start \/ StopAuto \/ StopCallerOnly \/ StopSet \/ StopCall \/ RootReturns \/ Join
  BY <1>2, <1>a DEF Start, StopAuto, StopCallerOnly, StopSet, StopCall, RootReturns, Join, schedVars, threadVars
<1>3. ASSUME NEW t \in Threads, PickTask(t) PROVE Apart'
  <2>1. PICK i \in DOMAIN m_fibers : ft' = [ft EXCEPT ![t] = m_fibers[i]] /\ Erase(i)
    BY <1>3 DEF PickTask
  <2>2. \A f \in FiberIds : Queued(f)' => Queued(f) /\ m_fibers[i].fiber # f
    BY <2>1, EraseKeeps DEF Apart, Queued
  <2>3. \A f \in FiberIds, u \in Threads : Has(u, f)' => Has(u, f) \/ (u = t /\ m_fibers[i].fiber = f)
    BY <1>3, <2>1 DEF PickTask, Has, TypeOK, ThreadTypeOK
  <2>4. \A f \in FiberIds : \A k, l \in DOMAIN m_fibers' :
          m_fibers'[k].fiber = f /\ m_fibers'[l].fiber = f => k = l
    BY <2>1, EraseKeeps DEF Apart
  <2>5. Queued(m_fibers[i].fiber)
    BY DEF Queued
  <2> QED
    BY <1>3, <2>2, <2>3, <2>4, <2>5 DEF Apart, PickTask, fiberVars
<1>4. ASSUME NEW t \in Threads, PickNothing(t) \/ Idle(t) \/ SwapOut(t) \/ Back(t) PROVE Apart'
  BY <1>4, <1>a DEF PickNothing, Idle, SwapOut, Back, schedVars
<1>5. ASSUME NEW t \in Threads, Resumes(t) PROVE Apart'
  <2>1. \A f \in FiberIds, u \in Threads : Has(u, f)' => Has(u, f)
    BY <1>5 DEF Resumes, Has, TypeOK, ThreadTypeOK
  <2>2. ft[t].fiber \in created
    BY <1>5 DEF Apart, Has, Resumes
  <2> QED
    BY <1>5, <2>1, <2>2 DEF Apart, Queued, Resumes, schedVars, TypeOK, FiberTypeOK
<1>6. ASSUME NEW t \in Threads, ReadyCalls(t) PROVE Apart'
  <2>1. PICK f \in FiberIds :
         /\ \/ f = cb_fiber[t] /\ UNCHANGED created
            \/ cb_fiber[t] = None /\ f \notin created /\ created' = created \cup {f}
         /\ m_cb' = [m_cb EXCEPT ![f] = ft[t].cb]
         /\ m_state' = [m_state EXCEPT ![f] = "EXEC"]
         /\ cb_fiber' = [cb_fiber EXCEPT ![t] = f]
         /\ cur' = [cur EXCEPT ![t] = f]
    BY <1>6 DEF ReadyCalls
  <2>2. \A g \in FiberIds, u \in Threads : Has(u, g)' => Has(u, g) \/ (u = t /\ g = f)
    BY <1>6, <2>1 DEF ReadyCalls, Has, TypeOK, ThreadTypeOK, NoTask
  <2>3. f \in created' /\ ~Queued(f) /\ \A u \in Threads : u # t => ~Has(u, f)
    BY <2>1 DEF Apart, Has
  <2> QED
    BY <1>6, <2>1, <2>2, <2>3 DEF Apart, Queued, ReadyCalls, schedVars, TypeOK, FiberTypeOK
<1>7. ASSUME NEW t \in Threads, Finish(t) \/ Yields(t) PROVE Apart'
  <2>1. cur[t] \in created
    BY <1>7 DEF Apart, Has, Finish, Yields, CurOK
  <2> QED
    BY <1>7, <2>1 DEF Apart, Has, Queued, Finish, Yields, schedVars, TypeOK, FiberTypeOK
<1>8. ASSUME NEW t \in Threads, After(t) PROVE Apart'
  <2>0. PICK f \in FiberIds : f = cur[t]
    BY <1>8 DEF After, CurOK
  <2>1. Has(t, f) /\ f \in created /\ ~Queued(f)
    BY <2>0 DEF Apart, Has
  <2>2. \A g \in FiberIds, u \in Threads : Has(u, g)' => Has(u, g)
    BY <1>8 DEF After, Has, TypeOK, ThreadTypeOK, NoTask
  <2>3. CASE ~Reschedules(t)
    BY <1>8, <2>0, <2>1, <2>2, <2>3 DEF Apart, Queued, After, TypeOK, FiberTypeOK
  <2>4. CASE Reschedules(t)
    <3>1. FiberTask(f, None) \in FiberAndThread /\ FiberTask(f, None).fiber = f
      BY TaskTypes DEF FiberTask
    <3>2. Schedule(FiberTask(f, None))
      BY <1>8, <2>0, <2>4 DEF After
    <3>3. \A g \in FiberIds : g # f => (Queued(g)' => Queued(g))
      BY <3>1, <3>2, AppendEntries DEF Queued
    <3>4. \A u \in Threads : ~Has(u, f)'
      <4>1. ~KeepsCbFiber(t)
        BY <2>4 DEF Reschedules, KeepsCbFiber, Ended
      <4>2. \A u \in Threads : u # t => ~Has(u, f)
        BY <2>1 DEF Apart
      <4>3. ~Has(t, f)'
        BY <1>8, <2>0, <4>1 DEF After, Has, TypeOK, ThreadTypeOK, NoTask, FibersOK, ThreadOK, Running
      <4> QED
        BY <2>1, <2>2, <4>2, <4>3
    <3>5. \A g \in FiberIds : \A i, k \in DOMAIN m_fibers' : m_fibers'[i].fiber = g /\ m_fibers'[k].fiber = g => i = k
      BY <2>1, <3>1, <3>2, AppendOnce DEF Apart
    <3>6. created' = created /\ \A g \in FiberIds : g # f => m_cb'[g] = m_cb[g] /\ m_state'[g] = m_state[g]
      BY <1>8, <2>0 DEF After, TypeOK, FiberTypeOK
    <3> QED
      BY <2>1, <2>2, <3>3, <3>4, <3>5, <3>6 DEF Apart
  <2> QED
    BY <2>3, <2>4
<1>9. CASE UNCHANGED vars
  BY <1>9, <1>a DEF vars, schedVars, threadVars
<1> QED
  BY <1>1, <1>2, <1>3, <1>4, <1>5, <1>6, <1>7, <1>8, <1>9 DEF ReadyNext

-----------------------------------------------------------------------------
(* A thread whose fibers are left alone stays as it is, and so does an     *)
(* entry.                                                                  *)
Same(f) == m_state'[f] = m_state[f] /\ m_cb'[f] = m_cb[f] /\ (m_cb[f] \in done' <=> m_cb[f] \in done)
Keeps(u) ==
    /\ pc'[u] = pc[u] /\ ft'[u] = ft[u] /\ cur'[u] = cur[u] /\ cb_fiber'[u] = cb_fiber[u] /\ seen'[u] = seen[u]
    /\ \A f \in FiberIds : Has(u, f) => Same(f)

(* An entry of the list stays right while its fiber is left alone. *)
LEMMA EntryKept ==
  ASSUME NEW task \in FiberAndThread, Entry(task), task.fiber \in FiberIds => Same(task.fiber)
  PROVE  Entry(task)'
BY DEF Entry, Same

(* A thread that takes no step stays right while its fibers are left alone. *)
LEMMA ThreadKept ==
  ASSUME TypeOK, CurOK, NEW u \in Threads, ThreadOK(u), Keeps(u)
  PROVE  ThreadOK(u)'
<1> USE Types DEF ThreadOK, Keeps, Has, Same
<1>1. pc[u] = "dispatch" => Entry(ft[u])'
  BY DEF Entry
<1>2. pc[u] \in Running => cur[u] \in FiberIds
  BY DEF CurOK, Running
<1>3. pc[u] \in Running => ThreadOK(u)'
  BY <1>2 DEF Running
<1>4. pc[u] \notin Running => ThreadOK(u)'
  BY <1>1 DEF Running
<1> QED
  BY <1>3, <1>4

(* One thread moves and changes fibers of its own, or nobody's: what is    *)
(* left to show is that this thread, and a new entry, are well.            *)
LEMMA OwnStep ==
  ASSUME TypeOK, CurOK, Apart, FibersOK, UNCHANGED <<armed, aborted>>,
         NEW t \in Threads, ThreadOK(t)',
         \A u \in Threads : u # t =>
            pc'[u] = pc[u] /\ ft'[u] = ft[u] /\ cur'[u] = cur[u] /\ cb_fiber'[u] = cb_fiber[u] /\ seen'[u] = seen[u],
         \A f \in FiberIds : Same(f) \/ Has(t, f) \/ f \notin created,
         \A k \in DOMAIN m_fibers' : \/ \E o \in DOMAIN m_fibers : m_fibers'[k] = m_fibers[o]
                                     \/ \E e \in FiberAndThread : m_fibers'[k] = e /\ Entry(e)'
  PROVE  FibersOK'
<1> USE Types
<1>1. ASSUME NEW u \in Threads, u # t PROVE ThreadOK(u)'
  <2>1. \A f \in FiberIds : Has(u, f) => Same(f)
    BY <1>1 DEF Apart
  <2> QED
    BY <1>1, <2>1, ThreadKept DEF FibersOK, Keeps
<1>2. ASSUME NEW k \in DOMAIN m_fibers', NEW o \in DOMAIN m_fibers, m_fibers'[k] = m_fibers[o]
      PROVE  \E e \in FiberAndThread : m_fibers'[k] = e /\ Entry(e)'
  <2>1. PICK task \in FiberAndThread : task = m_fibers[o]
    OBVIOUS
  <2>2. task.fiber \in FiberIds => Same(task.fiber)
    BY <2>1 DEF Apart, Queued
  <2>3. Entry(task)'
    BY <2>1, <2>2, EntryKept DEF FibersOK, Entries
  <2> QED
    BY <1>2, <2>1, <2>3
<1>3. Entries'
  BY <1>2 DEF Entries, Entry
<1> QED
  BY <1>1, <1>3 DEF FibersOK

(* Threads and their fibers go on agreeing on how far they are. *)
LEMMA FibersStep ==
  ASSUME IPool, ReadyNext
  PROVE  FibersOK'
<1> USE DEF IPool, IInv
<1> USE Types, SchedulerAssumption
<1>x. TypeOK /\ CurOK /\ Apart /\ FibersOK
  OBVIOUS
<1>a. ASSUME UNCHANGED <<m_fibers, cur, ft, cb_fiber, seen, m_state, m_cb, done, armed, aborted>>,
             \A u \in Threads : pc'[u] = pc[u] \/ (pc[u] \in {"off", "pick", "idle", "exited"}
                                                   /\ pc'[u] \in {"off", "pick", "idle", "exited"})
      PROVE  FibersOK'
  <2>1. \A i \in DOMAIN m_fibers : Entry(m_fibers[i])'
    BY <1>a DEF FibersOK, Entries, Entry
  <2>2. ASSUME NEW u \in Threads PROVE ThreadOK(u)'
    <3>1. CASE pc'[u] = pc[u]
      BY <1>a, <1>x, <3>1, ThreadKept DEF FibersOK, Keeps, Same
    <3>2. CASE pc'[u] # pc[u]
      BY <1>a, <3>2 DEF FibersOK, ThreadOK, Running
    <3> QED
      BY <3>1, <3>2
  <2> QED
    BY <1>a, <2>1, <2>2 DEF FibersOK, Entries
<1>1. CASE MainSchedule
  <2>0. Submits
    BY <1>1, MainSubmits
  <2>1. PICK j \in Jobs, p \in Threads \cup {None} :
          /\ j \notin submitted
          /\ \/ Schedule(CbTask(j, p)) /\ UNCHANGED fiberVars
             \/ \E f \in FiberIds \ created :
                 /\ Schedule(FiberTask(f, p))
                 /\ created' = created \cup {f}
                 /\ m_cb' = [m_cb EXCEPT ![f] = j]
                 /\ UNCHANGED m_state
    BY <2>0 DEF Submits
  <2>2. \A f \in created : Same(f)
    BY <2>0, <2>1 DEF Submits, Same, fiberVars, TypeOK, FiberTypeOK
  <2>3. ASSUME NEW u \in Threads PROVE ThreadOK(u)'
    <3>1. \A f \in FiberIds : Has(u, f) => Same(f)
      BY <2>2 DEF Apart
    <3> QED
      BY <2>0, <3>1, <1>x, ThreadKept DEF FibersOK, Keeps, Submits, threadVars
  <2>4. PICK task \in FiberAndThread : Schedule(task) /\ Entry(task)'
    <3>1. CASE Schedule(CbTask(j, p)) /\ UNCHANGED fiberVars
      BY <3>1, TaskTypes DEF Entry, CbTask
    <3>2. ASSUME NEW f \in FiberIds \ created, Schedule(FiberTask(f, p)), m_cb' = [m_cb EXCEPT ![f] = j],
                 UNCHANGED m_state
          PROVE  Schedule(FiberTask(f, p)) /\ Entry(FiberTask(f, p))'
      BY <3>2 DEF Entry, FiberTask, Apart, TypeOK, FiberTypeOK
    <3> QED
      BY <2>1, <3>1, <3>2, TaskTypes
  <2>5. ASSUME NEW k \in DOMAIN m_fibers PROVE \E e \in FiberAndThread : m_fibers'[k] = e /\ Entry(e)'
    <3>1. PICK e \in FiberAndThread : e = m_fibers[k]
      OBVIOUS
    <3>2. e.fiber \in FiberIds => Same(e.fiber)
      BY <3>1, <2>2 DEF Apart, Queued
    <3>3. Entry(e)'
      BY <3>1, <3>2, EntryKept DEF FibersOK, Entries
    <3> QED
      BY <2>4, <3>1, <3>3, AppendEntries
  <2>6. Entries'
    BY <2>4, <2>5, AppendEntries DEF Entries, Entry
  <2> QED
    BY <2>0, <2>3, <2>6 DEF FibersOK, Submits
<1>2. CASE Start \/ StopAuto \/ StopCallerOnly \/ StopSet \/ StopCall \/ RootReturns \/ Join
  BY <1>2, <1>a DEF Start, StopAuto, StopCallerOnly, StopSet, StopCall, RootReturns, Join,
                    schedVars, fiberVars, threadVars, jobVars, PhaseOK, TypeOK, ThreadTypeOK
<1>4. ASSUME NEW t \in Threads, PickNothing(t) \/ Idle(t) PROVE FibersOK'
  BY <1>4, <1>a DEF PickNothing, Idle, schedVars, fiberVars, jobVars, TypeOK, ThreadTypeOK
<1>9. CASE UNCHANGED vars
  BY <1>9, <1>a DEF vars, schedVars, threadVars, fiberVars, jobVars
<1>3. ASSUME NEW t \in Threads, PickTask(t) PROVE FibersOK'
  <2>1. PICK i \in DOMAIN m_fibers : ft' = [ft EXCEPT ![t] = m_fibers[i]] /\ Erase(i)
    BY <1>3 DEF PickTask
  <2>2. \A f \in FiberIds : Same(f)
    BY <1>3 DEF PickTask, fiberVars, jobVars, Same
  <2>3. PICK task \in FiberAndThread : task = m_fibers[i]
    OBVIOUS
  <2>4. Entry(task)' /\ Entry(task)
    BY <2>2, <2>3, EntryKept DEF FibersOK, Entries
  <2>5. ft'[t] = task /\ pc'[t] = "dispatch" /\ cur'[t] = None /\ cb_fiber'[t] = cb_fiber[t]
    BY <1>3, <2>1, <2>3 DEF PickTask, FibersOK, ThreadOK, TypeOK, ThreadTypeOK
  <2>6. cb_fiber[t] # None => task.fiber # cb_fiber[t]
    BY <2>3 DEF Apart, Has, Queued
  <2>7. cb_fiber[t] # None => m_state'[cb_fiber[t]] = "INIT" /\ m_cb'[cb_fiber[t]] = None
    BY <1>3, <2>2 DEF PickTask, FibersOK, ThreadOK, Same
  <2>8. ThreadOK(t)'
    BY <2>4, <2>5, <2>6, <2>7 DEF ThreadOK, Running
  <2>9. \A k \in DOMAIN m_fibers' : \E o \in DOMAIN m_fibers : m_fibers'[k] = m_fibers[o]
    BY <2>1, EraseKeeps
  <2> QED
    BY <1>3, <1>x, <2>2, <2>8, <2>9, OwnStep DEF PickTask, TypeOK, ThreadTypeOK
<1>5. ASSUME NEW t \in Threads, Resumes(t) PROVE FibersOK'
  <2>1. PICK f \in FiberIds : f = ft[t].fiber
    BY <1>5 DEF Resumes
  <2>2. \A g \in FiberIds : g # f => Same(g)
    BY <1>5, <2>1 DEF Resumes, Same, TypeOK, FiberTypeOK
  <2>3. /\ ft'[t] = ft[t] /\ pc'[t] = "exec" /\ cur'[t] = f /\ cb_fiber'[t] = cb_fiber[t]
        /\ m_state'[f] = "EXEC" /\ m_cb'[f] = m_cb[f] /\ done' = done
    BY <1>5, <2>1 DEF Resumes, TypeOK, ThreadTypeOK, FiberTypeOK
  <2>4. Entry(ft[t]) /\ ft[t].cb = None /\ m_cb[f] # None /\ cur[t] = None
    BY <1>5, <2>1 DEF Resumes, FibersOK, ThreadOK, Entry
  <2>5. m_cb[f] \notin done
    BY <2>1, <2>4 DEF OnePlace, Entry
  <2>6. cb_fiber[t] # None => /\ cb_fiber[t] # f
                              /\ m_state'[cb_fiber[t]] = "INIT" /\ m_cb'[cb_fiber[t]] = None
    BY <2>1, <2>2, <2>4 DEF FibersOK, ThreadOK, Same
  <2>7. ThreadOK(t)'
    BY <2>1, <2>3, <2>4, <2>5, <2>6 DEF ThreadOK, Running, Ended
  <2> QED
    BY <1>5, <1>x, <2>1, <2>2, <2>7, OwnStep DEF Resumes, schedVars, Has, TypeOK, ThreadTypeOK
<1>6. ASSUME NEW t \in Threads, ReadyCalls(t) PROVE FibersOK'
  <2>1. PICK f \in FiberIds :
         /\ \/ f = cb_fiber[t] /\ UNCHANGED created
            \/ cb_fiber[t] = None /\ f \notin created /\ created' = created \cup {f}
         /\ m_cb' = [m_cb EXCEPT ![f] = ft[t].cb]
         /\ m_state' = [m_state EXCEPT ![f] = "EXEC"]
         /\ cb_fiber' = [cb_fiber EXCEPT ![t] = f]
         /\ cur' = [cur EXCEPT ![t] = f]
    BY <1>6 DEF ReadyCalls
  <2>2. \A g \in FiberIds : g # f => Same(g)
    BY <1>6, <2>1 DEF ReadyCalls, Same, TypeOK, FiberTypeOK
  <2>3. /\ ft'[t] = NoTask /\ pc'[t] = "exec" /\ cur'[t] = f /\ cb_fiber'[t] = f
        /\ m_state'[f] = "EXEC" /\ m_cb'[f] = ft[t].cb /\ ft[t].cb \in Jobs /\ done' = done
    BY <1>6, <2>1 DEF ReadyCalls, TypeOK, ThreadTypeOK, FiberTypeOK
  <2>4. ft[t].cb \notin done
    BY <2>3 DEF OnePlace, HeldCb
  <2>5. ThreadOK(t)'
    BY <2>3, <2>4 DEF ThreadOK, Running, Ended, NoTask
  <2> QED
    BY <1>6, <1>x, <2>1, <2>2, <2>5, OwnStep DEF ReadyCalls, schedVars, Has, TypeOK, ThreadTypeOK
<1>7. ASSUME NEW t \in Threads, Finish(t) \/ Yields(t) \/ SwapOut(t) \/ Back(t) PROVE FibersOK'
  <2>1. PICK f \in FiberIds : f = cur[t]
    BY <1>7 DEF Finish, Yields, SwapOut, Back, CurOK
  <2>2. \A g \in FiberIds : g # f => Same(g)
    <3>1. CASE Finish(t)
      <4>1. \A g \in FiberIds : g # f => m_cb[g] # m_cb[f] \/ m_cb[g] = None
        BY DEF OnePlace
      <4> QED
        BY <2>1, <3>1, <4>1 DEF Finish, Same, TypeOK, FiberTypeOK
    <3>2. CASE Yields(t) \/ SwapOut(t) \/ Back(t)
      BY <2>1, <3>2 DEF Yields, SwapOut, Back, fiberVars, jobVars, Same, TypeOK, FiberTypeOK
    <3> QED
      BY <1>7, <3>1, <3>2
  <2>3. /\ ft'[t] = ft[t] /\ cur'[t] = f /\ cb_fiber'[t] = cb_fiber[t]
        /\ pc'[t] \in {"leaving", "back", "after"} /\ pc[t] \in Running
    BY <1>7, <2>1 DEF Finish, Yields, SwapOut, Back, TypeOK, ThreadTypeOK, Running
  <2>a. ASSUME ThreadOK(t)' PROVE FibersOK'
    BY <1>7, <1>x, <2>1, <2>2, <2>a, OwnStep
       DEF Finish, Yields, SwapOut, Back, schedVars, Has, TypeOK, ThreadTypeOK
  <2>b. /\ ft[t].cb = None
        /\ ft[t].fiber = f \/ (ft[t].fiber = None /\ cb_fiber[t] = f)
        /\ cb_fiber[t] # None => ft[t].fiber # cb_fiber[t]
        /\ cb_fiber[t] # None /\ cb_fiber[t] # f =>
             m_state'[cb_fiber[t]] = "INIT" /\ m_cb'[cb_fiber[t]] = None
    BY <2>1, <2>2, <2>3 DEF FibersOK, ThreadOK, Same
  <2>4. CASE Finish(t)
    <3>1. pc'[t] = "back" /\ m_state'[f] \in Ended /\ m_cb'[f] \in done' \cup {None}
      BY <2>1, <2>4 DEF Finish, Ended, TypeOK, ThreadTypeOK, FiberTypeOK
    <3> QED
      BY <2>a, <2>b, <2>3, <3>1 DEF ThreadOK, Running
  <2>5. CASE Yields(t)
    <3>1. /\ pc'[t] = "leaving" /\ m_state'[f] = "READY" /\ m_cb'[f] = m_cb[f] /\ done' = done
          /\ m_state[f] = "EXEC" /\ pc[t] = "exec"
      BY <2>1, <2>5 DEF Yields, TypeOK, ThreadTypeOK, FiberTypeOK, FibersOK, ThreadOK
    <3>2. m_cb'[f] # None /\ m_cb'[f] \notin done'
      BY <2>1, <2>3, <3>1 DEF ThreadOK, FibersOK, Ended
    <3> QED
      BY <2>a, <2>b, <2>3, <3>1, <3>2 DEF ThreadOK, Running, Ended
  <2>6. CASE SwapOut(t) \/ Back(t)
    <3>1. /\ m_state'[f] = m_state[f] /\ m_cb'[f] = m_cb[f] /\ done' = done
          /\ pc'[t] \in {"back", "after"} /\ (pc'[t] = "after" => seen'[t] = m_state[f])
          /\ m_state[f] \in Ended \cup {"READY"}
      BY <2>1, <2>6 DEF SwapOut, Back, fiberVars, jobVars, TypeOK, ThreadTypeOK, FiberTypeOK, FibersOK, ThreadOK
    <3>2. IF m_state[f] \in Ended THEN m_cb[f] \in done \cup {None} ELSE m_cb[f] # None /\ m_cb[f] \notin done
      BY <2>1, <2>3 DEF ThreadOK, FibersOK
    <3> QED
      BY <2>a, <2>b, <2>3, <3>1, <3>2 DEF ThreadOK, Running
  <2> QED
    BY <1>7, <2>4, <2>5, <2>6
<1>8. ASSUME NEW t \in Threads, After(t) PROVE FibersOK'
  <2>1. PICK f \in FiberIds : f = cur[t]
    BY <1>8 DEF After, CurOK
  <2>2. \A g \in FiberIds : g # f => Same(g)
    BY <1>8, <2>1 DEF After, jobVars, Same, TypeOK, FiberTypeOK
  <2>3. /\ ft'[t] = NoTask /\ cur'[t] = None /\ pc'[t] = "pick" /\ pc[t] = "after" /\ seen[t] = m_state[f]
        /\ done' = done
    BY <1>8, <2>1 DEF After, jobVars, TypeOK, ThreadTypeOK, FibersOK, ThreadOK
  <2>4. cb_fiber'[t] # None => m_state'[cb_fiber'[t]] = "INIT" /\ m_cb'[cb_fiber'[t]] = None
    <3>1. CASE KeepsCbFiber(t)
      <4>1. cb_fiber'[t] = f /\ m_state'[f] = "INIT" /\ m_cb'[f] = None
        <5>1. cb_fiber[t] = f
          BY <2>1, <2>3, <3>1 DEF KeepsCbFiber, FibersOK, ThreadOK, Running
        <5>2. StateAfter(t) = "INIT"
          <6>1. seen[t] # "READY"
            BY <3>1 DEF KeepsCbFiber, Ended
          <6> QED
            BY <3>1, <6>1, Zenon DEF StateAfter
        <5> QED
          BY <1>8, <2>1, <3>1, <5>1, <5>2 DEF After, TypeOK, FiberTypeOK
      <4> QED
        BY <4>1
    <3>2. CASE ~KeepsCbFiber(t) /\ ft[t].fiber = None
      BY <1>8, <3>2 DEF After, TypeOK, ThreadTypeOK
    <3>3. CASE ft[t].fiber # None
      <4>1. cb_fiber'[t] = cb_fiber[t] /\ (cb_fiber[t] # None => cb_fiber[t] # f)
        BY <1>8, <2>1, <2>3, <3>3 DEF After, KeepsCbFiber, FibersOK, ThreadOK, Running
      <4> QED
        BY <2>1, <2>2, <4>1 DEF FibersOK, ThreadOK, Same
    <3> QED
      BY <3>1, <3>2, <3>3
  <2>5. ThreadOK(t)'
    BY <2>3, <2>4 DEF ThreadOK, Running, NoTask
  <2>6. CASE ~Reschedules(t)
    BY <1>8, <1>x, <2>1, <2>2, <2>5, <2>6, OwnStep DEF After, Has, TypeOK, ThreadTypeOK
  <2>7. CASE Reschedules(t)
    <3>1. m_state'[f] = "READY" /\ m_cb'[f] = m_cb[f] /\ m_cb[f] # None
      BY <1>8, <2>1, <2>3, <2>7
         DEF After, Reschedules, KeepsCbFiber, StateAfter, Ended, FibersOK, ThreadOK, Running, TypeOK, FiberTypeOK
    <3>2. PICK e \in FiberAndThread : e = FiberTask(f, None)
      BY TaskTypes
    <3>3. Schedule(e) /\ Entry(e)'
      BY <1>8, <2>1, <2>7, <3>1, <3>2 DEF After, Entry, FiberTask
    <3>4. \A k \in DOMAIN m_fibers' : \/ \E o \in DOMAIN m_fibers : m_fibers'[k] = m_fibers[o]
                                      \/ m_fibers'[k] = e
      <4>1. /\ DOMAIN m_fibers' = 1..(Len(m_fibers) + 1)
            /\ \A k \in DOMAIN m_fibers : m_fibers'[k] = m_fibers[k]
            /\ m_fibers'[Len(m_fibers) + 1] = e
        BY <3>3, AppendEntries
      <4> TAKE k \in DOMAIN m_fibers'
      <4>2. k \in DOMAIN m_fibers \/ k = Len(m_fibers) + 1
        BY <4>1
      <4> QED
        BY <4>1, <4>2
    <3> QED
      BY <1>8, <1>x, <2>1, <2>2, <2>5, <3>3, <3>4, OwnStep DEF After, Has, TypeOK, ThreadTypeOK
  <2> QED
    BY <2>6, <2>7
<1> QED
  BY <1>1, <1>2, <1>3, <1>4, <1>5, <1>6, <1>7, <1>8, <1>9 DEF ReadyNext

-----------------------------------------------------------------------------
(* Which callbacks and fibers are in the list after an append and an erase. *)
LEMMA AppendListed ==
  ASSUME TypeOK, NEW task \in FiberAndThread, Schedule(task)
  PROVE  /\ \A j \in Jobs : ListedCb(j)' <=> ListedCb(j) \/ task.cb = j
         /\ \A f \in FiberIds : Queued(f)' <=> Queued(f) \/ task.fiber = f
<1>1. /\ DOMAIN m_fibers = 1..Len(m_fibers) /\ Len(m_fibers) \in Nat
      /\ DOMAIN m_fibers' = 1..(Len(m_fibers) + 1)
      /\ \A k \in DOMAIN m_fibers : m_fibers'[k] = m_fibers[k]
      /\ m_fibers'[Len(m_fibers) + 1] = task
  BY Types, AppendEntries
<1>2. \A k \in DOMAIN m_fibers' : k \in DOMAIN m_fibers \/ k = Len(m_fibers) + 1
  BY <1>1
<1>3. DOMAIN m_fibers \subseteq DOMAIN m_fibers' /\ Len(m_fibers) + 1 \in DOMAIN m_fibers'
  BY <1>1
<1> QED
  BY <1>1, <1>2, <1>3 DEF ListedCb, Queued

(* m_fibers.erase: only what the erased entry named leaves the list. *)
LEMMA EraseListed ==
  ASSUME TypeOK, Apart, OnePlace, NEW i \in DOMAIN m_fibers, Erase(i)
  PROVE  /\ \A j \in Jobs : ListedCb(j)' <=> ListedCb(j) /\ m_fibers[i].cb # j
         /\ \A f \in FiberIds : Queued(f)' <=> Queued(f) /\ m_fibers[i].fiber # f
<1>1. /\ \A k \in DOMAIN m_fibers' : \E o \in DOMAIN m_fibers : o # i /\ m_fibers'[k] = m_fibers[o]
      /\ \A o \in DOMAIN m_fibers : o # i => \E k \in DOMAIN m_fibers' : m_fibers'[k] = m_fibers[o]
  BY Types, EraseKeeps
<1> QED
  BY <1>1 DEF ListedCb, Queued, Apart, OnePlace

(* A job stays at one place. *)
LEMMA OnePlaceStep ==
  ASSUME IPool, ReadyNext
  PROVE  OnePlace'
<1> USE DEF IPool, IInv
<1> USE Types, SchedulerAssumption
<1>a. ASSUME UNCHANGED <<m_fibers, ft, m_cb, m_state, submitted, done>> PROVE OnePlace'
  BY <1>a DEF OnePlace, ListedCb, HeldCb, OnFiber
<1>1. CASE MainSchedule
  <2>0. Submits
    BY <1>1, MainSubmits
  <2>1. PICK j \in Jobs, p \in Threads \cup {None} :
          /\ j \notin submitted /\ submitted' = submitted \cup {j}
          /\ \/ Schedule(CbTask(j, p)) /\ UNCHANGED fiberVars
             \/ \E f \in FiberIds \ created :
                 /\ Schedule(FiberTask(f, p))
                 /\ created' = created \cup {f}
                 /\ m_cb' = [m_cb EXCEPT ![f] = j]
                 /\ UNCHANGED m_state
    BY <2>0 DEF Submits
  <2>2. UNCHANGED <<ft, done, m_state>>
    BY <2>0, <2>1 DEF Submits, threadVars, fiberVars
  <2>3. j \notin done /\ ~ListedCb(j) /\ ~HeldCb(j) /\ ~OnFiber(j)
    BY <2>1 DEF OnePlace
  <2>4. CASE Schedule(CbTask(j, p)) /\ UNCHANGED fiberVars
    <3>1. CbTask(j, p) \in FiberAndThread /\ CbTask(j, p).cb = j
      BY TaskTypes DEF CbTask
    <3>2. \A k \in Jobs : ListedCb(k)' <=> ListedCb(k) \/ k = j
      BY <2>4, <3>1, AppendListed
    <3>3. \A k \in Jobs : \A a, b \in DOMAIN m_fibers' : m_fibers'[a].cb = k /\ m_fibers'[b].cb = k => a = b
      BY <2>3, <2>4, <3>1, AppendEntries DEF OnePlace, ListedCb
    <3> QED
      BY <2>1, <2>2, <2>3, <2>4, <3>2, <3>3 DEF OnePlace, HeldCb, OnFiber, fiberVars
  <2>5. ASSUME NEW f \in FiberIds \ created, Schedule(FiberTask(f, p)), m_cb' = [m_cb EXCEPT ![f] = j]
        PROVE  OnePlace'
    <3>1. FiberTask(f, p) \in FiberAndThread /\ FiberTask(f, p).cb = None
      BY TaskTypes DEF FiberTask
    <3>2. \A k \in Jobs : ListedCb(k)' <=> ListedCb(k)
      BY <2>5, <3>1, AppendListed
    <3>3. \A k \in Jobs : \A a, b \in DOMAIN m_fibers' : m_fibers'[a].cb = k /\ m_fibers'[b].cb = k => a = b
      BY <2>5, <3>1, AppendEntries DEF OnePlace
    <3>4. m_cb[f] = None /\ m_cb'[f] = j /\ \A g \in FiberIds : g # f => m_cb'[g] = m_cb[g]
      BY <2>5 DEF Apart, TypeOK, FiberTypeOK
    <3>5. \A k \in Jobs : OnFiber(k)' <=> OnFiber(k) \/ k = j
      BY <3>4 DEF OnFiber
    <3>6. \A k \in Jobs : HeldCb(k)' <=> HeldCb(k)
      BY <2>2 DEF HeldCb
    <3>7. \A k \in Jobs : \A g, h \in FiberIds : m_cb'[g] = k /\ m_cb'[h] = k => g = h
      BY <2>3, <3>4 DEF OnePlace, OnFiber
    <3> QED
      BY <2>1, <2>2, <2>3, <3>2, <3>3, <3>4, <3>5, <3>6, <3>7 DEF OnePlace
  <2> QED
    BY <2>1, <2>4, <2>5
<1>2. CASE Start \/ StopAuto \/ StopCallerOnly \/ StopSet \/ StopCall \/ RootReturns \/ Join
  BY <1>2, <1>a DEF Start, StopAuto, StopCallerOnly, StopSet, StopCall, RootReturns, Join,
                    schedVars, fiberVars, threadVars, jobVars
<1>3. ASSUME NEW t \in Threads, PickTask(t) PROVE OnePlace'
  <2>1. PICK i \in DOMAIN m_fibers : ft' = [ft EXCEPT ![t] = m_fibers[i]] /\ Erase(i)
    BY <1>3 DEF PickTask
  <2>2. UNCHANGED <<m_cb, m_state, submitted, done>> /\ ft[t].cb = None
    BY <1>3 DEF PickTask, fiberVars, jobVars, FibersOK, ThreadOK, NoTask
  <2>3. \A j \in Jobs : ListedCb(j)' <=> ListedCb(j) /\ m_fibers[i].cb # j
    BY <2>1, EraseListed
  <2>4. ft'[t] = m_fibers[i] /\ \A u \in Threads : u # t => ft'[u] = ft[u]
    BY <2>1 DEF TypeOK, ThreadTypeOK
  <2>5. \A j \in Jobs : HeldCb(j)' <=> HeldCb(j) \/ m_fibers[i].cb = j
    BY <2>2, <2>4 DEF HeldCb
  <2>6. \A j \in Jobs : OnFiber(j)' <=> OnFiber(j)
    BY <2>2 DEF OnFiber
  <2>7. \A j \in Jobs : m_fibers[i].cb = j => ListedCb(j)
    BY DEF ListedCb
  <2>8. \A j \in Jobs : \A k, l \in DOMAIN m_fibers' : m_fibers'[k].cb = j /\ m_fibers'[l].cb = j => k = l
    BY <2>1, EraseKeeps DEF OnePlace
  <2>9. \A j \in Jobs : \A u, v \in Threads : ft'[u].cb = j /\ ft'[v].cb = j => u = v
    BY <2>4, <2>7 DEF OnePlace, HeldCb
  <2> QED
    BY <2>2, <2>3, <2>5, <2>6, <2>7, <2>8, <2>9 DEF OnePlace
<1>4. ASSUME NEW t \in Threads, PickNothing(t) \/ Idle(t) \/ SwapOut(t) \/ Back(t) PROVE OnePlace'
  BY <1>4, <1>a DEF PickNothing, Idle, SwapOut, Back, schedVars, fiberVars, jobVars
<1>5. ASSUME NEW t \in Threads, Resumes(t) \/ Yields(t) PROVE OnePlace'
  <2>1. UNCHANGED <<m_fibers, ft, m_cb, submitted, done>>
    BY <1>5 DEF Resumes, Yields, schedVars
  <2>2. \A f \in FiberIds : m_state[f] = "EXCEPT" => m_state'[f] = "EXCEPT"
    BY <1>5 DEF Resumes, Yields, FibersOK, ThreadOK, Entry, TypeOK, FiberTypeOK
  <2> QED
    BY <2>1, <2>2 DEF OnePlace, ListedCb, HeldCb, OnFiber
<1>6. ASSUME NEW t \in Threads, ReadyCalls(t) PROVE OnePlace'
  <2>1. PICK f \in FiberIds :
         /\ \/ f = cb_fiber[t]
            \/ f \notin created
         /\ m_cb' = [m_cb EXCEPT ![f] = ft[t].cb]
         /\ m_state' = [m_state EXCEPT ![f] = "EXEC"]
    BY <1>6 DEF ReadyCalls
  <2>2. UNCHANGED <<m_fibers, submitted, done>> /\ ft'[t] = NoTask /\ \A u \in Threads : u # t => ft'[u] = ft[u]
    BY <1>6 DEF ReadyCalls, schedVars, TypeOK, ThreadTypeOK
  <2>3. PICK j \in Jobs : j = ft[t].cb
    BY <1>6 DEF ReadyCalls
  <2>4. m_cb[f] = None /\ m_state[f] = "INIT"
    BY <1>6, <2>1 DEF ReadyCalls, Apart, FibersOK, ThreadOK
  <2>5. /\ m_cb'[f] = j /\ \A g \in FiberIds : g # f => m_cb'[g] = m_cb[g] /\ m_state'[g] = m_state[g]
    BY <2>1, <2>3 DEF TypeOK, FiberTypeOK
  <2>6. HeldCb(j) /\ ~ListedCb(j) /\ ~OnFiber(j) /\ j \notin done /\ j \in submitted
    BY <2>3 DEF OnePlace, HeldCb
  <2>7. \A k \in Jobs : OnFiber(k)' <=> OnFiber(k) \/ k = j
    BY <2>4, <2>5 DEF OnFiber
  <2>8. \A k \in Jobs : HeldCb(k)' <=> HeldCb(k) /\ k # j
    BY <2>2, <2>3 DEF HeldCb, NoTask, OnePlace
  <2>9. \A k \in Jobs : ListedCb(k)' <=> ListedCb(k)
    BY <2>2 DEF ListedCb
  <2>10. \A k \in Jobs : \A g, h \in FiberIds : m_cb'[g] = k /\ m_cb'[h] = k => g = h
    BY <2>5, <2>6 DEF OnePlace, OnFiber
  <2>11. \A k \in Jobs : \A u, v \in Threads : ft'[u].cb = k /\ ft'[v].cb = k => u = v
    BY <2>2 DEF OnePlace, NoTask
  <2> QED
    BY <2>2, <2>5, <2>6, <2>7, <2>8, <2>9, <2>10, <2>11 DEF OnePlace
<1>7. ASSUME NEW t \in Threads, Finish(t) PROVE OnePlace'
  <2>1. PICK f \in FiberIds : f = cur[t]
    BY <1>7 DEF Finish, CurOK
  <2>2. PICK j \in Jobs : j = m_cb[f] /\ j \notin done
    BY <1>7, <2>1 DEF Finish, FibersOK, ThreadOK, Running, Ended
  <2>3. UNCHANGED <<m_fibers, ft, submitted>> /\ done' = done \cup {j}
    BY <1>7, <2>1, <2>2 DEF Finish, schedVars
  <2>4. /\ \/ m_cb'[f] = None
           \/ m_cb'[f] = j /\ m_state'[f] = "EXCEPT"
        /\ \A g \in FiberIds : g # f => m_cb'[g] = m_cb[g] /\ m_state'[g] = m_state[g]
    BY <1>7, <2>1, <2>2 DEF Finish, TypeOK, FiberTypeOK
  <2>5. j \in submitted /\ ~ListedCb(j) /\ ~HeldCb(j) /\ \A g \in FiberIds : g # f => m_cb[g] # j
    BY <2>2 DEF OnePlace, OnFiber
  <2>6. \A k \in Jobs : (ListedCb(k)' <=> ListedCb(k)) /\ (HeldCb(k)' <=> HeldCb(k))
    BY <2>3 DEF ListedCb, HeldCb
  <2>7. \A k \in Jobs : k # j => (OnFiber(k)' <=> OnFiber(k))
    BY <2>2, <2>4 DEF OnFiber
  <2>8. \A k \in Jobs : \A g, h \in FiberIds : m_cb'[g] = k /\ m_cb'[h] = k => g = h
    BY <2>2, <2>4 DEF OnePlace
  <2>9. \A k \in Jobs : k \in done' => \A g \in FiberIds : m_cb'[g] = k => m_state'[g] = "EXCEPT"
    BY <2>2, <2>3, <2>4, <2>5 DEF OnePlace
  <2> QED
    BY <2>3, <2>5, <2>6, <2>7, <2>8, <2>9 DEF OnePlace
<1>8. ASSUME NEW t \in Threads, After(t) PROVE OnePlace'
  <2>1. PICK f \in FiberIds : f = cur[t]
    BY <1>8 DEF After, CurOK
  <2>2. /\ UNCHANGED <<submitted, done>> /\ ft'[t] = NoTask /\ \A u \in Threads : u # t => ft'[u] = ft[u]
        /\ ft[t].cb = None /\ seen[t] = m_state[f]
    BY <1>8, <2>1 DEF After, jobVars, TypeOK, ThreadTypeOK, FibersOK, ThreadOK, Running
  <2>3. \A g \in FiberIds : g # f => m_cb'[g] = m_cb[g] /\ m_state'[g] = m_state[g]
    BY <1>8, <2>1 DEF After, TypeOK, FiberTypeOK
  <2>4. \/ m_cb'[f] = m_cb[f] /\ m_state'[f] = m_state[f]
        \/ m_cb'[f] = None /\ m_cb[f] \in done \cup {None}
    <3>1. CASE KeepsCbFiber(t)
      BY <1>8, <2>1, <2>2, <3>1 DEF After, KeepsCbFiber, FibersOK, ThreadOK, Running, TypeOK, FiberTypeOK
    <3>2. CASE ~KeepsCbFiber(t)
      <4>1. seen[t] = "READY" \/ seen[t] \in Ended
        BY <1>8, <2>1 DEF After, FibersOK, ThreadOK
      <4>2. seen[t] = "READY" => seen[t] \notin Ended
        BY DEF Ended
      <4>3. StateAfter(t) = m_state[f]
        BY <2>1, <3>2, <4>1, <4>2, Zenon DEF StateAfter
      <4> QED
        BY <1>8, <2>1, <3>2, <4>3 DEF After, TypeOK, FiberTypeOK
    <3> QED
      BY <3>1, <3>2
  <2>5. /\ \A k \in Jobs : ListedCb(k)' <=> ListedCb(k)
        /\ \A k \in Jobs : \A a, b \in DOMAIN m_fibers' : m_fibers'[a].cb = k /\ m_fibers'[b].cb = k => a = b
    <3>1. CASE ~Reschedules(t)
      BY <1>8, <3>1 DEF After, ListedCb, OnePlace
    <3>2. CASE Reschedules(t)
      <4>1. FiberTask(f, None) \in FiberAndThread /\ FiberTask(f, None).cb = None /\ Schedule(FiberTask(f, None))
        BY <1>8, <2>1, <3>2, TaskTypes DEF After, FiberTask
      <4>2. None \notin Jobs
        BY SchedulerAssumption
      <4>3. \A k \in Jobs : ListedCb(k)' <=> ListedCb(k)
        BY <4>1, <4>2, AppendListed
      <4>4. \A k \in Jobs : \A a, b \in DOMAIN m_fibers' : m_fibers'[a].cb = k /\ m_fibers'[b].cb = k => a = b
        BY <4>1, <4>2, AppendOnceCb DEF OnePlace
      <4> QED
        BY <4>3, <4>4
    <3> QED
      BY <3>1, <3>2
  <2>6. \A k \in Jobs : HeldCb(k)' <=> HeldCb(k)
    BY <2>2 DEF HeldCb, NoTask
  <2>7. \A k \in Jobs : \A u, v \in Threads : ft'[u].cb = k /\ ft'[v].cb = k => u = v
    BY <2>2 DEF OnePlace, NoTask
  <2>8. \A k \in Jobs : \A g, h \in FiberIds : m_cb'[g] = k /\ m_cb'[h] = k => g = h
    BY <2>3, <2>4 DEF OnePlace
  <2>9. \A k \in Jobs : (OnFiber(k)' => OnFiber(k)) /\ (OnFiber(k) => OnFiber(k)' \/ k \in done)
    BY <2>3, <2>4 DEF OnFiber
  <2>10. \A k \in Jobs : k \in done => \A g \in FiberIds : m_cb'[g] = k => m_state'[g] = "EXCEPT"
    BY <2>3, <2>4 DEF OnePlace
  <2> QED
    BY <2>2, <2>5, <2>6, <2>7, <2>8, <2>9, <2>10 DEF OnePlace
<1>9. CASE UNCHANGED vars
  BY <1>9, <1>a DEF vars, schedVars, fiberVars, threadVars, jobVars
<1> QED
  BY <1>1, <1>2, <1>3, <1>4, <1>5, <1>6, <1>7, <1>8, <1>9 DEF ReadyNext

(* No fiber with a job to do falls between the list and the threads. *)
LEMMA PlacedStep ==
  ASSUME IPool, ReadyNext
  PROVE  Placed'
<1> USE DEF IPool, IInv
<1> USE Types, SchedulerAssumption
<1>a. ASSUME UNCHANGED <<m_fibers, ft, cur, m_cb, done>> PROVE Placed'
  BY <1>a DEF Placed, Queued
<1>1. CASE MainSchedule
  <2>0. Submits
    BY <1>1, MainSubmits
  <2>1. UNCHANGED <<ft, cur, done>>
    BY <2>0 DEF Submits, threadVars
  <2>2. PICK j \in Jobs, p \in Threads \cup {None} :
          \/ Schedule(CbTask(j, p)) /\ UNCHANGED fiberVars
          \/ \E f \in FiberIds \ created :
                 Schedule(FiberTask(f, p)) /\ m_cb' = [m_cb EXCEPT ![f] = j]
    BY <2>0 DEF Submits
  <2>3. CASE Schedule(CbTask(j, p)) /\ UNCHANGED fiberVars
    BY <2>1, <2>3, TaskTypes, AppendListed DEF Placed, fiberVars
  <2>4. ASSUME NEW f \in FiberIds \ created, Schedule(FiberTask(f, p)), m_cb' = [m_cb EXCEPT ![f] = j]
        PROVE  Placed'
    <3>1. \A g \in FiberIds : Queued(g)' <=> Queued(g) \/ g = f
      BY <2>4, TaskTypes, AppendListed DEF FiberTask
    <3>2. \A g \in FiberIds : g # f => m_cb'[g] = m_cb[g]
      BY <2>4 DEF TypeOK, FiberTypeOK
    <3> QED
      BY <2>1, <3>1, <3>2 DEF Placed
  <2> QED
    BY <2>2, <2>3, <2>4
<1>2. CASE Start \/ StopAuto \/ StopCallerOnly \/ StopSet \/ StopCall \/ RootReturns \/ Join
  BY <1>2, <1>a DEF Start, StopAuto, StopCallerOnly, StopSet, StopCall, RootReturns, Join,
                    schedVars, fiberVars, threadVars, jobVars
<1>3. ASSUME NEW t \in Threads, PickTask(t) PROVE Placed'
  <2>1. PICK i \in DOMAIN m_fibers : ft' = [ft EXCEPT ![t] = m_fibers[i]] /\ Erase(i)
    BY <1>3 DEF PickTask
  <2>2. UNCHANGED <<cur, m_cb, done>> /\ ft[t].fiber = None
    BY <1>3 DEF PickTask, fiberVars, jobVars, FibersOK, ThreadOK, NoTask
  <2>3. \A f \in FiberIds : Queued(f)' <=> Queued(f) /\ m_fibers[i].fiber # f
    BY <2>1, EraseListed
  <2>4. ft'[t] = m_fibers[i] /\ \A u \in Threads : u # t => ft'[u] = ft[u]
    BY <2>1 DEF TypeOK, ThreadTypeOK
  <2> QED
    BY <2>2, <2>3, <2>4 DEF Placed
<1>4. ASSUME NEW t \in Threads, PickNothing(t) \/ Idle(t) \/ SwapOut(t) \/ Back(t) \/ Yields(t) PROVE Placed'
  BY <1>4, <1>a DEF PickNothing, Idle, SwapOut, Back, Yields, schedVars, fiberVars, jobVars
<1>5. ASSUME NEW t \in Threads, Resumes(t) PROVE Placed'
  <2>1. UNCHANGED <<m_fibers, ft, m_cb, done>> /\ cur[t] = None /\ \A u \in Threads : u # t => cur'[u] = cur[u]
    BY <1>5 DEF Resumes, schedVars, TypeOK, ThreadTypeOK, FibersOK, ThreadOK
  <2> QED
    BY <2>1 DEF Placed, Queued
<1>6. ASSUME NEW t \in Threads, ReadyCalls(t) PROVE Placed'
  <2>1. PICK f \in FiberIds :
         /\ m_cb' = [m_cb EXCEPT ![f] = ft[t].cb]
         /\ cur' = [cur EXCEPT ![t] = f]
    BY <1>6 DEF ReadyCalls
  <2>2. /\ UNCHANGED <<m_fibers, done>> /\ ft[t].fiber = None /\ cur[t] = None /\ cur'[t] = f
        /\ \A u \in Threads : u # t => ft'[u] = ft[u] /\ cur'[u] = cur[u]
        /\ \A g \in FiberIds : g # f => m_cb'[g] = m_cb[g]
    BY <1>6, <2>1 DEF ReadyCalls, schedVars, TypeOK, ThreadTypeOK, FiberTypeOK, FibersOK, ThreadOK, Entry
  <2> QED
    BY <2>2 DEF Placed, Queued
<1>7. ASSUME NEW t \in Threads, Finish(t) PROVE Placed'
  <2>1. UNCHANGED <<m_fibers, ft, cur>> /\ \A g \in FiberIds : m_cb'[g] \in {m_cb[g], None} /\ done \subseteq done'
    BY <1>7 DEF Finish, schedVars, TypeOK, FiberTypeOK
  <2> QED
    BY <2>1 DEF Placed, Queued
<1>8. ASSUME NEW t \in Threads, After(t) PROVE Placed'
  <2>1. PICK f \in FiberIds : f = cur[t]
    BY <1>8 DEF After, CurOK
  <2>2. /\ done' = done /\ seen[t] = m_state[f] /\ ft[t].fiber \in {f, None}
        /\ \A u \in Threads : u # t => ft'[u] = ft[u] /\ cur'[u] = cur[u]
        /\ \A g \in FiberIds : m_cb'[g] \in {m_cb[g], None}
    BY <1>8, <2>1 DEF After, jobVars, TypeOK, ThreadTypeOK, FiberTypeOK, FibersOK, ThreadOK, Running
  <2>3. CASE ~Reschedules(t)
    <3>1. m_cb[f] \in done \cup {None} /\ m_fibers' = m_fibers
      BY <1>8, <2>1, <2>2, <2>3 DEF After, Reschedules, FibersOK, ThreadOK, Running
    <3> QED
      BY <2>1, <2>2, <3>1 DEF Placed, Queued
  <2>4. CASE Reschedules(t)
    <3>1. FiberTask(f, None) \in FiberAndThread /\ FiberTask(f, None).fiber = f /\ Schedule(FiberTask(f, None))
      BY <1>8, <2>1, <2>4, TaskTypes DEF After, FiberTask
    <3>2. \A g \in FiberIds : Queued(g)' <=> Queued(g) \/ g = f
      BY <3>1, AppendListed
    <3> QED
      BY <2>1, <2>2, <3>2 DEF Placed
  <2> QED
    BY <2>3, <2>4
<1>9. CASE UNCHANGED vars
  BY <1>9, <1>a DEF vars, schedVars, fiberVars, threadVars, jobVars
<1> QED
  BY <1>1, <1>2, <1>3, <1>4, <1>5, <1>6, <1>7, <1>8, <1>9 DEF ReadyNext

(* The last thread leaves an empty list behind. *)
LEMMA StopStep ==
  ASSUME IPool, ReadyNext
  PROVE  StopOK'
<1> USE DEF IPool, IInv
<1> USE Types, SchedulerAssumption DEF TypeOK, ThreadTypeOK
<1>a. StopOK /\ PhaseOK /\ FibersOK
  OBVIOUS
<1>b. Left => Closing
  BY <1>a DEF StopOK, Left, Closing
<1>c. ASSUME NEW t \in Threads, ~Out(t), ~Out(t)', UNCHANGED <<m_autoStop, main, idle_state>>,
             \A u \in Threads : u # t => pc'[u] = pc[u],
             \A k \in DOMAIN m_fibers' : \/ m_fibers'[k].thread = None
                                         \/ \E o \in DOMAIN m_fibers : m_fibers'[k] = m_fibers[o]
      PROVE  StopOK'
  <2>1. \A u \in Threads : (Out(u)' <=> Out(u)) /\ (pc'[u] = "exited" <=> pc[u] = "exited")
    BY <1>c DEF Out
  <2>2. (RootOut' <=> RootOut) /\ (Closing' <=> Closing) /\ main # "stopped"
    BY <1>a, <1>c DEF RootOut, Closing, StopOK
  <2>3. RootOut' => Out(Root)'
    BY <1>a, <2>1, <2>2 DEF RootOut, StopOK, Threads
  <2> QED
    BY <1>a, <1>c, <2>1, <2>2, <2>3 DEF StopOK
<1>d. ASSUME ~Closing, ~Closing', UNCHANGED idle_state,
             \A u \in Threads : pc'[u] = "exited" => pc[u] = "exited",
             m_autoStop' => main' \notin {"constructed", "started"},
             main' # "stopped", main' = "stop_caller_only" => UseCaller /\ Workers = {}
      PROVE  StopOK'
  BY <1>a, <1>d DEF StopOK, Left, Closing, RootOut
<1>e. main \in {"constructed", "started"} => ~Closing /\ ~m_autoStop
  BY <1>a DEF StopOK
<1>1. CASE MainSchedule
  BY <1>1, <1>d, <1>e, MainSubmits DEF Submits, threadVars, Closing, RootOut
<1>2. CASE Start
  BY <1>2, <1>d, <1>e DEF Start, Closing, RootOut
<1>3. CASE StopAuto
  BY <1>3, <1>d, <1>e DEF StopAuto, Closing, RootOut, threadVars
<1>4. CASE StopCallerOnly
  <2>1. UseCaller /\ Threads = {Root} /\ pc[Root] = "off" /\ UNCHANGED <<m_fibers, pc, idle_state>>
    BY <1>4, <1>a DEF StopCallerOnly, StopOK, PhaseOK, Threads, threadVars
  <2>2. main' = "stop_set" \/ (main' = "stopped" /\ m_fibers = <<>>)
    BY <1>4 DEF StopCallerOnly, stopping
  <2>3. \A t \in Threads : Out(t) /\ Out(t)'
    BY <2>1 DEF Out
  <2>4. Out(Root)'
    BY <2>1 DEF Out
  <2>5. main' = "stop_set" => StopOK'
    BY <1>4, <1>a, <2>1 DEF StopCallerOnly, StopOK, Closing, Left, RootOut, Out
  <2>6. main' = "stopped" /\ m_fibers' = <<>> => StopOK'
    BY <1>4, <1>a, <2>1, <2>3, <2>4 DEF StopCallerOnly, StopOK
  <2> QED
    BY <2>1, <2>2, <2>5, <2>6
<1>5. CASE StopSet
  <2>1. UNCHANGED <<m_fibers, m_autoStop, pc, idle_state>> /\ ~RootOut /\ ~RootOut' /\ main' \in {"stop_call", "join"}
    BY <1>5 DEF StopSet, RootOut, threadVars
  <2> QED
    BY <1>a, <2>1 DEF StopOK, Closing, Left, Out
<1>6. CASE StopCall
  <2>1. UNCHANGED <<m_fibers, m_autoStop, idle_state>> /\ main = "stop_call" /\ ~RootOut
    BY <1>6 DEF StopCall, schedVars, RootOut
  <2>2. CASE CallsRoot
    <3>1. main' = "root_running" /\ pc' = [pc EXCEPT ![Root] = "pick"] /\ ~RootOut'
      BY <1>6, <2>2 DEF StopCall, RootOut
    <3>2. \A t \in Threads : (Out(t)' => Out(t)) /\ (pc'[t] = "exited" => pc[t] = "exited")
      BY <3>1 DEF Out
    <3>3. (Closing' => Closing) /\ (Left' => Left)
      BY <2>1, <3>1, <3>2 DEF Closing, Left
    <3> QED
      BY <1>a, <2>1, <3>1, <3>2, <3>3 DEF StopOK
  <2>3. CASE ~CallsRoot
    <3>1. main' = "join" /\ pc' = pc /\ m_fibers = <<>> /\ stopping
      BY <1>6, <2>3 DEF StopCall, CallsRoot, stopping
    <3>2. DOMAIN m_fibers = {}
      BY <3>1
    <3>3. RootOut' => Out(Root)'
      BY <1>a, <2>1, <3>1 DEF RootOut, Out, PhaseOK, Threads
    <3> QED
      BY <1>a, <2>1, <3>1, <3>2, <3>3 DEF StopOK
  <2> QED
    BY <2>2, <2>3
<1>7. CASE RootReturns
  <2>1. UNCHANGED <<m_fibers, m_autoStop, pc, idle_state>> /\ main' = "join" /\ pc[Root] = "exited"
    BY <1>7 DEF RootReturns, schedVars, threadVars
  <2>2. UseCaller => Root \in Threads
    BY DEF Threads
  <2>3. UseCaller => Left /\ Closing
    BY <1>a, <2>1, <2>2 DEF StopOK, Left, Closing
  <2>4. (Closing' => Closing) /\ (Left' => Left) /\ (RootOut' => Out(Root)')
    BY <2>1, <2>3 DEF Closing, Left, RootOut, Out
  <2>5. \A t \in Threads : Out(t)' <=> Out(t)
    BY <2>1 DEF Out
  <2> QED
    BY <1>a, <2>1, <2>4, <2>5 DEF StopOK
<1>8. CASE Join
  <2>1. /\ UNCHANGED <<m_fibers, m_autoStop, pc, idle_state>> /\ main = "join" /\ main' = "stopped"
        /\ \A t \in Workers : pc[t] = "exited"
    BY <1>8 DEF Join, schedVars, threadVars
  <2>2. \A t \in Threads : Out(t)
    BY <1>a, <2>1 DEF StopOK, RootOut, Out, Threads
  <2>3. Left
    BY <2>1 DEF Left, RootOut, Threads
  <2>4. m_fibers = <<>>
    BY <1>a, <2>2, <2>3 DEF StopOK
  <2>5. DOMAIN m_fibers = {}
    BY <2>4
  <2>6. (\A t \in Threads : Out(t)') /\ (RootOut' => Out(Root)')
    BY <2>1, <2>2 DEF Out, RootOut, Threads
  <2> QED
    BY <1>a, <2>1, <2>4, <2>5, <2>6 DEF StopOK
<1>9. ASSUME NEW t \in Threads, PickTask(t) PROVE StopOK'
  <2>1. PICK i \in DOMAIN m_fibers : Erase(i)
    BY <1>9 DEF PickTask
  <2>2. \A k \in DOMAIN m_fibers' : \E o \in DOMAIN m_fibers : m_fibers'[k] = m_fibers[o]
    BY <2>1, EraseKeeps
  <2> QED
    BY <1>9, <1>c, <2>2 DEF PickTask, Out
<1>10. ASSUME NEW t \in Threads, PickNothing(t) PROVE StopOK'
  <2>1. UNCHANGED <<m_fibers, m_autoStop, main, idle_state>> /\ pc[t] = "pick" /\ \A u \in Threads : u # t => pc'[u] = pc[u]
    BY <1>10 DEF PickNothing
  <2>2. CASE idle_state[t] = "TERM"
    <3>1. Closing
      BY <2>2 DEF Closing
    <3>2. \A i \in DOMAIN m_fibers : Runnable(m_fibers[i], t)
      BY <1>a, <3>1 DEF StopOK, FibersOK, Entries, Entry, Runnable
    <3>3. DOMAIN m_fibers = {}
      BY <1>10, <3>2 DEF PickNothing
    <3>4. m_fibers = <<>>
      BY <3>3
    <3>5. pc'[t] = "exited" /\ main # "stopped" /\ (RootOut => t # Root)
      BY <1>10, <1>a, <2>1, <2>2 DEF PickNothing, StopOK, Out
    <3>6. RootOut' => Out(Root)'
      BY <1>a, <2>1, <3>5 DEF StopOK, RootOut, Out, Threads
    <3>7. \A u \in Threads : pc'[u] = "exited" => idle_state'[u] = "TERM"
      BY <1>a, <2>1, <2>2 DEF StopOK
    <3> QED
      BY <1>a, <2>1, <3>1, <3>3, <3>4, <3>5, <3>6, <3>7 DEF StopOK
  <2>3. CASE idle_state[t] # "TERM"
    BY <1>10, <1>c, <2>1, <2>3 DEF PickNothing, Out
  <2> QED
    BY <2>2, <2>3
<1>11. ASSUME NEW t \in Threads, Idle(t) PROVE StopOK'
  <2>1. /\ UNCHANGED <<m_fibers, m_autoStop, main>> /\ pc[t] = "idle" /\ pc'[t] = "pick"
        /\ \A u \in Threads : u # t => pc'[u] = pc[u] /\ idle_state'[u] = idle_state[u]
    BY <1>11 DEF Idle
  <2>2. \A u \in Threads : (Out(u)' <=> Out(u)) /\ (pc'[u] = "exited" => pc[u] = "exited" /\ u # t)
    BY <2>1 DEF Out
  <2>3. main # "stopped" /\ (RootOut' => Out(Root)') /\ (Left' => Left)
    BY <1>a, <2>1, <2>2 DEF StopOK, RootOut, Left, Out, Threads
  <2>4. CASE stopping
    <3>1. m_autoStop /\ m_fibers = <<>>
      BY <2>4 DEF stopping
    <3>2. DOMAIN m_fibers = {}
      BY <3>1
    <3> QED
      BY <1>a, <2>1, <2>2, <2>3, <3>1, <3>2 DEF StopOK
  <2>5. CASE ~stopping
    <3>1. Closing' => Closing
      BY <1>11, <2>1, <2>5 DEF Idle, Closing, RootOut
    <3> QED
      BY <1>a, <2>1, <2>2, <2>3, <3>1 DEF StopOK
  <2> QED
    BY <2>4, <2>5
<1>12. ASSUME NEW t \in Threads,
              Resumes(t) \/ ReadyCalls(t) \/ Finish(t) \/ Yields(t) \/ SwapOut(t) \/ Back(t)
       PROVE  StopOK'
  BY <1>12, <1>c DEF Resumes, ReadyCalls, Finish, Yields, SwapOut, Back, schedVars, Out
<1>13. ASSUME NEW t \in Threads, After(t) PROVE StopOK'
  <2>1. \A k \in DOMAIN m_fibers' : \/ m_fibers'[k].thread = None
                                     \/ \E o \in DOMAIN m_fibers : m_fibers'[k] = m_fibers[o]
    <3>1. CASE ~Reschedules(t)
      BY <1>13, <3>1 DEF After
    <3>2. CASE Reschedules(t)
      <4>1. PICK e \in FiberAndThread : Schedule(e) /\ e.thread = None
        BY <1>13, <3>2, TaskTypes DEF After, CurOK, FiberTask
      <4>2. /\ DOMAIN m_fibers' = 1..(Len(m_fibers) + 1)
            /\ \A k \in DOMAIN m_fibers : m_fibers'[k] = m_fibers[k]
            /\ m_fibers'[Len(m_fibers) + 1] = e
        BY <4>1, AppendEntries
      <4> TAKE k \in DOMAIN m_fibers'
      <4>3. k \in DOMAIN m_fibers \/ k = Len(m_fibers) + 1
        BY <4>2
      <4> QED
        BY <4>1, <4>2, <4>3
    <3> QED
      BY <3>1, <3>2
  <2> QED
    BY <1>13, <1>c, <2>1 DEF After, Out
<1>14. CASE UNCHANGED vars
  <2>1. UNCHANGED <<m_fibers, m_autoStop, main, pc, idle_state>>
    BY <1>14 DEF vars, schedVars, threadVars
  <2> QED
    BY <1>a, <2>1 DEF StopOK, Closing, Left, RootOut, Out
<1> QED
  BY <1>1, <1>2, <1>3, <1>4, <1>5, <1>6, <1>7, <1>8, <1>9, <1>10, <1>11, <1>12, <1>13, <1>14 DEF ReadyNext

-----------------------------------------------------------------------------
(* The invariant holds in every behaviour in which jobs only yield to READY. *)
THEOREM PoolInvariance == OnlyReady => (Spec => []IPool)
<1> SUFFICES ASSUME OnlyReady PROVE Spec => []IPool
  OBVIOUS
<1>1. IPool /\ [Next]_vars => IPool'
  <2> SUFFICES ASSUME IPool, [Next]_vars PROVE IPool'
    OBVIOUS
  <2>1. ReadyNext
    BY OnlyReadySteps DEF ReadyNext
  <2>2. IInv'
    <3>1. CASE Next
      BY <3>1, TypeStep, CountersStep, PhaseStep DEF IPool, IInv
    <3>2. CASE UNCHANGED vars
      BY <3>2 DEF IPool, IInv, TypeOK, SchedTypeOK, FiberTypeOK, ThreadTypeOK, JobTypeOK, CurOK, PhaseOK,
                  CountersExact, Busy, IdleThreads, vars, schedVars, fiberVars, threadVars, jobVars
    <3> QED
      BY <3>1, <3>2
  <2> QED
    BY <2>1, <2>2, ApartStep, FibersStep, OnePlaceStep, PlacedStep, StopStep DEF IPool
<1> QED
  BY InitIPool, <1>1, PTL DEF Spec

(* No two threads are ever on the stack of one fiber: run() can only take  *)
(* a fiber from the list, and it is in the list only while no thread has   *)
(* it.                                                                     *)
THEOREM OneThreadPerFiberCorrect == OnlyReady => (Spec => []OneThreadPerFiber)
<1> SUFFICES ASSUME OnlyReady PROVE Spec => []OneThreadPerFiber
  OBVIOUS
<1>1. IPool => OneThreadPerFiber
  BY DEF IPool, Apart, Has, OneThreadPerFiber, OnStack
<1> QED
  BY PoolInvariance, <1>1, PTL

(* The assertions of swapIn, YiledToReady and reset never fail. *)
THEOREM AssertionsCorrect == OnlyReady => (Spec => []AssertionsHold)
<1> SUFFICES ASSUME OnlyReady PROVE Spec => []AssertionsHold
  OBVIOUS
<1>1. IPool => AssertionsHold
  BY DEF IPool, FibersOK, AssertionsHold
<1> QED
  BY PoolInvariance, <1>1, PTL

(* A job that has not ended is listed, in the hands of a thread, or on the *)
(* fiber a thread is on.                                                   *)
LEMMA JobsKept == IPool => NoJobLost
<1> SUFFICES ASSUME IPool, NEW j \in submitted \ done PROVE NoJobLost!(j)
  BY DEF NoJobLost
<1> USE Types DEF IPool, IInv
<1>1. j \in Jobs /\ (ListedCb(j) \/ HeldCb(j) \/ OnFiber(j))
  BY DEF OnePlace
<1>2. CASE ListedCb(j)
  BY <1>2 DEF ListedCb
<1>3. ASSUME NEW t \in Threads, ft[t].cb = j PROVE pc[t] = "dispatch"
  BY <1>1, <1>3 DEF FibersOK, ThreadOK, Running, NoTask, TypeOK, ThreadTypeOK
<1>4. CASE HeldCb(j)
  BY <1>3, <1>4 DEF HeldCb
<1>5. ASSUME NEW f \in FiberIds, m_cb[f] = j PROVE NoJobLost!(j)
  <2>1. CASE Queued(f)
    BY <1>5, <2>1 DEF Queued
  <2>2. ASSUME NEW t \in Threads, f = ft[t].fiber \/ f = cur[t] PROVE NoJobLost!(j)
    BY <1>5, <2>2 DEF FibersOK, ThreadOK, Running, NoTask, TypeOK, ThreadTypeOK
  <2> QED
    BY <1>1, <1>5, <2>1, <2>2 DEF Placed
<1> QED
  BY <1>1, <1>2, <1>4, <1>5 DEF OnFiber

(* run() never drops a job, whatever state its fiber came back in. *)
THEOREM NoJobLostCorrect == OnlyReady => (Spec => []NoJobLost)
<1> SUFFICES ASSUME OnlyReady PROVE Spec => []NoJobLost
  OBVIOUS
<1> QED
  BY PoolInvariance, JobsKept, PTL

(* When stop() has returned every thread is out of run(), the list is      *)
(* empty and every job has ended.                                          *)
LEMMA Stopped == IPool /\ main = "stopped" => /\ submitted \subseteq done /\ m_fibers = <<>>
                                              /\ \A t \in Threads : Out(t)
<1> SUFFICES ASSUME IPool, main = "stopped"
             PROVE  submitted \subseteq done /\ m_fibers = <<>> /\ \A t \in Threads : Out(t)
  OBVIOUS
<1>1. m_fibers = <<>> /\ \A t \in Threads : Out(t)
  BY DEF IPool, StopOK
<1>2. DOMAIN m_fibers = {}
  BY <1>1
<1>3. NoJobLost /\ armed = {}
  BY JobsKept DEF IPool, FibersOK
<1> QED
  BY <1>1, <1>2, <1>3 DEF NoJobLost, Out

(* stop() returns only when every job scheduled before it has ended. *)
THEOREM StopWaitsCorrect == OnlyReady => (Spec => []StopWaitsForJobs)
<1> SUFFICES ASSUME OnlyReady PROVE Spec => []StopWaitsForJobs
  OBVIOUS
<1>1. IPool => StopWaitsForJobs
  BY Stopped DEF StopWaitsForJobs
<1> QED
  BY PoolInvariance, <1>1, PTL

-----------------------------------------------------------------------------
(* The refinement.  The job a thread executes, by the place of the thread. *)
LEMMA JobOnIs ==
  ASSUME IPool, NEW t \in Threads
  PROVE  JobOn(t) = IF pc[t] \in {"exec", "leaving"} THEN m_cb[cur[t]] ELSE None
<1>1. pc[t] \in {"exec", "leaving"} => cur[t] \in FiberIds
  BY DEF IPool, IInv, CurOK
<1> QED
  BY <1>1, SchedulerAssumption DEF IPool, FibersOK, ThreadOK, JobOn, OnStack

(* Threads execute different jobs, that were scheduled and have not ended. *)
LEMMA JobOnApart ==
  ASSUME IPool, NEW t \in Threads, JobOn(t) # None
  PROVE  /\ JobOn(t) \in submitted \ done
         /\ \A u \in Threads : JobOn(u) = JobOn(t) => u = t
<1> USE Types DEF IPool, IInv
<1>1. PICK f \in FiberIds : f = cur[t] /\ JobOn(t) = m_cb[f] /\ pc[t] \in {"exec", "leaving"}
  BY JobOnIs DEF CurOK
<1>2. m_cb[f] \in Jobs /\ m_cb[f] \notin done
  BY <1>1 DEF FibersOK, ThreadOK, Running, Ended
<1>3. m_cb[f] \in submitted
  BY <1>2 DEF OnePlace, OnFiber
<1>4. ASSUME NEW u \in Threads, JobOn(u) = JobOn(t) PROVE u = t
  <2>0. JobOn(u) = IF pc[u] \in {"exec", "leaving"} THEN m_cb[cur[u]] ELSE None
    BY JobOnIs
  <2>1. PICK g \in FiberIds : g = cur[u] /\ JobOn(u) = m_cb[g]
    BY <1>1, <1>2, <1>4, <2>0 DEF CurOK
  <2>2. g = f
    <3>1. m_cb[g] = m_cb[f]
      BY <1>1, <1>4, <2>1
    <3> QED
      BY <1>2, <3>1 DEF OnePlace
  <2>3. Has(t, f) /\ Has(u, f)
    BY <1>1, <2>1, <2>2 DEF Has
  <2> QED
    BY <2>3 DEF Apart
<1> QED
  BY <1>1, <1>2, <1>3, <1>4

(* A thread that stays where it is, with its fiber's job, executes it still. *)
LEMMA JobOnKept ==
  ASSUME NEW u \in Threads, pc'[u] = pc[u] \/ {pc'[u], pc[u]} \subseteq {"exec", "holding", "leaving"},
         cur'[u] = cur[u], cur[u] # None => m_cb'[cur[u]] = m_cb[cur[u]]
  PROVE  JobOn(u)' = JobOn(u)
BY DEF JobOn, OnStack

(* A thread that is not on the stack of a fiber executes no job. *)
LEMMA NoJobOn ==
  ASSUME NEW u \in Threads, pc[u] \notin {"exec", "holding", "leaving"}
  PROVE  JobOn(u) = None
BY DEF JobOn, OnStack

(* The steps of the pool, by what they do to the jobs the threads execute. *)
LEMMA PoolStutter ==
  ASSUME \A u \in Threads : JobOn(u)' = JobOn(u), UNCHANGED <<submitted, done>>,
         main' = "stopped" <=> main = "stopped"
  PROVE  UNCHANGED Pool!poolVars
BY DEF Pool!poolVars

(* A thread begins to execute a job: Take. *)
LEMMA PoolTakes ==
  ASSUME TypeOK, NEW t \in Threads, NEW j \in Jobs, JobOn(t) = None, JobOn(t)' = j,
         j \in submitted \ done, \A u \in Threads : u # t => JobOn(u)' = JobOn(u) /\ JobOn(u) # j,
         UNCHANGED <<submitted, done, main>>
  PROVE  Pool!Take(t, j)
<1>1. {JobOn(u) : u \in Threads}' \ {None} = ({JobOn(u) : u \in Threads} \ {None}) \cup {j}
  BY SchedulerAssumption
<1>2. None \notin submitted
  BY SchedulerAssumption DEF TypeOK, JobTypeOK
<1>3. [u \in Threads |-> JobOn(u)]' = [[u \in Threads |-> JobOn(u)] EXCEPT ![t] = j]
  OBVIOUS
<1>4. j \notin {JobOn(u) : u \in Threads}
  BY SchedulerAssumption
<1> QED
  BY <1>1, <1>2, <1>3, <1>4 DEF Pool!Take

(* schedule() of a new job: Accept. *)
LEMMA PoolAccepts ==
  ASSUME TypeOK, NEW j \in Jobs, j \notin submitted \cup done, \A u \in Threads : JobOn(u)' = JobOn(u) /\ JobOn(u) # j,
         submitted' = submitted \cup {j}, UNCHANGED <<done, main>>, main # "stopped"
  PROVE  Pool!Accept(j)
<1>1. j \notin {JobOn(u) : u \in Threads} /\ {JobOn(u) : u \in Threads}' = {JobOn(u) : u \in Threads}
  OBVIOUS
<1>2. {[u \in Threads |-> JobOn(u)][v] : v \in Threads} = {JobOn(u) : u \in Threads}
  OBVIOUS
<1>3. j \notin Pool!Known
  BY <1>1, <1>2 DEF Pool!Known, Pool!Executing
<1>4. UNCHANGED [u \in Threads |-> JobOn(u)]
  OBVIOUS
<1> QED
  BY <1>1, <1>3, <1>4 DEF Pool!Accept

(* A job returns: End. *)
LEMMA PoolEnds ==
  ASSUME TypeOK, NEW t \in Threads, NEW j \in Jobs, JobOn(t) = j, JobOn(t)' = None,
         \A u \in Threads : u # t => JobOn(u)' = JobOn(u) /\ JobOn(u) # j,
         done' = done \cup {j}, UNCHANGED <<submitted, main>>
  PROVE  Pool!End(t)
<1>1. {JobOn(u) : u \in Threads}' \ {None} = {JobOn(u) : u \in Threads} \ {None, j}
  OBVIOUS
<1>2. None \notin submitted
  BY SchedulerAssumption DEF TypeOK, JobTypeOK
<1>3. [u \in Threads |-> JobOn(u)]' = [[u \in Threads |-> JobOn(u)] EXCEPT ![t] = None]
  OBVIOUS
<1>4. (submitted \ done)' \ {JobOn(u) : u \in Threads}' = (submitted \ done) \ {JobOn(u) : u \in Threads}
  BY <1>1, <1>2
<1> QED
  BY <1>3, <1>4, SchedulerAssumption DEF Pool!End

(* A job yields: PutBack. *)
LEMMA PoolPutsBack ==
  ASSUME TypeOK, NEW t \in Threads, NEW j \in submitted \ done, JobOn(t) = j, JobOn(t)' = None,
         \A u \in Threads : u # t => JobOn(u)' = JobOn(u) /\ JobOn(u) # j,
         UNCHANGED <<done, submitted, main>>
  PROVE  Pool!PutBack(t)
<1>1. {JobOn(u) : u \in Threads}' \ {None} = {JobOn(u) : u \in Threads} \ {None, j}
  OBVIOUS
<1>2. None \notin submitted /\ j \in {JobOn(u) : u \in Threads}
  BY SchedulerAssumption DEF TypeOK, JobTypeOK
<1>3. [u \in Threads |-> JobOn(u)]' = [[u \in Threads |-> JobOn(u)] EXCEPT ![t] = None]
  OBVIOUS
<1>4. (submitted \ done)' \ {JobOn(u) : u \in Threads}'
        = ((submitted \ done) \ {JobOn(u) : u \in Threads}) \cup {j}
  BY <1>1, <1>2
<1> QED
  BY <1>2, <1>3, <1>4 DEF Pool!PutBack

(* stop() returns: Close. *)
LEMMA PoolCloses ==
  ASSUME submitted \subseteq done, \A u \in Threads : JobOn(u) = None /\ JobOn(u)' = None,
         UNCHANGED <<submitted, done>>, main' = "stopped"
  PROVE  Pool!Close
<1>1. [u \in Threads |-> JobOn(u)]' = [u \in Threads |-> JobOn(u)]
  OBVIOUS
<1>2. {JobOn(u) : u \in Threads}' = {JobOn(u) : u \in Threads}
  OBVIOUS
<1>3. {[u \in Threads |-> JobOn(u)][v] : v \in Threads} \ {None} = {}
  OBVIOUS
<1> QED
  BY <1>1, <1>2, <1>3 DEF Pool!Close, Pool!Executing

(* Every step of the scheduler is a step of the pool, or none. *)
LEMMA PoolStep ==
  ASSUME IPool, IPool', ReadyNext
  PROVE  [Pool!PoolNext]_(Pool!poolVars)
<1> USE DEF IPool, IInv
<1> USE Types, SchedulerAssumption
<1>a. ASSUME UNCHANGED <<m_cb, pc, cur, submitted, done>>, main' = "stopped" <=> main = "stopped"
      PROVE  UNCHANGED Pool!poolVars
  BY <1>a, PoolStutter, JobOnKept
<1>b. ASSUME UNCHANGED <<submitted, done, pc>>, main' = "stopped" PROVE Pool!Close
  <2>1. IPool' /\ (main = "stopped")' => (submitted \subseteq done)' /\ (\A t \in Threads : Out(t))'
    BY Stopped, PTL
  <2>3. submitted \subseteq done /\ \A u \in Threads : Out(u)'
    BY <1>b, <2>1
  <2>4. \A u \in Threads : JobOn(u) = None /\ JobOn(u)' = None
    BY <1>b, <2>3 DEF JobOn, OnStack, Out
  <2> QED
    BY <1>b, <2>3, <2>4, PoolCloses
<1>1. CASE MainSchedule
  <2>0. Submits
    BY <1>1, MainSubmits
  <2>1. PICK j \in Jobs : /\ j \notin submitted /\ submitted' = submitted \cup {j}
                          /\ \A f \in created : m_cb'[f] = m_cb[f]
    BY <2>0 DEF Submits, fiberVars, TypeOK, FiberTypeOK
  <2>2. UNCHANGED <<pc, cur, done, main>> /\ main # "stopped"
    BY <2>0 DEF Submits, threadVars
  <2>3. \A u \in Threads : cur[u] # None => cur[u] \in created
    BY DEF Apart, Has
  <2>4. \A u \in Threads : JobOn(u)' = JobOn(u)
    BY <2>1, <2>2, <2>3, JobOnKept
  <2>5. \A u \in Threads : JobOn(u) # j
    BY <2>1, JobOnApart
  <2>6. j \notin done
    BY <2>1 DEF OnePlace
  <2> QED
    BY <2>1, <2>2, <2>4, <2>5, <2>6, PoolAccepts DEF Pool!PoolNext
<1>2. CASE Start
  <2>1. ASSUME NEW u \in Threads PROVE JobOn(u) = None /\ JobOn(u)' = None
    BY <1>2 DEF Start, PhaseOK, JobOn, OnStack
  <2> QED
    BY <1>2, <2>1, PoolStutter DEF Start, jobVars
<1>3. CASE StopAuto \/ StopSet \/ RootReturns
  BY <1>3, <1>a DEF StopAuto, StopSet, RootReturns, fiberVars, threadVars, jobVars
<1>4. CASE StopCall
  <2>1. ASSUME NEW u \in Threads PROVE JobOn(u)' = JobOn(u)
    <3>1. CASE u # Root
      BY <1>4, <3>1, JobOnKept DEF StopCall, fiberVars, TypeOK, ThreadTypeOK
    <3>2. CASE u = Root
      BY <1>4, <3>2 DEF StopCall, PhaseOK, JobOn, OnStack, TypeOK, ThreadTypeOK
    <3> QED
      BY <3>1, <3>2
  <2> QED
    BY <1>4, <2>1, PoolStutter DEF StopCall, jobVars
<1>5. CASE StopCallerOnly \/ Join
  <2>1. UNCHANGED <<m_cb, pc, cur, submitted, done>> /\ main # "stopped"
    BY <1>5 DEF StopCallerOnly, Join, fiberVars, threadVars, jobVars
  <2> QED
    BY <2>1, <1>a, <1>b DEF Pool!PoolNext
<1>6. ASSUME NEW t \in Threads, PickTask(t) \/ PickNothing(t) \/ Idle(t) \/ Back(t) PROVE UNCHANGED Pool!poolVars
  <2>1. UNCHANGED <<m_cb, cur, submitted, done, main>>
    BY <1>6 DEF PickTask, PickNothing, Idle, Back, fiberVars, jobVars
  <2>2. pc[t] \in {"pick", "idle", "back"} /\ pc'[t] \in {"dispatch", "exited", "idle", "pick", "after"}
    BY <1>6 DEF PickTask, PickNothing, Idle, Back, TypeOK, ThreadTypeOK
  <2>3. \A u \in Threads : u # t => pc'[u] = pc[u]
    BY <1>6 DEF PickTask, PickNothing, Idle, Back, TypeOK, ThreadTypeOK
  <2>4. \A u \in Threads : u # t => JobOn(u)' = JobOn(u)
    BY <2>1, <2>3, JobOnKept
  <2>5. JobOn(t)' = JobOn(t)
    BY <2>2 DEF JobOn, OnStack
  <2> QED
    BY <2>1, <2>4, <2>5, PoolStutter
<1>7. ASSUME NEW t \in Threads, Yields(t) PROVE UNCHANGED Pool!poolVars
  <2>1. \A u \in Threads : pc'[u] = pc[u] \/ {pc'[u], pc[u]} \subseteq {"exec", "holding", "leaving"}
    BY <1>7 DEF Yields, TypeOK, ThreadTypeOK
  <2>2. UNCHANGED <<m_cb, cur, submitted, done, main>>
    BY <1>7 DEF Yields
  <2> QED
    BY <2>1, <2>2, JobOnKept, PoolStutter
<1>8. ASSUME NEW t \in Threads, Resumes(t) PROVE Pool!PoolNext
  <2>1. PICK f \in FiberIds : f = ft[t].fiber
    BY <1>8 DEF Resumes
  <2>2. PICK j \in Jobs : j = m_cb[f] /\ j \in submitted \ done
    <3>1. m_cb[f] \in Jobs /\ m_state[f] # "EXCEPT"
      BY <1>8, <2>1 DEF Resumes, FibersOK, ThreadOK, Entry
    <3> QED
      BY <3>1 DEF OnePlace, OnFiber
  <2>3. UNCHANGED <<m_cb, submitted, done, main>> /\ pc[t] = "dispatch" /\ pc'[t] = "exec" /\ cur'[t] = f
    BY <1>8, <2>1 DEF Resumes, TypeOK, ThreadTypeOK
  <2>4. \A u \in Threads : u # t => JobOn(u)' = JobOn(u)
    BY <1>8, <2>3, JobOnKept DEF Resumes, TypeOK, ThreadTypeOK
  <2>5. JobOn(t) = None /\ JobOn(t)' = j
    BY <2>2, <2>3 DEF JobOn, OnStack
  <2>6. ASSUME NEW u \in Threads, u # t PROVE JobOn(u) # j
    <3>1. ~Has(u, f)
      BY <2>1, <2>6 DEF Apart, Has
    <3>2. cur[u] \in FiberIds /\ m_cb[cur[u]] = j => cur[u] = f
      BY <2>2 DEF OnePlace
    <3> QED
      BY <3>1, <3>2 DEF JobOn, Has
  <2>7. Pool!Take(t, j)
    BY <2>2, <2>3, <2>4, <2>5, <2>6, PoolTakes
  <2> QED
    BY <2>7 DEF Pool!PoolNext
<1>9. ASSUME NEW t \in Threads, ReadyCalls(t) PROVE Pool!PoolNext
  <2>1. PICK f \in FiberIds :
         /\ f = cb_fiber[t] \/ f \notin created
         /\ m_cb' = [m_cb EXCEPT ![f] = ft[t].cb]
         /\ cur' = [cur EXCEPT ![t] = f]
    BY <1>9 DEF ReadyCalls
  <2>2. PICK j \in Jobs : j = ft[t].cb /\ j \in submitted \ done /\ ~OnFiber(j)
    BY <1>9 DEF ReadyCalls, OnePlace, HeldCb
  <2>3. UNCHANGED <<submitted, done, main>> /\ pc[t] = "dispatch" /\ pc'[t] = "exec" /\ cur'[t] = f /\ m_cb'[f] = j
    BY <1>9, <2>1, <2>2 DEF ReadyCalls, TypeOK, ThreadTypeOK, FiberTypeOK
  <2>4. ASSUME NEW u \in Threads, u # t PROVE JobOn(u)' = JobOn(u) /\ JobOn(u) # j
    <3>1. ~Has(u, f)
      BY <2>1, <2>4 DEF Apart, Has
    <3>2. pc'[u] = pc[u] /\ cur'[u] = cur[u] /\ (cur[u] # None => m_cb'[cur[u]] = m_cb[cur[u]])
      BY <1>9, <2>1, <2>4, <3>1 DEF ReadyCalls, Has, TypeOK, ThreadTypeOK, FiberTypeOK
    <3>3. JobOn(u) # j
      BY <2>2 DEF JobOn, OnFiber
    <3> QED
      BY <3>2, <3>3, JobOnKept
  <2>5. JobOn(t) = None /\ JobOn(t)' = j
    BY <2>2, <2>3 DEF JobOn, OnStack
  <2>6. Pool!Take(t, j)
    BY <2>2, <2>3, <2>4, <2>5, PoolTakes
  <2> QED
    BY <2>6 DEF Pool!PoolNext
<1>10. ASSUME NEW t \in Threads, Finish(t) \/ SwapOut(t) PROVE Pool!PoolNext
  <2>1. PICK f \in FiberIds : f = cur[t]
    BY <1>10 DEF Finish, SwapOut, CurOK
  <2>2. pc[t] \in {"exec", "leaving"} /\ pc'[t] = "back" /\ UNCHANGED <<cur, submitted, main>>
    BY <1>10 DEF Finish, SwapOut, jobVars, TypeOK, ThreadTypeOK
  <2>3. PICK j \in Jobs : j = m_cb[f] /\ JobOn(t) = j /\ j \in submitted \ done /\ \A u \in Threads : u # t => JobOn(u) # j
    <3>1. m_cb[f] # None /\ JobOn(t) = m_cb[f]
      BY <2>1, <2>2, JobOnIs DEF FibersOK, ThreadOK, Running, Ended
    <3> QED
      BY <3>1, JobOnApart
  <2>4. JobOn(t)' = None
    BY <2>2 DEF JobOn, OnStack
  <2>5. ASSUME NEW u \in Threads, u # t PROVE JobOn(u)' = JobOn(u)
    <3>1. cur[u] # f
      BY <2>1, <2>5 DEF Apart, Has
    <3>2. pc'[u] = pc[u] /\ cur'[u] = cur[u] /\ (cur[u] # None => m_cb'[cur[u]] = m_cb[cur[u]])
      BY <1>10, <2>1, <2>5, <3>1 DEF Finish, SwapOut, fiberVars, TypeOK, ThreadTypeOK, FiberTypeOK
    <3> QED
      BY <3>2, JobOnKept
  <2>6. CASE Finish(t)
    <3>1. done' = done \cup {j}
      BY <2>1, <2>3, <2>6 DEF Finish
    <3>2. Pool!End(t)
      BY <2>2, <2>3, <2>4, <2>5, <3>1, PoolEnds
    <3> QED
      BY <3>2 DEF Pool!PoolNext
  <2>7. CASE SwapOut(t)
    <3>1. done' = done
      BY <2>7 DEF SwapOut, jobVars
    <3>2. Pool!PutBack(t)
      BY <2>2, <2>3, <2>4, <2>5, <3>1, PoolPutsBack
    <3> QED
      BY <3>2 DEF Pool!PoolNext
  <2> QED
    BY <1>10, <2>6, <2>7
<1>11. ASSUME NEW t \in Threads, After(t) PROVE UNCHANGED Pool!poolVars
  <2>1. PICK f \in FiberIds : f = cur[t]
    BY <1>11 DEF After, CurOK
  <2>2. ASSUME NEW u \in Threads, u # t PROVE JobOn(u)' = JobOn(u)
    <3>1. cur[u] # f
      BY <2>1, <2>2 DEF Apart, Has
    <3>2. pc'[u] = pc[u] /\ cur'[u] = cur[u] /\ (cur[u] # None => m_cb'[cur[u]] = m_cb[cur[u]])
      BY <1>11, <2>1, <2>2, <3>1 DEF After, TypeOK, ThreadTypeOK, FiberTypeOK
    <3> QED
      BY <3>2, JobOnKept
  <2>3. JobOn(t)' = JobOn(t)
    BY <1>11 DEF After, JobOn, OnStack, TypeOK, ThreadTypeOK
  <2> QED
    BY <1>11, <2>2, <2>3, PoolStutter DEF After, jobVars
<1>12. CASE UNCHANGED vars
  BY <1>12, <1>a DEF vars, fiberVars, threadVars, jobVars
<1> QED
  BY <1>1, <1>2, <1>3, <1>4, <1>5, <1>6, <1>7, <1>8, <1>9, <1>10, <1>11, <1>12 DEF ReadyNext

(* While jobs only yield to READY the scheduler implements the pool: no    *)
(* job is executed by two threads or again after it ended, a job that      *)
(* yields goes back to waiting, and stop() closes the pool only when       *)
(* nothing is left.                                                        *)
THEOREM ImplementsPoolCorrect == OnlyReady => (Spec => ImplementsPool)
<1> SUFFICES ASSUME OnlyReady PROVE Spec => ImplementsPool
  OBVIOUS
<1>1. Init => Pool!PoolInit
  BY DEF Init, Pool!PoolInit, JobOn
<1>2. IPool /\ IPool' /\ [Next]_vars => [Pool!PoolNext]_(Pool!poolVars)
  <2> SUFFICES ASSUME IPool, IPool', [Next]_vars PROVE [Pool!PoolNext]_(Pool!poolVars)
    OBVIOUS
  <2>1. ReadyNext
    BY OnlyReadySteps DEF ReadyNext
  <2> QED
    BY <2>1, PoolStep
<1> QED
  BY PoolInvariance, <1>1, <1>2, PTL DEF Spec, ImplementsPool, Pool!PoolSpec
=============================================================================
