----------------------------- MODULE HookProofs -----------------------------
(***************************************************************************)
(* Proofs about Hook: a held fiber is resumed by exactly one thing, a      *)
(* timeout comes from the call's own timer, and no call leaves a timer     *)
(* behind, for any numbers of fibers and descriptors.                      *)
(***************************************************************************)
EXTENDS Hook, FiniteSetTheorems, TLAPS

(* Calls that neither wait nor have a timer. *)
Brief == {"register", "close", "cancle_all", "close_del", "close_f"}

(* Where a fiber is says what kind of call it is in. *)
ControlOK(f) ==
    /\ pc[f] = "user" <=> call[f] = NoCall
    /\ call[f] = SleepCall => pc[f] = "hold"
    /\ pc[f] \notin {"user", "hold"} => call[f] \in FdCall
    /\ pc[f] \in Brief <=> call[f] \in FdCall /\ call[f].op \in {"socket", "close"}

(* The scheduler's list has a fiber at most once, while it holds; a        *)
(* sleeping fiber is in the list or has one timer.                         *)
ListOK(f) ==
    /\ wakes[f] \in {0, 1}
    /\ wakes[f] = 1 => pc[f] = "hold"
    /\ call[f] = SleepCall => ByTimer(f) + wakes[f] = 1

(* A timer whose call is not over belongs to a call that may hold. *)
TimerOK(f) ==
    /\ f \in armed \cup queued => call[f] # NoCall /\ pc[f] \notin Brief
    /\ f \in armed => pc[f] \in {"add", "add_failed", "hold"}

FiberOK(f) == ControlOK(f) /\ ListOK(f) /\ TimerOK(f)

(* The FdContexts know exactly the fibers that wait and are not scheduled. *)
Known(f) ==
    \A d \in Fds, e \in Event :
        context[d][e] = f => /\ pc[f] = "hold" /\ wakes[f] = 0 /\ call[f] \in FdCall
                             /\ call[f].fd = d /\ call[f].event = e
Waiting(f) ==
    pc[f] = "hold" /\ call[f] \in FdCall /\ wakes[f] = 0
      => context[call[f].fd][call[f].event] = f

IInv == TypeOK /\ left = {} /\ \A f \in Fibers : FiberOK(f) /\ Known(f) /\ Waiting(f)

(* TypeOK in two parts: the descriptors, and the calls of the fibers. *)
FilesTyped ==
    /\ open \in [Fds -> BOOLEAN] /\ ready \in [Fds -> SUBSET Event]
    /\ conn \in [Fds -> {"none", "progress", "ended"}]
    /\ nonblock \in [Fds -> BOOLEAN] /\ inEpoll \in [Fds -> BOOLEAN]
    /\ datas \in [Fds -> FdCtx \cup {None}] /\ aborted \in BOOLEAN
Label == {"user", "register", "lookup", "direct", "try", "arm", "add", "add_failed", "hold",
          "check", "connect", "connect_f", "connect_direct", "so_error", "close",
          "cancle_all", "close_del", "close_f"}
CallsTyped ==
    /\ context \in [Fds -> [Event -> Fibers \cup {None}]] /\ wakes \in [Fibers -> Nat]
    /\ pc \in [Fibers -> Label] /\ call \in [Fibers -> Call]
    /\ cancelled \in [Fibers -> BOOLEAN]
    /\ armed \in SUBSET Fibers /\ queued \in SUBSET Fibers
    /\ left \in SUBSET Fibers /\ stale \in SUBSET Fibers
    /\ acting \in SUBSET (Fds \X Event)

-----------------------------------------------------------------------------
(* The two parts are all of it. *)
LEMMA TypeParts == TypeOK <=> FilesTyped /\ CallsTyped
  BY DEF TypeOK, FilesTyped, CallsTyped, Label

(* The three kinds of calls are different records. *)
LEMMA CallKinds == NoCall # SleepCall /\ NoCall \notin FdCall /\ SleepCall \notin FdCall
<1>1. NoCall.op = "none" /\ SleepCall.op = "sleep"
  BY DEF NoCall, SleepCall
<1>2. \A c \in FdCall : c.op \in {"io", "accept", "connect", "socket", "close"}
  BY DEF FdCall
<1> QED
  BY <1>1, <1>2

(* Changing "timed" or "own" of a call changes nothing else. *)
LEMMA CallExcept ==
  ASSUME NEW c \in FdCall, NEW b \in BOOLEAN
  PROVE  /\ [c EXCEPT !.timed = b] \in FdCall
         /\ [c EXCEPT !.timed = b].op = c.op
         /\ [c EXCEPT !.timed = b].fd = c.fd
         /\ [c EXCEPT !.timed = b].event = c.event
         /\ [c EXCEPT !.own = b] \in FdCall
         /\ [c EXCEPT !.own = b].op = c.op
         /\ [c EXCEPT !.own = b].fd = c.fd
         /\ [c EXCEPT !.own = b].event = c.event
  BY DEF FdCall

(* The fields of a call. *)
LEMMA CallFields ==
  ASSUME NEW c \in FdCall
  PROVE  /\ c.op \in {"io", "accept", "connect", "socket", "close"}
         /\ c.fd \in Fds /\ c.event \in Event /\ c.timed \in BOOLEAN
  BY DEF FdCall

(* A step of one fiber that is not held before or after it keeps the       *)
(* invariant if it keeps the fiber's own part of it.                       *)
LEMMA Local ==
  ASSUME IInv, TypeOK', NEW f \in Fibers,
         context' = context, wakes' = wakes, left' = {},
         pc[f] # "hold", pc'[f] # "hold",
         \A g \in Fibers \ {f} : /\ pc'[g] = pc[g] /\ call'[g] = call[g]
                                 /\ g \in armed' <=> g \in armed
                                 /\ g \in queued' <=> g \in queued,
         ControlOK(f)', TimerOK(f)'
  PROVE  IInv'
<1>1. wakes[f] = 0 /\ call'[f] # SleepCall
  BY DEF IInv, FiberOK, ListOK, ControlOK
<1>2. FiberOK(f)'
  BY <1>1 DEF FiberOK, ListOK
<1>3. \A g \in Fibers \ {f} : FiberOK(g)'
  BY DEF IInv, FiberOK, ListOK, ControlOK, TimerOK, ByTimer
<1>4. ASSUME NEW g \in Fibers PROVE Known(g)' /\ Waiting(g)'
  BY <1>4 DEF IInv, Known, Waiting
<1> QED
  BY <1>2, <1>3, <1>4 DEF IInv

(* A fiber that returns from a call that has no timer left. *)
LEMMA ReturnStep ==
  ASSUME IInv, NEW f \in Fibers, Return(f), FilesTyped',
         context' = context, wakes' = wakes, pc[f] # "hold", f \notin armed
  PROVE  IInv'
<1>1. CallsTyped'
  BY TypeParts DEF IInv, CallsTyped, Return, EndCall, Label, Call
<1>2. TypeOK'
  <2>1. FilesTyped' /\ CallsTyped' => TypeOK'
    BY DEF TypeOK, FilesTyped, CallsTyped, Label
  <2> QED
    BY <1>1, <2>1
<1>3. pc'[f] = "user" /\ call'[f] = NoCall /\ f \notin armed' /\ f \notin queued' /\ left' = {}
  BY TypeParts DEF IInv, CallsTyped, Return, EndCall
<1>4. \A g \in Fibers \ {f} : /\ pc'[g] = pc[g] /\ call'[g] = call[g]
                              /\ g \in armed' <=> g \in armed
                              /\ g \in queued' <=> g \in queued
  BY TypeParts DEF IInv, CallsTyped, Return, EndCall
<1>5. ControlOK(f)' /\ TimerOK(f)'
  BY <1>3, CallKinds DEF ControlOK, TimerOK, Brief
<1> QED
  BY <1>2, <1>3, <1>4, <1>5, Local

(* A fiber that goes on inside its call. *)
LEMMA GotoStep ==
  ASSUME IInv, NEW f \in Fibers, NEW label \in Label \ {"user", "hold"}, Goto(f, label),
         FilesTyped', context' = context, wakes' = wakes, pc[f] \notin {"user", "hold"},
         pc[f] \in Brief <=> label \in Brief,
         f \in armed => label \in {"add", "add_failed"}
  PROVE  IInv'
<1>1. CallsTyped'
  BY TypeParts DEF IInv, CallsTyped, Goto, timerVars
<1>2. TypeOK'
  <2>1. FilesTyped' /\ CallsTyped' => TypeOK'
    BY DEF TypeOK, FilesTyped, CallsTyped, Label
  <2> QED
    BY <1>1, <2>1
<1>3. pc'[f] = label /\ call' = call /\ armed' = armed /\ queued' = queued /\ left' = {}
  BY TypeParts DEF IInv, CallsTyped, Goto, timerVars
<1>4. \A g \in Fibers \ {f} : pc'[g] = pc[g]
  BY TypeParts DEF IInv, CallsTyped, Goto
<1>5. ControlOK(f)' /\ TimerOK(f)'
  BY <1>3, CallKinds DEF IInv, FiberOK, ControlOK, TimerOK
<1> QED
  BY <1>2, <1>3, <1>4, <1>5, Local

(* A fiber that begins a call on a descriptor. *)
LEMMA EnterStep ==
  ASSUME IInv, NEW f \in Fibers, NEW label \in Label \ {"user", "hold"}, NEW c \in FdCall,
         Enter(f, c, label), UNCHANGED timerVars,
         FilesTyped', context' = context, wakes' = wakes,
         label \in Brief <=> c.op \in {"socket", "close"}
  PROVE  IInv'
<1>1. CallsTyped'
  BY TypeParts DEF IInv, CallsTyped, Enter, timerVars, Call
<1>2. TypeOK'
  <2>1. FilesTyped' /\ CallsTyped' => TypeOK'
    BY DEF TypeOK, FilesTyped, CallsTyped, Label
  <2> QED
    BY <1>1, <2>1
<1>3. /\ pc[f] = "user" /\ pc'[f] = label /\ call'[f] = c
      /\ armed' = armed /\ queued' = queued /\ left' = {}
  BY TypeParts DEF IInv, CallsTyped, Enter, timerVars
<1>4. \A g \in Fibers \ {f} : pc'[g] = pc[g] /\ call'[g] = call[g]
  BY TypeParts DEF IInv, CallsTyped, Enter
<1>5. f \notin armed /\ f \notin queued
  BY <1>3 DEF IInv, FiberOK, ControlOK, TimerOK
<1>6. ControlOK(f)' /\ TimerOK(f)'
  BY <1>3, <1>5, CallKinds DEF ControlOK, TimerOK
<1> QED
  BY <1>2, <1>3, <1>4, <1>6, Local
-----------------------------------------------------------------------------
(* A fiber that is inside a call and does not hold. *)
LEMMA Inside ==
  ASSUME IInv, NEW f \in Fibers, pc[f] \notin {"user", "hold"}
  PROVE  /\ call[f] \in FdCall /\ call[f].fd \in Fds /\ call[f].event \in Event
         /\ call[f] # SleepCall
         /\ pc[f] \notin {"add", "add_failed"} => f \notin armed
         /\ pc[f] \in Brief <=> call[f].op \in {"socket", "close"}
  BY CallFields, CallKinds DEF IInv, FiberOK, ControlOK, TimerOK

(* The files after a step that leaves them alone. *)
LEMMA SameFiles ==
  ASSUME IInv, UNCHANGED <<open, ready, conn, nonblock, inEpoll, datas, aborted>>
  PROVE  FilesTyped'
  BY DEF IInv, TypeOK, FilesTyped

(* socket *)
LEMMA SocketStep ==
  ASSUME IInv, NEW f \in Fibers, NEW d \in Fds, Socket(f, d)
  PROVE  IInv'
<1>1. FilesTyped'
  BY DEF IInv, TypeOK, FilesTyped, Socket, OpenAs, eventVars
<1>2. CallOn("socket", d, "READ", FALSE) \in FdCall /\ CallOn("socket", d, "READ", FALSE).op = "socket"
  BY DEF CallOn, FdCall, Event
<1> QED
  BY <1>1, <1>2, EnterStep DEF Socket, eventVars, Label, Brief

(* FdManager::get(fd, true) *)
LEMMA RegisterStep ==
  ASSUME IInv, NEW f \in Fibers, Register(f)
  PROVE  IInv'
<1>1. NewFdCtx \in FdCtx
  BY DEF NewFdCtx, FdCtx
<1>2. FilesTyped'
  BY <1>1 DEF IInv, TypeOK, FilesTyped, Register, eventVars
<1>3. f \notin armed
  BY Inside DEF Register
<1> QED
  BY <1>2, <1>3, ReturnStep DEF Register, eventVars

(* do_io is called *)
LEMMA DoIoStep ==
  ASSUME IInv, NEW f \in Fibers, NEW d \in Fds, NEW e \in Event, NEW op \in {"io", "accept"},
         DoIo(f, d, e, op)
  PROVE  IInv'
<1>1. FilesTyped'
  BY SameFiles DEF DoIo, fileVars, eventVars
<1>2. CallOn(op, d, e, FALSE) \in FdCall /\ CallOn(op, d, e, FALSE).op = op
  BY DEF CallOn, FdCall
<1> QED
  BY <1>1, <1>2, EnterStep DEF DoIo, eventVars, Label, Brief

(* do_io looks up the context *)
LEMMA LookupStep ==
  ASSUME IInv, NEW f \in Fibers, Lookup(f)
  PROVE  IInv'
<1>1. FilesTyped' /\ context' = context /\ wakes' = wakes /\ pc[f] = "lookup"
  BY SameFiles DEF Lookup, fileVars, eventVars
<1>2. CASE ~Hooked(call[f].fd)
  <2>1. Goto(f, "direct") /\ f \notin armed
    BY <1>1, <1>2, Inside DEF Lookup
  <2> QED
    BY <1>1, <2>1, GotoStep DEF Label, Brief
<1>3. CASE Hooked(call[f].fd)
  <2> DEFINE b == datas[call[f].fd].timeout[call[f].event]
  <2>1. call[f] \in FdCall /\ call[f].fd \in Fds /\ call[f].event \in Event /\ f \notin armed
        /\ call[f].op \notin {"socket", "close"}
    BY <1>1, Inside DEF Brief
  <2>2. b \in BOOLEAN
    <3>1. datas[call[f].fd] \in FdCtx
      BY <1>3, <2>1 DEF Hooked, IInv, TypeOK
    <3>2. datas[call[f].fd].timeout \in [Event -> BOOLEAN]
      BY <3>1 DEF FdCtx
    <3> QED
      BY <3>2, <2>1
  <2>3. /\ pc' = [pc EXCEPT ![f] = "try"] /\ call' = [call EXCEPT ![f] = [call[f] EXCEPT !.timed = b]]
        /\ cancelled' = cancelled /\ armed' = armed /\ queued' = queued /\ left' = left
        /\ stale' = stale /\ acting' = acting
    BY <1>3 DEF Lookup, timerVars
  <2>4. pc \in [Fibers -> Label] /\ call \in [Fibers -> Call]
    BY TypeParts DEF IInv, CallsTyped
  <2> HIDE DEF b
  <2>5. [call[f] EXCEPT !.timed = b] \in FdCall /\ [call[f] EXCEPT !.timed = b].op = call[f].op
    BY <2>1, <2>2, CallExcept
  <2>6. CallsTyped'
    BY <1>1, <2>3, <2>4, <2>5, TypeParts DEF IInv, CallsTyped, Label, Call
  <2>7. TypeOK'
    BY <1>1, <2>6 DEF TypeOK, FilesTyped, CallsTyped, Label
  <2>8. /\ pc'[f] = "try" /\ call'[f] \in FdCall /\ call'[f].op = call[f].op
        /\ \A g \in Fibers \ {f} : pc'[g] = pc[g] /\ call'[g] = call[g]
    BY <2>3, <2>4, <2>5
  <2>9. ControlOK(f)' /\ TimerOK(f)'
    BY <2>1, <2>3, <2>8, CallKinds DEF ControlOK, TimerOK, Brief
  <2>10. left' = {}
    BY <2>3 DEF IInv
  <2> QED
    BY <1>1, <2>3, <2>7, <2>8, <2>9, <2>10, Local
<1> QED
  BY <1>2, <1>3

(* A call ends and the fiber goes on with another one; its timer is gone. *)
LEMMA NextCall ==
  ASSUME IInv, NEW f \in Fibers, NEW c \in FdCall, EndCall(f, armed, c, "register"),
         c.op = "socket", FilesTyped', context' = context, wakes' = wakes, pc[f] # "hold",
         f \notin armed
  PROVE  IInv'
<1>1. CallsTyped'
  BY TypeParts DEF IInv, CallsTyped, EndCall, Label, Call
<1>2. TypeOK'
  BY <1>1 DEF TypeOK, FilesTyped, CallsTyped, Label
<1>3. pc'[f] = "register" /\ call'[f] = c /\ f \notin armed' /\ f \notin queued' /\ left' = {}
  BY TypeParts DEF IInv, CallsTyped, EndCall
<1>4. \A g \in Fibers \ {f} : /\ pc'[g] = pc[g] /\ call'[g] = call[g]
                              /\ g \in armed' <=> g \in armed
                              /\ g \in queued' <=> g \in queued
  BY TypeParts DEF IInv, CallsTyped, EndCall
<1>5. ControlOK(f)' /\ TimerOK(f)'
  BY <1>3, CallKinds DEF ControlOK, TimerOK, Brief
<1> QED
  BY <1>2, <1>3, <1>4, <1>5, Local

(* The original function of do_io *)
LEMMA TryStep ==
  ASSUME IInv, NEW f \in Fibers, Try(f)
  PROVE  IInv'
<1> DEFINE drained == [ready EXCEPT ![call[f].fd] = @ \ {call[f].event}]
<1>1. /\ pc[f] \in {"try", "direct"} /\ UNCHANGED <<datas, context, inEpoll, wakes, aborted>>
      /\ pc[f] \notin {"user", "hold"}
  BY DEF Try, eventVars
<1>2. f \notin armed
  BY <1>1, Inside
<1>3. CASE Done(f)
  <2>1. drained \in [Fds -> SUBSET Event]
    BY DEF IInv, TypeOK
  <2>2. CASE call[f].op = "io" /\ ready' = drained /\ Return(f) /\ UNCHANGED <<open, conn, nonblock>>
    <3>1. FilesTyped'
      BY <1>1, <2>1, <2>2 DEF IInv, TypeOK, FilesTyped
    <3> QED
      BY <1>1, <1>2, <2>2, <3>1, ReturnStep
  <2>3. CASE \E n \in Fds : /\ OpenAs(n, "ended", drained)
                            /\ EndCall(f, armed, CallOn("socket", n, "READ", FALSE), "register")
    <3>1. PICK n \in Fds : /\ OpenAs(n, "ended", drained)
                           /\ EndCall(f, armed, CallOn("socket", n, "READ", FALSE), "register")
      BY <2>3
    <3>2. FilesTyped'
      <4> HIDE DEF drained
      <4> QED
        BY <1>1, <2>1, <3>1 DEF IInv, TypeOK, FilesTyped, OpenAs
    <3>3. /\ CallOn("socket", n, "READ", FALSE) \in FdCall
          /\ CallOn("socket", n, "READ", FALSE).op = "socket"
      BY DEF CallOn, FdCall, Event
    <3> QED
      BY <1>1, <1>2, <3>1, <3>2, <3>3, NextCall
  <2> QED
    BY <1>3, <2>2, <2>3 DEF Done
<1>4. CASE /\ IF pc[f] = "try" THEN Goto(f, "arm") ELSE Return(f)
           /\ UNCHANGED fileVars
  <2>1. FilesTyped'
    BY <1>1, <1>4, SameFiles DEF fileVars
  <2>2. CASE Goto(f, "arm")
    BY <1>1, <1>2, <2>1, <2>2, GotoStep DEF Label, Brief
  <2>3. CASE Return(f)
    BY <1>1, <1>2, <2>1, <2>3, ReturnStep
  <2> QED
    BY <1>4, <2>2, <2>3
<1>5. CASE Return(f) /\ UNCHANGED fileVars
  <2>1. FilesTyped'
    BY <1>1, <1>5, SameFiles DEF fileVars
  <2> QED
    BY <1>1, <1>2, <1>5, <2>1, ReturnStep
<1> QED
  BY <1>3, <1>4, <1>5 DEF Try

(* addConditionTimer *)
LEMMA ArmStep ==
  ASSUME IInv, NEW f \in Fibers, Arm(f)
  PROVE  IInv'
<1>1. /\ FilesTyped' /\ context' = context /\ wakes' = wakes /\ pc[f] = "arm"
      /\ call' = call /\ queued' = queued /\ left' = {} /\ pc' = [pc EXCEPT ![f] = "add"]
  BY SameFiles DEF Arm, fileVars, eventVars, IInv
<1>2. armed' \in SUBSET Fibers /\ \A g \in Fibers \ {f} : g \in armed' <=> g \in armed
  BY TypeParts DEF Arm, IInv, CallsTyped
<1>3. CallsTyped'
  BY <1>1, <1>2, TypeParts DEF IInv, CallsTyped, Arm, eventVars, Label
<1>4. TypeOK'
  BY <1>1, <1>3 DEF TypeOK, FilesTyped, CallsTyped, Label
<1>5. pc'[f] = "add" /\ \A g \in Fibers \ {f} : pc'[g] = pc[g]
  BY <1>1, TypeParts DEF IInv, CallsTyped
<1>6. ControlOK(f)' /\ TimerOK(f)'
  BY <1>1, <1>5, Inside, CallKinds DEF ControlOK, TimerOK, Brief
<1> QED
  BY <1>1, <1>2, <1>4, <1>5, <1>6, Local

(* addEvent failed *)
LEMMA AddFailedStep ==
  ASSUME IInv, NEW f \in Fibers, AddFailed(f)
  PROVE  IInv'
<1>1. FilesTyped' /\ context' = context /\ wakes' = wakes /\ pc[f] = "add_failed"
  BY SameFiles DEF AddFailed, fileVars, eventVars
<1>2. pc \in [Fibers -> Label] /\ call \in [Fibers -> Call] /\ armed \in SUBSET Fibers /\ left = {}
  BY TypeParts DEF IInv, CallsTyped
<1>3. CASE /\ pc' = [pc EXCEPT ![f] = "so_error"] /\ armed' = WithoutTimer(f)
           /\ UNCHANGED <<call, cancelled, queued, left, stale, acting>>
  <2>1. CallsTyped'
    BY <1>1, <1>2, <1>3, TypeParts DEF IInv, CallsTyped, WithoutTimer, Label
  <2>2. TypeOK'
    BY <1>1, <2>1 DEF TypeOK, FilesTyped, CallsTyped, Label
  <2>3. /\ pc'[f] = "so_error" /\ call' = call /\ f \notin armed' /\ left' = {}
        /\ \A g \in Fibers \ {f} : pc'[g] = pc[g] /\ (g \in armed' <=> g \in armed)
    BY <1>2, <1>3 DEF WithoutTimer
  <2>4. ControlOK(f)' /\ TimerOK(f)'
    BY <1>1, <1>3, <2>3, Inside, CallKinds DEF ControlOK, TimerOK, Brief
  <2> QED
    BY <1>1, <1>3, <2>2, <2>3, <2>4, Local
<1>4. CASE EndCall(f, WithoutTimer(f), NoCall, "user")
  <2>1. CallsTyped'
    BY <1>1, <1>2, <1>4, TypeParts DEF IInv, CallsTyped, WithoutTimer, EndCall, Label, Call
  <2>2. TypeOK'
    BY <1>1, <2>1 DEF TypeOK, FilesTyped, CallsTyped, Label
  <2>3. /\ pc'[f] = "user" /\ call'[f] = NoCall /\ f \notin armed' /\ f \notin queued' /\ left' = {}
        /\ \A g \in Fibers \ {f} : /\ pc'[g] = pc[g] /\ call'[g] = call[g]
                                   /\ g \in armed' <=> g \in armed
                                   /\ g \in queued' <=> g \in queued
    BY <1>2, <1>4 DEF WithoutTimer, EndCall
  <2>4. ControlOK(f)' /\ TimerOK(f)'
    BY <2>3, CallKinds DEF ControlOK, TimerOK, Brief
  <2> QED
    BY <1>1, <2>2, <2>3, <2>4, Local
<1> QED
  BY <1>3, <1>4 DEF AddFailed

(* A woken wait looks at cancelled. *)
LEMMA CheckStep ==
  ASSUME IInv, NEW f \in Fibers, Check(f)
  PROVE  IInv'
<1>1. FilesTyped' /\ context' = context /\ wakes' = wakes /\ pc[f] = "check"
  BY SameFiles DEF Check, fileVars, eventVars
<1>2. f \notin armed
  BY <1>1, Inside
<1>3. CASE Return(f)
  BY <1>1, <1>2, <1>3, ReturnStep
<1>4. CASE Goto(f, "so_error")
  BY <1>1, <1>2, <1>4, GotoStep DEF Label, Brief
<1>5. CASE Goto(f, "try")
  BY <1>1, <1>2, <1>5, GotoStep DEF Label, Brief
<1> QED
  BY <1>3, <1>4, <1>5 DEF Check

(* connect_with_timeout, up to the wait *)
LEMMA ConnectStep ==
  ASSUME IInv, NEW f \in Fibers, NEW d \in Fds, NEW timed \in BOOLEAN, Connect(f, d, timed)
  PROVE  IInv'
<1>1. FilesTyped'
  BY SameFiles DEF Connect, fileVars, eventVars
<1>2. CallOn("connect", d, "WRITE", timed) \in FdCall /\ CallOn("connect", d, "WRITE", timed).op = "connect"
  BY DEF CallOn, FdCall, Event
<1> QED
  BY <1>1, <1>2, EnterStep DEF Connect, eventVars, Label, Brief

(* connect looks up the context *)
LEMMA ConnectLookupStep ==
  ASSUME IInv, NEW f \in Fibers, ConnectLookup(f)
  PROVE  IInv'
<1>1. FilesTyped' /\ context' = context /\ wakes' = wakes /\ pc[f] = "connect"
  BY SameFiles DEF ConnectLookup, fileVars, eventVars
<1>2. f \notin armed
  BY <1>1, Inside
<1>3. CASE Return(f)
  BY <1>1, <1>2, <1>3, ReturnStep
<1>4. CASE Goto(f, "connect_f")
  BY <1>1, <1>2, <1>4, GotoStep DEF Label, Brief
<1>5. CASE Goto(f, "connect_direct")
  BY <1>1, <1>2, <1>5, GotoStep DEF Label, Brief
<1> QED
  BY <1>3, <1>4, <1>5 DEF ConnectLookup

(* The original connect *)
LEMMA ConnectFStep ==
  ASSUME IInv, NEW f \in Fibers, ConnectF(f)
  PROVE  IInv'
<1>1. /\ context' = context /\ wakes' = wakes /\ pc[f] \in {"connect_f", "connect_direct"}
      /\ UNCHANGED <<open, ready, nonblock, datas, inEpoll, aborted>>
      /\ pc[f] \notin {"user", "hold"}
  BY DEF ConnectF, eventVars
<1>2. conn' \in [Fds -> {"none", "progress", "ended"}]
  BY DEF ConnectF, IInv, TypeOK
<1>3. FilesTyped'
  BY <1>1, <1>2 DEF IInv, TypeOK, FilesTyped
<1>4. f \notin armed
  BY <1>1, Inside
<1>5. CASE Return(f)
  BY <1>1, <1>3, <1>4, <1>5, ReturnStep
<1>6. CASE Goto(f, "arm")
  BY <1>1, <1>3, <1>4, <1>6, GotoStep DEF Label, Brief
<1> QED
  BY <1>5, <1>6 DEF ConnectF

(* getsockopt(SO_ERROR) *)
LEMMA SoErrorStep ==
  ASSUME IInv, NEW f \in Fibers, SoError(f)
  PROVE  IInv'
<1>1. FilesTyped' /\ context' = context /\ wakes' = wakes /\ pc[f] = "so_error" /\ Return(f)
  BY SameFiles DEF SoError, fileVars, eventVars
<1> QED
  BY <1>1, Inside, ReturnStep

(* close, up to cancleAll *)
LEMMA CloseStep ==
  ASSUME IInv, NEW f \in Fibers, NEW d \in Fds, Close(f, d)
  PROVE  IInv'
<1>1. FilesTyped'
  BY SameFiles DEF Close, fileVars, eventVars
<1>2. CallOn("close", d, "READ", FALSE) \in FdCall /\ CallOn("close", d, "READ", FALSE).op = "close"
  BY DEF CallOn, FdCall, Event
<1> QED
  BY <1>1, <1>2, EnterStep DEF Close, eventVars, Label, Brief

(* close looks up the context *)
LEMMA CloseLookupStep ==
  ASSUME IInv, NEW f \in Fibers, CloseLookup(f)
  PROVE  IInv'
<1>1. FilesTyped' /\ context' = context /\ wakes' = wakes /\ pc[f] = "close"
  BY SameFiles DEF CloseLookup, fileVars, eventVars
<1>2. f \notin armed
  BY <1>1, Inside
<1>3. CASE Goto(f, "close_f")
  BY <1>1, <1>2, <1>3, GotoStep DEF Label, Brief
<1>4. CASE Goto(f, "cancle_all")
  BY <1>1, <1>2, <1>4, GotoStep DEF Label, Brief
<1> QED
  BY <1>3, <1>4 DEF CloseLookup

(* FdManager::del *)
LEMMA CloseDelStep ==
  ASSUME IInv, NEW f \in Fibers, CloseDel(f)
  PROVE  IInv'
<1>1. FilesTyped'
  BY DEF CloseDel, fileVars, eventVars, IInv, TypeOK, FilesTyped
<1>2. context' = context /\ wakes' = wakes /\ pc[f] = "close_del" /\ Goto(f, "close_f")
  BY DEF CloseDel, eventVars
<1>3. f \notin armed
  BY <1>2, Inside
<1> QED
  BY <1>1, <1>2, <1>3, GotoStep DEF Label, Brief

(* A step that leaves the calls and the events alone. *)
LEMMA FilesStep ==
  ASSUME IInv, FilesTyped', UNCHANGED <<context, wakes, callVars>>
  PROVE  IInv'
<1>1. /\ context' = context /\ wakes' = wakes /\ pc' = pc /\ call' = call /\ cancelled' = cancelled
      /\ armed' = armed /\ queued' = queued /\ left' = left /\ stale' = stale /\ acting' = acting
  BY DEF callVars, timerVars
<1>2. TypeOK'
  BY <1>1 DEF IInv, TypeOK, FilesTyped
<1>3. ASSUME NEW f \in Fibers PROVE FiberOK(f)' /\ Known(f)' /\ Waiting(f)'
  <2>1. FiberOK(f)'
    BY <1>1 DEF IInv, FiberOK, ControlOK, ListOK, TimerOK, ByTimer
  <2>2. Known(f)' /\ Waiting(f)'
    BY <1>1 DEF IInv, Known, Waiting
  <2> QED
    BY <2>1, <2>2
<1> QED
  BY <1>1, <1>2, <1>3 DEF IInv

(* fcntl, ioctl, setsockopt *)
LEMMA FlagStep ==
  ASSUME IInv, NEW f \in Fibers, NEW d \in Fds, NEW e \in Event, NEW b \in BOOLEAN,
         Fcntl(f, d, b) \/ Ioctl(f, d, b) \/ Setsockopt(f, d, e)
  PROVE  IInv'
<1>1. datas[d] \in FdCtx
  BY DEF Fcntl, Ioctl, Setsockopt, MayUse, IInv, TypeOK
<1>2. [datas[d] EXCEPT !.m_userNonblock = b] \in FdCtx
  BY <1>1 DEF FdCtx
<1>3. [datas[d] EXCEPT !.timeout[e] = TRUE] \in FdCtx
  BY <1>1 DEF FdCtx
<1>4. \/ datas' = [datas EXCEPT ![d] = [datas[d] EXCEPT !.m_userNonblock = b]]
      \/ datas' = [datas EXCEPT ![d] = [datas[d] EXCEPT !.timeout[e] = TRUE]]
  BY DEF Fcntl, Ioctl, Setsockopt
<1>5. datas' \in [Fds -> FdCtx \cup {None}]
  BY <1>2, <1>3, <1>4 DEF IInv, TypeOK
<1>6. nonblock' \in [Fds -> BOOLEAN]
  BY DEF Fcntl, Ioctl, Setsockopt, fileVars, IInv, TypeOK
<1>7. UNCHANGED <<open, ready, conn, context, inEpoll, wakes, aborted, callVars>>
  BY DEF Fcntl, Ioctl, Setsockopt, fileVars, eventVars
<1>8. FilesTyped'
  BY <1>5, <1>6, <1>7 DEF IInv, TypeOK, FilesTyped
<1> QED
  BY <1>7, <1>8, FilesStep

(* The peer *)
LEMMA PeerKeeps ==
  ASSUME IInv, PeerStep
  PROVE  IInv'
<1>1. PICK d \in Fds : Connected(d) \/ \E e \in Event : Arrives(d, e)
  BY DEF PeerStep
<1>2. CASE Connected(d)
  <2>1. FilesTyped'
    BY <1>2 DEF Connected, eventVars, IInv, TypeOK, FilesTyped, Event
  <2> QED
    BY <1>2, <2>1, FilesStep DEF Connected, eventVars
<1>3. CASE \E e \in Event : Arrives(d, e)
  <2>1. FilesTyped'
    BY <1>3 DEF Arrives, eventVars, IInv, TypeOK, FilesTyped
  <2> QED
    BY <1>3, <2>1, FilesStep DEF Arrives, eventVars
<1> QED
  BY <1>1, <1>2, <1>3
-----------------------------------------------------------------------------
(* One registered event is taken and its fiber scheduled. *)
LEMMA WakeOne ==
  ASSUME IInv, TypeOK', NEW d \in Fds, NEW e \in Event, context[d][e] # None,
         wakes' = [wakes EXCEPT ![context[d][e]] = @ + 1],
         context' = [context EXCEPT ![d] = [@ EXCEPT ![e] = None]],
         UNCHANGED <<pc, call, armed, queued, left>>
  PROVE  IInv'
<1> DEFINE w == context[d][e]
<1>1. /\ w \in Fibers /\ wakes \in [Fibers -> Nat]
      /\ context \in [Fds -> [Event -> Fibers \cup {None}]]
  BY TypeParts DEF IInv, CallsTyped
<1>2. pc[w] = "hold" /\ wakes[w] = 0 /\ call[w] \in FdCall /\ call[w].fd = d /\ call[w].event = e
  BY <1>1 DEF IInv, Known
<1>3. wakes'[w] = 1 /\ \A g \in Fibers \ {w} : wakes'[g] = wakes[g]
  BY <1>1, <1>2
<1>4. /\ context'[d][e] = None
      /\ \A x \in Fds, y \in Event : x # d \/ y # e => context'[x][y] = context[x][y]
  BY <1>1
<1>5. None \notin Fibers
  BY HookAssumption
<1> HIDE DEF w
<1>6. ASSUME NEW f \in Fibers PROVE FiberOK(f)'
  <2>1. CASE f = w
    BY <1>2, <1>3, <2>1, CallKinds DEF IInv, FiberOK, ControlOK, ListOK, TimerOK
  <2>2. CASE f # w
    BY <1>3, <2>2 DEF IInv, FiberOK, ControlOK, ListOK, TimerOK, ByTimer
  <2> QED
    BY <2>1, <2>2
<1>7. ASSUME NEW f \in Fibers PROVE Known(f)'
  <2> SUFFICES ASSUME NEW x \in Fds, NEW y \in Event, context'[x][y] = f
               PROVE  /\ pc[f] = "hold" /\ wakes'[f] = 0 /\ call[f] \in FdCall
                      /\ call[f].fd = x /\ call[f].event = y
    BY DEF Known
  <2>1. context[x][y] = f /\ (x # d \/ y # e)
    BY <1>4, <1>5
  <2>2. pc[f] = "hold" /\ wakes[f] = 0 /\ call[f] \in FdCall /\ call[f].fd = x /\ call[f].event = y
    BY <2>1 DEF IInv, Known
  <2>3. f # w
    BY <1>2, <2>1, <2>2
  <2> QED
    BY <1>3, <2>2, <2>3
<1>8. ASSUME NEW f \in Fibers PROVE Waiting(f)'
  <2> SUFFICES ASSUME pc[f] = "hold", call[f] \in FdCall, wakes'[f] = 0
               PROVE  context'[call[f].fd][call[f].event] = f
    BY DEF Waiting
  <2>1. f # w
    BY <1>3
  <2>2. wakes[f] = 0
    BY <1>3, <2>1
  <2>3. context[call[f].fd][call[f].event] = f /\ call[f].fd \in Fds /\ call[f].event \in Event
    BY <2>2, CallFields DEF IInv, Waiting
  <2>4. ~(call[f].fd = d /\ call[f].event = e)
    BY <2>1, <2>3 DEF w
  <2> QED
    BY <1>4, <2>3, <2>4
<1>9. left' = {}
  BY DEF IInv
<1> QED
  BY <1>6, <1>7, <1>8, <1>9 DEF IInv

(* idle() triggers an event. *)
LEMMA TriggerStep ==
  ASSUME IInv, NEW d \in Fds, NEW e \in Event, Trigger(d, e)
  PROVE  IInv'
<1>1. UNCHANGED <<open, ready, conn, nonblock, datas, aborted, pc, call, cancelled, armed, queued, left,
                  stale, acting>>
  BY DEF Trigger, fileVars, callVars, timerVars
<1>2. inEpoll' \in [Fds -> BOOLEAN]
  BY DEF Trigger, IInv, TypeOK
<1>3. wakes' \in [Fibers -> Nat] /\ context' \in [Fds -> [Event -> Fibers \cup {None}]]
  BY DEF Trigger, IInv, TypeOK
<1>4. TypeOK'
  BY <1>1, <1>2, <1>3 DEF IInv, TypeOK
<1> QED
  BY <1>1, <1>4, WakeOne DEF Trigger

(* cancleEvent of a timer's callback *)
LEMMA CancleEventStep ==
  ASSUME IInv, NEW d \in Fds, NEW e \in Event, CancleEvent(d, e)
  PROVE  IInv'
<1>1. UNCHANGED <<open, ready, conn, nonblock, datas, inEpoll, aborted, pc, call, cancelled, armed, queued,
                  left, stale>>
  BY DEF CancleEvent, fileVars
<1>2. acting' \in SUBSET (Fds \X Event)
  BY DEF CancleEvent, IInv, TypeOK
<1>3. CASE context[d][e] # None /\ open[d] /\ inEpoll[d]
  <2>1. /\ wakes' = [wakes EXCEPT ![context[d][e]] = @ + 1]
        /\ context' = [context EXCEPT ![d] = [@ EXCEPT ![e] = None]]
    BY <1>3 DEF CancleEvent
  <2>2. wakes' \in [Fibers -> Nat] /\ context' \in [Fds -> [Event -> Fibers \cup {None}]]
    BY <1>3, <2>1 DEF IInv, TypeOK
  <2>3. TypeOK'
    BY <1>1, <1>2, <2>2 DEF IInv, TypeOK
  <2> QED
    BY <1>1, <1>3, <2>1, <2>3, WakeOne
<1>4. CASE ~(context[d][e] # None /\ open[d] /\ inEpoll[d])
  <2>1. context' = context /\ wakes' = wakes
    BY <1>4 DEF CancleEvent
  <2>2. TypeOK'
    BY <1>1, <1>2, <2>1 DEF IInv, TypeOK
  <2>3. ASSUME NEW f \in Fibers PROVE FiberOK(f)'
    BY <1>1, <2>1 DEF IInv, FiberOK, ControlOK, ListOK, TimerOK, ByTimer
  <2>4. ASSUME NEW f \in Fibers PROVE Known(f)' /\ Waiting(f)'
    BY <1>1, <2>1 DEF IInv, Known, Waiting
  <2> QED
    BY <1>1, <2>2, <2>3, <2>4 DEF IInv
<1> QED
  BY <1>3, <1>4

(* IOManager::addEvent *)
LEMMA AddEventStep ==
  ASSUME IInv, NEW f \in Fibers, AddEvent(f)
  PROVE  IInv'
<1> DEFINE d == call[f].fd
           e == call[f].event
<1>1. pc[f] = "add" /\ UNCHANGED <<open, ready, conn, nonblock, datas, wakes>>
  BY DEF AddEvent, fileVars
<1>2. call[f] \in FdCall /\ d \in Fds /\ e \in Event /\ call[f].op \notin {"socket", "close"}
  BY <1>1, Inside DEF Brief
<1>3. CASE aborted' = TRUE /\ UNCHANGED <<context, inEpoll, callVars>>
  <2>1. FilesTyped'
    BY <1>1, <1>3 DEF IInv, TypeOK, FilesTyped
  <2> QED
    BY <1>1, <1>3, <2>1, FilesStep
<1>4. CASE Goto(f, "add_failed") /\ UNCHANGED <<context, inEpoll, aborted>>
  <2>1. FilesTyped'
    BY <1>1, <1>4, SameFiles
  <2> QED
    BY <1>1, <1>4, <2>1, GotoStep DEF Label, Brief
<1>5. CASE /\ context[d][e] = None
           /\ context' = [context EXCEPT ![d] = [@ EXCEPT ![e] = f]]
           /\ inEpoll' = [inEpoll EXCEPT ![d] = TRUE]
           /\ Goto(f, "hold") /\ UNCHANGED aborted
  <2>1. /\ pc' = [pc EXCEPT ![f] = "hold"] /\ call' = call /\ cancelled' = cancelled /\ armed' = armed
        /\ queued' = queued /\ left' = left /\ stale' = stale /\ acting' = acting
    BY <1>5 DEF Goto, timerVars
  <2> HIDE DEF d, e
  <2>2. TypeOK'
    <3>1. context' \in [Fds -> [Event -> Fibers \cup {None}]]
      BY <1>2, <1>5 DEF IInv, TypeOK
    <3>2. inEpoll' \in [Fds -> BOOLEAN] /\ aborted' = aborted
      BY <1>5 DEF IInv, TypeOK
    <3> QED
      BY <1>1, <2>1, <3>1, <3>2 DEF IInv, TypeOK
  <2>3. context \in [Fds -> [Event -> Fibers \cup {None}]] /\ pc \in [Fibers -> Label]
    BY TypeParts DEF IInv, CallsTyped
  <2>4. /\ context'[d][e] = f
        /\ \A x \in Fds, y \in Event : x # d \/ y # e => context'[x][y] = context[x][y]
    BY <1>2, <1>5, <2>3
  <2>5. pc'[f] = "hold" /\ \A g \in Fibers \ {f} : pc'[g] = pc[g]
    BY <2>1, <2>3
  <2>6. wakes[f] = 0
    BY <1>1 DEF IInv, FiberOK, ListOK
  <2>7. ASSUME NEW g \in Fibers PROVE FiberOK(g)'
    <3>1. CASE g = f
      BY <1>1, <1>2, <2>1, <2>5, <2>6, <3>1, CallKinds DEF IInv, FiberOK, ControlOK, ListOK, TimerOK, Brief
    <3>2. CASE g # f
      BY <1>1, <2>1, <2>5, <3>2 DEF IInv, FiberOK, ControlOK, ListOK, TimerOK, ByTimer
    <3> QED
      BY <3>1, <3>2
  <2>8. ASSUME NEW g \in Fibers PROVE Known(g)'
    <3> SUFFICES ASSUME NEW x \in Fds, NEW y \in Event, context'[x][y] = g
                 PROVE  /\ pc'[g] = "hold" /\ wakes[g] = 0 /\ call[g] \in FdCall
                        /\ call[g].fd = x /\ call[g].event = y
      BY <1>1, <2>1 DEF Known
    <3>1. CASE x = d /\ y = e
      BY <1>2, <2>4, <2>5, <2>6, <3>1 DEF d, e
    <3>2. CASE x # d \/ y # e
      <4>1. /\ pc[g] = "hold" /\ wakes[g] = 0 /\ call[g] \in FdCall
            /\ call[g].fd = x /\ call[g].event = y
        BY <2>4, <3>2 DEF IInv, Known
      <4>2. g # f
        BY <1>1, <4>1
      <4> QED
        BY <2>5, <4>1, <4>2
    <3> QED
      BY <3>1, <3>2
  <2>9. ASSUME NEW g \in Fibers PROVE Waiting(g)'
    <3> SUFFICES ASSUME pc'[g] = "hold", call[g] \in FdCall, wakes[g] = 0
                 PROVE  context'[call[g].fd][call[g].event] = g
      BY <1>1, <2>1 DEF Waiting
    <3>1. CASE g = f
      BY <2>4, <3>1 DEF d, e
    <3>2. CASE g # f
      <4>1. context[call[g].fd][call[g].event] = g /\ call[g].fd \in Fds /\ call[g].event \in Event
        BY <2>5, <3>2, CallFields DEF IInv, Waiting
      <4>2. ~(call[g].fd = d /\ call[g].event = e)
        BY <1>5, <4>1, HookAssumption
      <4> QED
        BY <2>4, <4>1, <4>2
    <3> QED
      BY <3>1, <3>2
  <2>10. left' = {}
    BY <2>1 DEF IInv
  <2> QED
    BY <2>2, <2>7, <2>8, <2>9, <2>10 DEF IInv
<1> QED
  BY <1>3, <1>4, <1>5 DEF AddEvent

(* The scheduler resumes a held fiber. *)
LEMMA ResumeStep ==
  ASSUME IInv, NEW f \in Fibers, Resume(f)
  PROVE  IInv'
<1>1. /\ pc[f] = "hold" /\ wakes[f] > 0 /\ wakes' = [wakes EXCEPT ![f] = @ - 1]
      /\ UNCHANGED <<open, ready, conn, nonblock, datas, context, inEpoll, aborted>>
  BY DEF Resume, Listed, fileVars
<1>2. pc \in [Fibers -> Label] /\ call \in [Fibers -> Call] /\ wakes \in [Fibers -> Nat]
      /\ armed \in SUBSET Fibers /\ queued \in SUBSET Fibers
  BY TypeParts DEF IInv, CallsTyped
<1>3. wakes[f] = 1
  BY <1>1, <1>2 DEF IInv, FiberOK, ListOK
<1>4. wakes'[f] = 0 /\ \A g \in Fibers \ {f} : wakes'[g] = wakes[g]
  BY <1>1, <1>2, <1>3
<1>5. \A x \in Fds, y \in Event : context[x][y] # f
  BY <1>3 DEF IInv, Known
<1>6. /\ pc'[f] \in {"user", "check"} /\ f \notin armed' /\ left' = {} /\ TypeOK'
      /\ ControlOK(f)' /\ TimerOK(f)' /\ call'[f] # SleepCall
      /\ \A g \in Fibers \ {f} : /\ pc'[g] = pc[g] /\ call'[g] = call[g]
                                 /\ g \in armed' <=> g \in armed
                                 /\ g \in queued' <=> g \in queued
  <2>1. CASE call[f] = SleepCall /\ Return(f)
    <3>1. f \notin armed /\ f \notin queued
      BY <1>3, <2>1 DEF IInv, FiberOK, ListOK, ByTimer
    <3>2. /\ pc'[f] = "user" /\ call'[f] = NoCall /\ f \notin armed' /\ f \notin queued' /\ left' = {}
      BY <1>2, <2>1, <3>1 DEF IInv, Return, EndCall
    <3>3. \A g \in Fibers \ {f} : /\ pc'[g] = pc[g] /\ call'[g] = call[g]
                                  /\ g \in armed' <=> g \in armed
                                  /\ g \in queued' <=> g \in queued
      BY <1>2, <2>1 DEF Return, EndCall
    <3>4. CallsTyped'
      <4>1. wakes' \in [Fibers -> Nat] /\ context' = context
        BY <1>1, <1>2
      <4> QED
        BY <2>1, <4>1, TypeParts DEF IInv, CallsTyped, Return, EndCall, Label, Call
    <3>5. FilesTyped'
      BY <1>1, SameFiles
    <3>6. TypeOK'
      BY <3>4, <3>5 DEF TypeOK, FilesTyped, CallsTyped, Label
    <3>7. ControlOK(f)' /\ TimerOK(f)'
      BY <3>2, CallKinds DEF ControlOK, TimerOK, Brief
    <3> QED
      BY <3>2, <3>3, <3>6, <3>7, CallKinds
  <2>2. CASE /\ call[f] # SleepCall
             /\ pc' = [pc EXCEPT ![f] = "check"] /\ armed' = WithoutTimer(f)
             /\ UNCHANGED <<call, cancelled, queued, left, stale, acting>>
    <3>1. call[f] \in FdCall /\ call[f].op \notin {"socket", "close"}
      BY <1>1, <1>2, <2>2 DEF IInv, FiberOK, ControlOK, Brief, Call
    <3>2. pc'[f] = "check" /\ f \notin armed' /\ left' = {}
      BY <1>2, <2>2 DEF IInv, WithoutTimer
    <3>3. \A g \in Fibers \ {f} : pc'[g] = pc[g] /\ (g \in armed' <=> g \in armed)
      BY <1>2, <2>2 DEF WithoutTimer
    <3>4. CallsTyped'
      <4>1. wakes' \in [Fibers -> Nat] /\ context' = context
        BY <1>1, <1>2
      <4> QED
        BY <2>2, <4>1, TypeParts DEF IInv, CallsTyped, WithoutTimer, Label
    <3>5. FilesTyped'
      BY <1>1, SameFiles
    <3>6. TypeOK'
      BY <3>4, <3>5 DEF TypeOK, FilesTyped, CallsTyped, Label
    <3>7. ControlOK(f)' /\ TimerOK(f)'
      BY <2>2, <3>1, <3>2, CallKinds DEF ControlOK, TimerOK, Brief
    <3> QED
      BY <2>2, <3>2, <3>3, <3>6, <3>7
  <2> QED
    BY <2>1, <2>2 DEF Resume
<1>7. ASSUME NEW g \in Fibers PROVE FiberOK(g)'
  <2>1. CASE g = f
    BY <1>4, <1>6, <2>1 DEF FiberOK, ListOK
  <2>2. CASE g # f
    BY <1>4, <1>6, <2>2 DEF IInv, FiberOK, ControlOK, ListOK, TimerOK, ByTimer
  <2> QED
    BY <2>1, <2>2
<1>8. ASSUME NEW g \in Fibers PROVE Known(g)'
  BY <1>1, <1>4, <1>5, <1>6 DEF IInv, Known
<1>9. ASSUME NEW g \in Fibers PROVE Waiting(g)'
  BY <1>1, <1>4, <1>6 DEF IInv, Waiting
<1> QED
  BY <1>6, <1>7, <1>8, <1>9 DEF IInv

(* sleep *)
LEMMA SleepStep ==
  ASSUME IInv, NEW f \in Fibers, Sleep(f)
  PROVE  IInv'
<1>1. /\ pc[f] = "user" /\ pc' = [pc EXCEPT ![f] = "hold"] /\ call' = [call EXCEPT ![f] = SleepCall]
      /\ armed' = armed \cup {f} /\ left' = left
      /\ UNCHANGED <<context, wakes, queued, stale, acting, cancelled>>
  BY DEF Sleep, Enter, eventVars
<1>2. FilesTyped'
  BY SameFiles DEF Sleep, fileVars, eventVars
<1>3. pc \in [Fibers -> Label] /\ call \in [Fibers -> Call]
  BY TypeParts DEF IInv, CallsTyped
<1>4. CallsTyped'
  BY <1>1, TypeParts DEF IInv, CallsTyped, Label, Call
<1>5. TypeOK'
  BY <1>2, <1>4 DEF TypeOK, FilesTyped, CallsTyped, Label
<1>6. f \notin armed /\ f \notin queued /\ wakes[f] = 0
  BY <1>1 DEF IInv, FiberOK, ControlOK, ListOK, TimerOK
<1>7. /\ pc'[f] = "hold" /\ call'[f] = SleepCall
      /\ \A g \in Fibers \ {f} : pc'[g] = pc[g] /\ call'[g] = call[g] /\ (g \in armed' <=> g \in armed)
  BY <1>1, <1>3
<1>8. ASSUME NEW g \in Fibers PROVE FiberOK(g)'
  <2>1. CASE g = f
    <3>1. ByTimer(f)' = 1
      BY <1>1, <1>6, <1>7 DEF ByTimer
    <3> QED
      BY <1>1, <1>6, <1>7, <2>1, <3>1, CallKinds DEF FiberOK, ControlOK, ListOK, TimerOK, Brief
  <2>2. CASE g # f
    BY <1>1, <1>7, <2>2 DEF IInv, FiberOK, ControlOK, ListOK, TimerOK, ByTimer
  <2> QED
    BY <2>1, <2>2
<1>9. ASSUME NEW g \in Fibers PROVE Known(g)' /\ Waiting(g)'
  BY <1>1, <1>7, CallKinds DEF IInv, Known, Waiting
<1>10. left' = {}
  BY <1>1 DEF IInv
<1> QED
  BY <1>5, <1>8, <1>9, <1>10 DEF IInv

(* IOManager::cancleAll of close *)
LEMMA CancleAllStep ==
  ASSUME IInv, NEW f \in Fibers, CancleAll(f)
  PROVE  IInv'
<1> DEFINE d == call[f].fd
           one(g, e) == IF context[d][e] = g THEN 1 ELSE 0
<1>1. pc[f] = "cancle_all" /\ Goto(f, "close_del") /\ UNCHANGED <<open, ready, conn, nonblock, datas, aborted>>
  BY DEF CancleAll, fileVars
<1>2. call[f] \in FdCall /\ d \in Fds /\ f \notin armed
  BY <1>1, Inside
<1>3. CASE UNCHANGED eventVars
  <2>1. FilesTyped' /\ context' = context /\ wakes' = wakes
    BY <1>1, <1>3, SameFiles DEF eventVars
  <2> QED
    BY <1>1, <1>2, <2>1, GotoStep DEF Label, Brief
<1>4. CASE /\ context' = [context EXCEPT ![d] = [e \in Event |-> None]]
           /\ wakes' = [g \in Fibers |-> wakes[g] + one(g, "READ") + one(g, "WRITE")]
           /\ inEpoll' = [inEpoll EXCEPT ![d] = FALSE]
  <2>1. /\ pc' = [pc EXCEPT ![f] = "close_del"] /\ call' = call /\ cancelled' = cancelled /\ armed' = armed
        /\ queued' = queued /\ left' = {} /\ stale' = stale /\ acting' = acting
    BY <1>1 DEF Goto, timerVars, IInv
  <2>2. /\ pc \in [Fibers -> Label] /\ wakes \in [Fibers -> Nat]
        /\ context \in [Fds -> [Event -> Fibers \cup {None}]]
    BY TypeParts DEF IInv, CallsTyped
  <2>3. pc'[f] = "close_del" /\ \A g \in Fibers \ {f} : pc'[g] = pc[g]
    BY <2>1, <2>2
  <2> HIDE DEF d
  <2>4. /\ \A e \in Event : context'[d][e] = None
        /\ \A x \in Fds \ {d}, e \in Event : context'[x][e] = context[x][e]
    BY <1>2, <1>4, <2>2
  <2>5. \A g \in Fibers : wakes'[g] = wakes[g] + one(g, "READ") + one(g, "WRITE")
    BY <1>4
  <2>6. ASSUME NEW g \in Fibers, \E e \in Event : context[d][e] = g
        PROVE  /\ pc[g] = "hold" /\ wakes[g] = 0 /\ wakes'[g] = 1
               /\ call[g] \in FdCall /\ call[g].fd = d
    <3>1. PICK e \in Event : context[d][e] = g
      BY <2>6
    <3>2. /\ pc[g] = "hold" /\ wakes[g] = 0 /\ call[g] \in FdCall
          /\ call[g].fd = d /\ call[g].event = e
      BY <1>2, <3>1 DEF IInv, Known
    <3>3. \A y \in Event : context[d][y] = g => y = e
      BY <1>2, <3>2 DEF IInv, Known
    <3>4. one(g, "READ") + one(g, "WRITE") = 1
      BY <3>1, <3>3 DEF Event
    <3> QED
      BY <2>5, <3>2, <3>4
  <2>7. ASSUME NEW g \in Fibers, \A e \in Event : context[d][e] # g
        PROVE  wakes'[g] = wakes[g]
    BY <2>2, <2>5, <2>7 DEF Event
  <2>8. TypeOK'
    <3>1. wakes' \in [Fibers -> Nat]
      BY <1>4, <2>2
    <3>2. context' \in [Fds -> [Event -> Fibers \cup {None}]]
      BY <1>4, <2>2
    <3>3. inEpoll' \in [Fds -> BOOLEAN]
      BY <1>4 DEF IInv, TypeOK
    <3> QED
      BY <1>1, <2>1, <3>1, <3>2, <3>3 DEF IInv, TypeOK
  <2>9. wakes'[f] = 0 /\ wakes[f] = 0
    BY <1>1, <2>6, <2>7 DEF IInv, FiberOK, ListOK
  <2>10. ASSUME NEW g \in Fibers PROVE FiberOK(g)'
    <3>1. CASE g = f
      BY <1>1, <2>1, <2>3, <2>9, <3>1, CallKinds DEF IInv, FiberOK, ControlOK, ListOK, TimerOK, Brief
    <3>2. CASE g # f /\ \E e \in Event : context[d][e] = g
      <4>1. wakes'[g] = 1 /\ pc'[g] = "hold" /\ pc[g] = "hold" /\ call[g] # SleepCall
        BY <2>3, <2>6, <3>2, CallKinds
      <4> QED
        BY <2>1, <4>1 DEF IInv, FiberOK, ControlOK, ListOK, TimerOK
    <3>3. CASE g # f /\ \A e \in Event : context[d][e] # g
      <4>1. wakes'[g] = wakes[g] /\ pc'[g] = pc[g]
        BY <2>3, <2>7, <3>3
      <4> QED
        BY <2>1, <4>1 DEF IInv, FiberOK, ControlOK, ListOK, TimerOK, ByTimer
    <3> QED
      BY <3>1, <3>2, <3>3
  <2>11. ASSUME NEW g \in Fibers PROVE Known(g)'
    <3> SUFFICES ASSUME NEW x \in Fds, NEW y \in Event, context'[x][y] = g
                 PROVE  /\ pc'[g] = "hold" /\ wakes'[g] = 0 /\ call[g] \in FdCall
                        /\ call[g].fd = x /\ call[g].event = y
      BY <2>1 DEF Known
    <3>1. x # d /\ context[x][y] = g
      BY <2>4, HookAssumption
    <3>2. pc[g] = "hold" /\ wakes[g] = 0 /\ call[g] \in FdCall /\ call[g].fd = x /\ call[g].event = y
      BY <3>1 DEF IInv, Known
    <3>3. \A e \in Event : context[d][e] # g
      BY <1>2, <3>1, <3>2 DEF IInv, Known
    <3> QED
      BY <1>1, <2>3, <2>7, <3>2, <3>3
  <2>12. ASSUME NEW g \in Fibers PROVE Waiting(g)'
    <3> SUFFICES ASSUME pc'[g] = "hold", call[g] \in FdCall, wakes'[g] = 0
                 PROVE  context'[call[g].fd][call[g].event] = g
      BY <2>1 DEF Waiting
    <3>1. g # f /\ pc[g] = "hold"
      BY <2>3
    <3>2. \A e \in Event : context[d][e] # g
      BY <2>6
    <3>3. wakes[g] = 0
      BY <2>7, <3>2
    <3>4. context[call[g].fd][call[g].event] = g /\ call[g].fd \in Fds /\ call[g].event \in Event
      BY <3>1, <3>3, CallFields DEF IInv, Waiting
    <3> QED
      BY <2>4, <3>2, <3>4
  <2> QED
    BY <2>1, <2>8, <2>10, <2>11, <2>12 DEF IInv
<1> QED
  BY <1>3, <1>4 DEF CancleAll

(* close_f *)
LEMMA CloseFStep ==
  ASSUME IInv, NEW f \in Fibers, CloseF(f)
  PROVE  IInv'
<1> DEFINE d == call[f].fd
           other(g) == IF On(g, d) THEN [call[g] EXCEPT !.own = FALSE] ELSE call[g]
<1>1. /\ pc[f] = "close_f" /\ pc' = [pc EXCEPT ![f] = "user"]
      /\ UNCHANGED <<datas, context, wakes, aborted, cancelled, armed, queued, left, stale, acting>>
  BY DEF CloseF, timerVars
<1>2. FilesTyped'
  BY <1>1 DEF CloseF, IInv, TypeOK, FilesTyped
<1>3. pc \in [Fibers -> Label] /\ call \in [Fibers -> Call]
  BY TypeParts DEF IInv, CallsTyped
<1>4. call' = [g \in Fibers |-> IF g = f THEN NoCall ELSE other(g)]
  BY DEF CloseF
<1>5. ASSUME NEW g \in Fibers
      PROVE  /\ other(g) \in Call /\ (call[g] \in FdCall <=> other(g) \in FdCall)
             /\ call[g] \in FdCall => /\ other(g).op = call[g].op /\ other(g).fd = call[g].fd
                                      /\ other(g).event = call[g].event
             /\ call[g] \notin FdCall => other(g) = call[g]
  <2>1. CASE On(g, d)
    <3>1. call[g] \in FdCall
      BY <2>1 DEF On
    <3> QED
      BY <2>1, <3>1, CallExcept DEF Call
  <2>2. CASE ~On(g, d)
    BY <1>3, <2>2
  <2> QED
    BY <2>1, <2>2
<1> HIDE DEF other
<1>6. call' \in [Fibers -> Call]
  BY <1>4, <1>5 DEF Call
<1>7. TypeOK'
  <2>1. pc' \in [Fibers -> Label]
    BY <1>1, <1>3 DEF Label
  <2>2. CallsTyped'
    BY <1>1, <1>6, <2>1, TypeParts DEF IInv, CallsTyped
  <2> QED
    BY <1>2, <2>2 DEF TypeOK, FilesTyped, CallsTyped, Label
<1>8. /\ pc'[f] = "user" /\ call'[f] = NoCall
      /\ \A g \in Fibers \ {f} : pc'[g] = pc[g] /\ call'[g] = other(g)
  BY <1>1, <1>3, <1>4
<1>9. f \notin armed /\ f \notin queued /\ wakes[f] = 0
  BY <1>1 DEF IInv, FiberOK, ListOK, TimerOK, Brief
<1>10. ASSUME NEW g \in Fibers PROVE FiberOK(g)'
  <2>1. CASE g = f
    BY <1>1, <1>8, <1>9, <2>1, CallKinds DEF FiberOK, ControlOK, ListOK, TimerOK, Brief
  <2>2. CASE g # f
    <3>1. /\ call'[g] = NoCall <=> call[g] = NoCall
          /\ call'[g] = SleepCall <=> call[g] = SleepCall
          /\ call'[g] \in FdCall <=> call[g] \in FdCall
          /\ call[g] \in FdCall => call'[g].op = call[g].op
      BY <1>5, <1>8, <2>2, CallKinds
    <3> QED
      BY <1>1, <1>8, <2>2, <3>1 DEF IInv, FiberOK, ControlOK, ListOK, TimerOK, ByTimer
  <2> QED
    BY <2>1, <2>2
<1>11. ASSUME NEW g \in Fibers PROVE Known(g)'
  <2> SUFFICES ASSUME NEW x \in Fds, NEW y \in Event, context[x][y] = g
               PROVE  /\ pc'[g] = "hold" /\ wakes[g] = 0 /\ call'[g] \in FdCall
                      /\ call'[g].fd = x /\ call'[g].event = y
    BY <1>1 DEF Known
  <2>1. pc[g] = "hold" /\ wakes[g] = 0 /\ call[g] \in FdCall /\ call[g].fd = x /\ call[g].event = y
    BY DEF IInv, Known
  <2>2. g # f
    BY <1>1, <2>1
  <2> QED
    BY <1>5, <1>8, <2>1, <2>2
<1>12. ASSUME NEW g \in Fibers PROVE Waiting(g)'
  <2> SUFFICES ASSUME pc'[g] = "hold", call'[g] \in FdCall, wakes[g] = 0
               PROVE  context[call'[g].fd][call'[g].event] = g
    BY <1>1 DEF Waiting
  <2>1. g # f
    BY <1>8
  <2>2. call[g] \in FdCall /\ call'[g].fd = call[g].fd /\ call'[g].event = call[g].event /\ pc[g] = "hold"
    BY <1>5, <1>8, <2>1
  <2> QED
    BY <2>2 DEF IInv, Waiting
<1>13. left' = {}
  BY <1>1 DEF IInv
<1> QED
  BY <1>7, <1>10, <1>11, <1>12, <1>13 DEF IInv

(* A step of the timers: the fibers stay where they are, and a fiber's     *)
(* part of the invariant about its timers and wakes is shown for it.       *)
LEMMA TimerStep ==
  ASSUME IInv, TypeOK', NEW f \in Fibers, UNCHANGED <<pc, call, context>>, left' = {},
         \A g \in Fibers \ {f} : /\ wakes'[g] = wakes[g]
                                 /\ g \in armed' <=> g \in armed
                                 /\ g \in queued' <=> g \in queued,
         call[f] # SleepCall => wakes'[f] = wakes[f],
         ListOK(f)', TimerOK(f)'
  PROVE  IInv'
<1>1. ASSUME NEW g \in Fibers PROVE FiberOK(g)'
  <2>1. CASE g = f
    BY <2>1 DEF IInv, FiberOK, ControlOK
  <2>2. CASE g # f
    BY <2>2 DEF IInv, FiberOK, ControlOK, ListOK, TimerOK, ByTimer
  <2> QED
    BY <2>1, <2>2
<1>2. ASSUME NEW g \in Fibers PROVE Known(g)' /\ Waiting(g)'
  <2>1. call[g] \in FdCall => wakes'[g] = wakes[g]
    BY CallKinds
  <2> QED
    BY <2>1 DEF IInv, Known, Waiting
<1> QED
  BY <1>1, <1>2 DEF IInv

(* listExpiredCb *)
LEMMA ExpireStep ==
  ASSUME IInv, NEW f \in Fibers, Expire(f)
  PROVE  IInv'
<1>1. /\ UNCHANGED <<open, ready, conn, nonblock, datas, context, inEpoll, wakes, aborted, pc, call,
                     cancelled, acting>>
      /\ f \in armed /\ armed' = armed \ {f} /\ queued' = queued \cup {f}
      /\ left' = {} /\ stale' = stale
  BY DEF Expire, fileVars, eventVars, IInv
<1>2. armed \in SUBSET Fibers /\ queued \in SUBSET Fibers
  BY DEF IInv, TypeOK
<1>3. TypeOK'
  BY <1>1, <1>2 DEF IInv, TypeOK
<1>4. ListOK(f)'
  <2>1. call[f] = SleepCall => f \notin queued /\ wakes[f] = 0
    BY <1>1 DEF IInv, FiberOK, ListOK, ByTimer
  <2>2. call[f] = SleepCall => ByTimer(f)' = 1
    BY <1>1, <2>1 DEF ByTimer
  <2> QED
    BY <1>1, <2>1, <2>2 DEF IInv, FiberOK, ListOK
<1>5. TimerOK(f)'
  BY <1>1 DEF IInv, FiberOK, TimerOK
<1>6. \A g \in Fibers \ {f} : (g \in armed' <=> g \in armed) /\ (g \in queued' <=> g \in queued)
  BY <1>1
<1> QED
  BY <1>1, <1>3, <1>4, <1>5, <1>6, TimerStep

(* A timer's callback *)
LEMMA CallbackStep ==
  ASSUME IInv, NEW f \in Fibers, NEW over \in BOOLEAN, Callback(f, over)
  PROVE  IInv'
<1>1. /\ UNCHANGED <<open, ready, conn, nonblock, datas, context, inEpoll, aborted, pc, call, armed>>
      /\ left' = {}
  BY DEF Callback, fileVars, IInv
<1>2. /\ armed \in SUBSET Fibers /\ queued \in SUBSET Fibers /\ stale \in SUBSET Fibers
      /\ wakes \in [Fibers -> Nat] /\ cancelled \in [Fibers -> BOOLEAN]
  BY DEF IInv, TypeOK
<1>3. /\ queued' \in SUBSET Fibers /\ stale' \in SUBSET Fibers /\ wakes' \in [Fibers -> Nat]
      /\ cancelled' \in [Fibers -> BOOLEAN]
  BY <1>2 DEF Callback
<1>4. acting' \in SUBSET (Fds \X Event)
  <2>1. acting \in SUBSET (Fds \X Event)
    BY DEF IInv, TypeOK
  <2>2. call[f] \in FdCall => <<call[f].fd, call[f].event>> \in Fds \X Event
    BY CallFields
  <2> QED
    BY <2>1, <2>2 DEF Callback
<1>5. TypeOK'
  BY <1>1, <1>3, <1>4 DEF IInv, TypeOK
<1>6. CASE over
  <2>1. queued' = queued /\ wakes' = wakes
    BY <1>6 DEF Callback
  <2>2. ListOK(f)' /\ TimerOK(f)'
    BY <1>1, <2>1 DEF IInv, FiberOK, ListOK, TimerOK, ByTimer
  <2> QED
    BY <1>1, <1>5, <2>1, <2>2, TimerStep
<1>7. CASE ~over
  <2>1. /\ f \in queued /\ queued' = queued \ {f}
        /\ wakes' = IF call[f] = SleepCall THEN [wakes EXCEPT ![f] = @ + 1] ELSE wakes
    BY <1>7 DEF Callback
  <2>2. /\ call[f] # SleepCall => wakes'[f] = wakes[f]
        /\ \A g \in Fibers \ {f} : wakes'[g] = wakes[g] /\ (g \in queued' <=> g \in queued)
    BY <1>2, <2>1
  <2>3. TimerOK(f)'
    BY <1>1, <2>1 DEF IInv, FiberOK, TimerOK
  <2>4. ListOK(f)'
    <3>1. CASE call[f] = SleepCall
      <4>1. f \notin armed /\ wakes[f] = 0 /\ pc[f] = "hold"
        BY <2>1, <3>1 DEF IInv, FiberOK, ListOK, ControlOK, ByTimer
      <4>2. wakes'[f] = 1 /\ ByTimer(f)' = 0
        BY <1>1, <1>2, <2>1, <3>1, <4>1 DEF ByTimer
      <4> QED
        BY <1>1, <4>1, <4>2 DEF ListOK
    <3>2. CASE call[f] # SleepCall
      BY <1>1, <2>2, <3>2 DEF IInv, FiberOK, ListOK
    <3> QED
      BY <3>1, <3>2
  <2> QED
    BY <1>1, <1>5, <2>2, <2>3, <2>4, TimerStep
<1> QED
  BY <1>6, <1>7

-----------------------------------------------------------------------------
(* The invariant holds at the beginning and is kept by every step. *)
LEMMA InitInv == Init => IInv
<1> SUFFICES ASSUME Init PROVE IInv
  OBVIOUS
<1>1. TypeOK
  BY DEF Init, TypeOK, Call
<1>2. ASSUME NEW f \in Fibers PROVE FiberOK(f) /\ Waiting(f)
  BY CallKinds DEF Init, FiberOK, ControlOK, ListOK, TimerOK, Brief, Waiting
<1>3. ASSUME NEW f \in Fibers PROVE Known(f)
  BY HookAssumption DEF Init, Known
<1> QED
  BY <1>1, <1>2, <1>3 DEF Init, IInv

(* Every step of the hooks, the manager and the kernel keeps the invariant. *)
LEMMA StepInv == IInv /\ [Next]_vars => IInv'
<1> SUFFICES ASSUME IInv, [Next]_vars PROVE IInv'
  OBVIOUS
<1>1. ASSUME NEW f \in Fibers, FiberStep(f) PROVE IInv'
  BY <1>1, RegisterStep, LookupStep, TryStep, ArmStep, AddEventStep, AddFailedStep, ResumeStep,
     CheckStep, ConnectLookupStep, ConnectFStep, SoErrorStep, CloseLookupStep, CancleAllStep,
     CloseDelStep, CloseFStep DEF FiberStep
<1>2. ASSUME NEW f \in Fibers, UserStep(f) PROVE IInv'
  <2>1. CASE Sleep(f)
    BY <2>1, SleepStep
  <2>2. ASSUME NEW d \in Fds, Socket(f, d) \/ Close(f, d) PROVE IInv'
    BY <2>2, SocketStep, CloseStep
  <2>3. ASSUME NEW d \in Fds, NEW e \in Event, DoIo(f, d, e, "io") \/ DoIo(f, d, e, "accept")
        PROVE  IInv'
    BY <2>3, DoIoStep
  <2>4. ASSUME NEW d \in Fds, NEW b \in BOOLEAN, Connect(f, d, b) PROVE IInv'
    BY <2>4, ConnectStep
  <2>5. ASSUME NEW d \in Fds, NEW b \in BOOLEAN, Fcntl(f, d, b) \/ Ioctl(f, d, b) PROVE IInv'
    <3>1. "READ" \in Event
      BY DEF Event
    <3> QED
      BY <2>5, <3>1, FlagStep
  <2>6. ASSUME NEW d \in Fds, NEW e \in Event, Setsockopt(f, d, e) PROVE IInv'
    <3>1. TRUE \in BOOLEAN
      OBVIOUS
    <3> QED
      BY <2>6, <3>1, FlagStep
  <2>7. "READ" \in Event /\ "WRITE" \in Event
    BY DEF Event
  <2> QED
    BY <1>2, <2>1, <2>2, <2>3, <2>4, <2>5, <2>6, <2>7 DEF UserStep
<1>3. CASE IoStep
  BY <1>3, TriggerStep, CancleEventStep, ExpireStep, CallbackStep DEF IoStep
<1>4. CASE PeerStep
  BY <1>4, PeerKeeps
<1>5. CASE UNCHANGED vars
  <2>1. FilesTyped'
    BY <1>5, SameFiles DEF vars, fileVars, eventVars
  <2> QED
    BY <1>5, <2>1, FilesStep DEF vars, eventVars
<1> QED
  BY <1>1, <1>2, <1>3, <1>4, <1>5 DEF Next

(* The inductive invariant holds throughout. *)
LEMMA Invariant == Spec => []IInv
  BY InitInv, StepInv, PTL DEF Spec

(* The descriptor contexts, the calls and the timers keep their types; a   *)
(* fiber is never taken from the scheduler's list more often than it was   *)
(* put there.                                                              *)
THEOREM TypeCorrect == Spec => []TypeOK
<1>1. IInv => TypeOK
  BY DEF IInv
<1> QED
  BY <1>1, Invariant, PTL

(* Events, timeouts, close() and sleep between them resume a held fiber    *)
(* exactly once.                                                           *)
THEOREM ResumedOnceCorrect == Spec => []ResumedOnce
<1>1. ASSUME IInv PROVE ResumedOnce
  <2> SUFFICES ASSUME NEW f \in Fibers
               PROVE  Resumers(f) = IF pc[f] = "hold" THEN 1 ELSE 0
    BY DEF ResumedOnce
  <2>1. FiberOK(f) /\ Known(f) /\ Waiting(f) /\ call[f] \in Call /\ wakes[f] \in {0, 1}
    BY <1>1 DEF IInv, FiberOK, ListOK, TypeOK
  <2>2. CASE pc[f] = "hold" /\ call[f] \in FdCall /\ wakes[f] = 0
    <3> DEFINE w == <<call[f].fd, call[f].event>>
    <3>1. ByEvent(f) = {w}
      <4>1. w \in ByEvent(f)
        BY <2>1, <2>2, CallFields DEF ByEvent, Waiting
      <4>2. \A x \in ByEvent(f) : x = w
        BY <2>1 DEF ByEvent, Known
      <4> QED
        BY <4>1, <4>2
    <3>2. Cardinality(ByEvent(f)) = 1
      BY <3>1, FS_Singleton
    <3> QED
      BY <2>2, <3>2, CallKinds DEF Resumers, ByTimer
  <2>3. CASE ~(pc[f] = "hold" /\ call[f] \in FdCall /\ wakes[f] = 0)
    <3>1. ByEvent(f) = {}
      BY <2>1, <2>3 DEF ByEvent, Known
    <3>2. Cardinality(ByEvent(f)) = 0
      BY <3>1, FS_EmptySet
    <3>3. ByTimer(f) + wakes[f] = IF pc[f] = "hold" THEN 1 ELSE 0
      BY <2>1, <2>3 DEF FiberOK, ControlOK, ListOK, ByTimer, Call
    <3>4. ByTimer(f) \in Nat
      BY DEF ByTimer
    <3> QED
      BY <2>1, <3>2, <3>3, <3>4 DEF Resumers
  <2> QED
    BY <2>2, <2>3
<1> QED
  BY <1>1, Invariant, PTL

(* No path of do_io or connect_with_timeout leaves its timer behind. *)
THEOREM NoTimerLeftCorrect == Spec => []NoTimerLeft
<1>1. IInv => NoTimerLeft
  BY DEF IInv, TypeOK, FiberOK, TimerOK, NoTimerLeft
<1> QED
  BY <1>1, Invariant, PTL

(* No callback of an earlier call, and nothing but a timer, times a call   *)
(* out.                                                                    *)
THEOREM TimeoutIsOwnCorrect == Spec => TimeoutIsOwn
<1> DEFINE Own == \A f \in Fibers : cancelled'[f] /\ ~cancelled[f] => f \in queued \ queued'
<1>1. ASSUME IInv, [Next]_vars PROVE [Own]_vars
  <2>1. cancelled \in [Fibers -> BOOLEAN] /\ queued \in SUBSET Fibers
    BY <1>1 DEF IInv, TypeOK
  <2>2. ASSUME NEW g \in Fibers, FiberStep(g)
        PROVE  cancelled' = cancelled \/ cancelled' = [cancelled EXCEPT ![g] = FALSE]
    BY <2>2 DEF FiberStep, Register, Lookup, Try, Done, Arm, AddEvent, AddFailed, Resume, Check,
                ConnectLookup, ConnectF, SoError, CloseLookup, CancleAll, CloseDel, CloseF,
                Goto, Return, EndCall, callVars
  <2>3. ASSUME NEW g \in Fibers, UserStep(g) PROVE cancelled' = cancelled
    BY <2>3 DEF UserStep, Sleep, Socket, Close, DoIo, Connect, Fcntl, Ioctl, Setsockopt, Enter, callVars
  <2>4. PeerStep => cancelled' = cancelled
    BY DEF PeerStep, Connected, Arrives, callVars
  <2>5. ASSUME NEW g \in Fibers, NEW over \in BOOLEAN, Callback(g, over) PROVE Own
    <3>1. CASE over
      <4>1. cancelled' = cancelled
        BY <2>5, <3>1 DEF Callback, Locks
      <4> QED
        BY <4>1
    <3>2. CASE ~over
      <4>1. /\ g \in queued /\ queued' = queued \ {g}
            /\ cancelled' = cancelled \/ cancelled' = [cancelled EXCEPT ![g] = TRUE]
        BY <2>5, <3>2 DEF Callback
      <4> QED
        BY <2>1, <4>1
    <3> QED
      BY <3>1, <3>2
  <2>6. CASE IoStep
    <3>1. ASSUME NEW d \in Fds, NEW e \in Event, Trigger(d, e) \/ CancleEvent(d, e)
          PROVE  cancelled' = cancelled
      BY <3>1 DEF Trigger, CancleEvent, callVars
    <3>2. ASSUME NEW g \in Fibers, Expire(g) PROVE cancelled' = cancelled
      BY <3>2 DEF Expire
    <3> QED
      BY <2>5, <2>6, <3>1, <3>2 DEF IoStep
  <2>7. ASSUME NEW g \in Fibers, FiberStep(g) PROVE Own
    BY <2>1, <2>2, <2>7
  <2> QED
    BY <1>1, <2>3, <2>4, <2>6, <2>7 DEF Next
<1> QED
  BY <1>1, Invariant, PTL DEF Spec, TimeoutIsOwn
=============================================================================
