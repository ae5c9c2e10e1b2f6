-------------------------------- MODULE Hook --------------------------------
(***************************************************************************)
(* The hooked system calls (sylar/hook.cpp) and the descriptor contexts    *)
(* they keep in FdManager (sylar/fd_manager.cpp).  A fiber that calls      *)
(* recv, send, accept, connect or sleep registers with the IOManager and   *)
(* with a timer and holds; an event, the timer's callback or close() of    *)
(* the descriptor resumes it.                                              *)
(*                                                                         *)
(* A step is one system call or one critical section (FdManager, FdContext *)
(* or TimerManager).  Time is left out: a timer may expire at any time     *)
(* after it was added.  The event table is the one of module IOManager     *)
(* without its idle threads and their stale reports: what is registered    *)
(* and ready is triggered once.  All fibers run on threads with hooks      *)
(* enabled.                                                                *)
(***************************************************************************)
EXTENDS Integers, FiniteSets

CONSTANTS
    Fibers,    \* the fibers that make calls
    Fds,       \* descriptor numbers; the kernel hands out free ones again
    Uses,      \* bound: the system calls the program makes
    None       \* no fiber, no context

ASSUME HookAssumption ==
    IsFiniteSet(Fibers) /\ IsFiniteSet(Fds) /\ None \notin Fibers

Event == {"READ", "WRITE"}

VARIABLES
    open,       \* the number is a socket
    ready,      \* the events the socket is ready for
    conn,       \* its connection: "none", in "progress", or "ended" (made or failed)
    nonblock,   \* O_NONBLOCK of the kernel's file
    datas,      \* FdManager::m_datas: m_userNonblock and which timeouts are set
    context,    \* the fiber each FdContext wakes for an event
    inEpoll,    \* the number is in the epoll set
    wakes,      \* entries of a fiber in the scheduler's list
    aborted     \* an assertion failed

fileVars == <<open, ready, conn, nonblock>>
eventVars == <<context, inEpoll, wakes>>

VARIABLES
    pc, call,   \* where a fiber is, in which call
    cancelled,  \* tinfo->cancelled of that call
    armed,      \* fibers whose call has a timer in the TimerManager
    queued,     \* fibers whose call has a timer that expired: its callback is scheduled
    left, stale,  \* the same for timers of calls that have returned
    acting      \* callbacks between `cancelled = ETIMEDOUT' and cancleEvent

timerVars == <<armed, queued, left, stale, acting>>
callVars == <<pc, call, cancelled, timerVars>>
vars == <<fileVars, datas, eventVars, aborted, callVars>>

-----------------------------------------------------------------------------
FdCtx == [m_userNonblock : BOOLEAN, timeout : [Event -> BOOLEAN]]
NewFdCtx == [m_userNonblock |-> FALSE, timeout |-> [e \in Event |-> FALSE]]

(* "own": the number still is the socket it was when the call began. *)
NoCall == [op |-> "none"]
SleepCall == [op |-> "sleep"]
FdCall == [op : {"io", "accept", "connect", "socket", "close"}, fd : Fds, event : Event,
           timed : BOOLEAN, own : BOOLEAN]
Call == FdCall \cup {NoCall, SleepCall}
CallOn(op, d, e, timed) == [op |-> op, fd |-> d, event |-> e, timed |-> timed, own |-> TRUE]

Init ==
    /\ open = [d \in Fds |-> FALSE] /\ ready = [d \in Fds |-> {}]
    /\ conn = [d \in Fds |-> "none"] /\ nonblock = [d \in Fds |-> FALSE]
    /\ datas = [d \in Fds |-> None]
    /\ context = [d \in Fds |-> [e \in Event |-> None]]
    /\ inEpoll = [d \in Fds |-> FALSE]
    /\ wakes = [f \in Fibers |-> 0] /\ aborted = FALSE
    /\ pc = [f \in Fibers |-> "user"] /\ call = [f \in Fibers |-> NoCall]
    /\ cancelled = [f \in Fibers |-> FALSE]
    /\ armed = {} /\ queued = {} /\ left = {} /\ stale = {} /\ acting = {}

-----------------------------------------------------------------------------
(* Control of a call. *)

Goto(f, label) ==
    pc' = [pc EXCEPT ![f] = label] /\ UNCHANGED <<call, cancelled, timerVars>>

Enter(f, c, label) ==
    /\ pc[f] = "user"
    /\ pc' = [pc EXCEPT ![f] = label] /\ call' = [call EXCEPT ![f] = c]
    /\ UNCHANGED cancelled

(* The call ends, and with it the tinfo that its timers have a weak_ptr of. *)
EndCall(f, timers, c, label) ==
    /\ pc' = [pc EXCEPT ![f] = label] /\ call' = [call EXCEPT ![f] = c]
    /\ cancelled' = [cancelled EXCEPT ![f] = FALSE]
    /\ armed' = timers \ {f} /\ left' = left \cup (timers \cap {f})
    /\ queued' = queued \ {f} /\ stale' = stale \cup (queued \cap {f})
    /\ UNCHANGED acting

Return(f) == EndCall(f, armed, NoCall, "user")

(* A program uses a descriptor from when the creating call returned until  *)
(* it calls close, once, and not for the same event from two fibers (the   *)
(* assertion in addEvent rules that out).                                  *)
On(f, d) == call[f] \in FdCall /\ call[f].fd = d
Owned(d) ==
    open[d] /\ \A f \in Fibers : On(f, d) /\ call[f].own => call[f].op \notin {"socket", "close"}
Free(d, e) == \A f \in Fibers : On(f, d) /\ call[f].own => call[f].event # e

-----------------------------------------------------------------------------
(* socket, and the new descriptor of accept: a number that is not in use. *)
OpenAs(d, c, drained) ==
    /\ ~open[d]
    /\ open' = [open EXCEPT ![d] = TRUE]
    /\ ready' = [drained EXCEPT ![d] = {}] /\ conn' = [conn EXCEPT ![d] = c]
    /\ nonblock' = [nonblock EXCEPT ![d] = FALSE]

Socket(f, d) ==
    /\ OpenAs(d, "none", ready)
    /\ Enter(f, CallOn("socket", d, "READ", FALSE), "register")
    /\ UNCHANGED <<datas, eventVars, aborted, timerVars>>

(* FdManager::get(fd, true): FdCtx::init makes the socket non-blocking. *)
Register(f) ==
    LET d == call[f].fd IN
    /\ pc[f] = "register"
    /\ IF datas[d] # None THEN UNCHANGED <<datas, nonblock>>
       ELSE /\ datas' = [datas EXCEPT ![d] = NewFdCtx]
            /\ nonblock' = [nonblock EXCEPT ![d] = TRUE]
    /\ Return(f)
    /\ UNCHANGED <<open, ready, conn, eventVars, aborted>>

-----------------------------------------------------------------------------
(* do_io, for all of read, readv, recv, recvfrom, recvmsg, write, writev,  *)
(* send, sendto, sendmsg and accept.                                       *)

(* The calls that read, and those that write. *)
Transfer(e) == IF e = "READ" THEN "read" ELSE "write"

DoIo(f, d, e, op) ==
    /\ Owned(d) /\ Free(d, e)
    /\ Enter(f, CallOn(op, d, e, FALSE), "lookup")
    /\ UNCHANGED <<fileVars, datas, eventVars, aborted, timerVars>>

(* FdManager::get: without a context, or for a user's own non-blocking     *)
(* descriptor, the system call is made and that is all.                    *)
Hooked(d) == datas[d] # None /\ ~datas[d].m_userNonblock

Lookup(f) ==
    LET d == call[f].fd IN
    /\ pc[f] = "lookup"
    /\ \/ ~Hooked(d) /\ Goto(f, "direct")
       \/ /\ Hooked(d)
          /\ pc' = [pc EXCEPT ![f] = "try"]
          /\ call' = [call EXCEPT ![f].timed = datas[d].timeout[call[f].event]]
          /\ UNCHANGED <<cancelled, timerVars>>
    /\ UNCHANGED <<fileVars, datas, eventVars, aborted>>

(* The original function succeeds; accept goes on with its new number. *)
Done(f) ==
    LET d == call[f].fd
        drained == [ready EXCEPT ![d] = @ \ {call[f].event}]
    IN
    /\ open[d] /\ call[f].event \in ready[d]
    /\ \/ /\ call[f].op = "io"
          /\ ready' = drained
          /\ Return(f)
          /\ UNCHANGED <<open, conn, nonblock>>
       \/ /\ call[f].op = "accept"
          /\ \E n \in Fds : /\ OpenAs(n, "ended", drained)
                            /\ EndCall(f, armed, CallOn("socket", n, "READ", FALSE), "register")

(* fun(fd, ...), again after EINTR.  On a descriptor that is not ready and *)
(* not O_NONBLOCK the thread itself waits.                                 *)
Try(f) ==
    LET d == call[f].fd IN
    /\ pc[f] \in {"try", "direct"}
    /\ \/ Done(f)
       \/ /\ open[d] /\ call[f].event \notin ready[d] /\ nonblock[d]
          /\ IF pc[f] = "try" THEN Goto(f, "arm") ELSE Return(f)
          /\ UNCHANGED fileVars
       \/ ~open[d] /\ Return(f) /\ UNCHANGED fileVars
    /\ UNCHANGED <<datas, eventVars, aborted>>

(* addConditionTimer, when the call has a timeout. *)
Arm(f) ==
    /\ pc[f] = "arm"
    /\ pc' = [pc EXCEPT ![f] = "add"]
    /\ armed' = IF call[f].timed THEN armed \cup {f} ELSE armed
    /\ UNCHANGED <<fileVars, datas, eventVars, aborted, call, cancelled, queued, left, stale,
                   acting>>

(* IOManager::addEvent: an event that is taken is an assertion; epoll_ctl  *)
(* (MOD if some event is registered, else ADD) fails on a closed           *)
(* descriptor, on an ADD of one that is in the set and on a MOD of one     *)
(* that is not.                                                            *)
Registered(d) == \E e \in Event : context[d][e] # None
CtlWorks(d) == open[d] /\ (Registered(d) <=> inEpoll[d])

AddEvent(f) ==
    LET d == call[f].fd
        e == call[f].event
    IN
    /\ pc[f] = "add"
    /\ \/ /\ context[d][e] # None
          /\ aborted' = TRUE /\ UNCHANGED <<context, inEpoll, callVars>>
       \/ /\ context[d][e] = None /\ CtlWorks(d)
          /\ context' = [context EXCEPT ![d] = [@ EXCEPT ![e] = f]]
          /\ inEpoll' = [inEpoll EXCEPT ![d] = TRUE]
          /\ Goto(f, "hold") /\ UNCHANGED aborted
       \/ /\ context[d][e] = None /\ ~CtlWorks(d)
          /\ Goto(f, "add_failed") /\ UNCHANGED <<context, inEpoll, aborted>>
    /\ UNCHANGED <<fileVars, datas, wakes>>

(* timer->cancle() *)
WithoutTimer_Not(f) == armed
WithoutTimer(f) == armed \ {f}

(* do_io returns -1; connect looks at SO_ERROR all the same. *)
AddFailed(f) ==
    /\ pc[f] = "add_failed"
    /\ \/ /\ call[f].op = "connect"
          /\ pc' = [pc EXCEPT ![f] = "so_error"] /\ armed' = WithoutTimer(f)
          /\ UNCHANGED <<call, cancelled, queued, left, stale, acting>>
       \/ call[f].op # "connect" /\ EndCall(f, WithoutTimer(f), NoCall, "user")
    /\ UNCHANGED <<fileVars, datas, eventVars, aborted>>

(* The scheduler takes the fiber from its list... *)
Listed(f) == wakes[f] > 0

(* ... and resumes it: sleep returns, a wait drops its timer... *)
Resume(f) ==
    /\ pc[f] = "hold" /\ Listed(f)
    /\ wakes' = [wakes EXCEPT ![f] = @ - 1]
    /\ \/ call[f] = SleepCall /\ Return(f)
       \/ /\ call[f] # SleepCall
          /\ pc' = [pc EXCEPT ![f] = "check"] /\ armed' = WithoutTimer(f)
          /\ UNCHANGED <<call, cancelled, queued, left, stale, acting>>
    /\ UNCHANGED <<fileVars, datas, context, inEpoll, aborted>>

(* ... and tinfo->cancelled says whether it timed out or tries again. *)
Check(f) ==
    /\ pc[f] = "check"
    /\ \/ cancelled[f] /\ Return(f)
       \/ ~cancelled[f] /\ Goto(f, IF call[f].op = "connect" THEN "so_error" ELSE "try")
    /\ UNCHANGED <<fileVars, datas, eventVars, aborted>>

-----------------------------------------------------------------------------
(* connect_with_timeout, and connect; timed: the timeout is not -1. *)

Connect(f, d, timed) ==
    /\ Owned(d) /\ conn[d] = "none"
    /\ \A e \in Event : Free(d, e)
    /\ Enter(f, CallOn("connect", d, "WRITE", timed), "connect")
    /\ UNCHANGED <<fileVars, datas, eventVars, aborted, timerVars>>

ConnectLookup(f) ==
    LET d == call[f].fd IN
    /\ pc[f] = "connect"
    /\ \/ datas[d] = None /\ Return(f)
       \/ datas[d] # None /\ Goto(f, IF Hooked(d) THEN "connect_f" ELSE "connect_direct")
    /\ UNCHANGED <<fileVars, datas, eventVars, aborted>>

(* connect_f succeeds or fails at once, or is in progress. *)
ConnectF(f) ==
    LET d == call[f].fd IN
    /\ pc[f] \in {"connect_f", "connect_direct"}
    /\ \/ open[d] /\ conn' = [conn EXCEPT ![d] = "ended"] /\ Return(f)
       \/ /\ open[d] /\ nonblock[d]
          /\ conn' = [conn EXCEPT ![d] = "progress"]
          /\ IF pc[f] = "connect_f" THEN Goto(f, "arm") ELSE Return(f)
       \/ UNCHANGED conn /\ Return(f)
    /\ UNCHANGED <<open, ready, nonblock, datas, eventVars, aborted>>

(* getsockopt(SO_ERROR), then the call returns. *)
SoError(f) ==
    /\ pc[f] = "so_error"
    /\ Return(f)
    /\ UNCHANGED <<fileVars, datas, eventVars, aborted>>

(* sleep, usleep, nanosleep: a timer whose callback schedules the fiber. *)
Sleep(f) ==
    /\ Enter(f, SleepCall, "hold")
    /\ armed' = armed \cup {f}
    /\ UNCHANGED <<fileVars, datas, eventVars, aborted, queued, left, stale, acting>>

-----------------------------------------------------------------------------
(* close: the context is looked up, its events are cancelled, it is        *)
(* deleted, and then the kernel closes the descriptor.                     *)

Close(f, d) ==
    /\ Owned(d)
    /\ Enter(f, CallOn("close", d, "READ", FALSE), "close")
    /\ UNCHANGED <<fileVars, datas, eventVars, aborted, timerVars>>

CloseLookup(f) ==
    /\ pc[f] = "close"
    /\ Goto(f, IF datas[call[f].fd] = None THEN "close_f" ELSE "cancle_all")
    /\ UNCHANGED <<fileVars, datas, eventVars, aborted>>

(* IOManager::cancleAll wakes every waiter, unless epoll_ctl(DEL) fails. *)
CancleAll(f) ==
    LET d == call[f].fd IN
    /\ pc[f] = "cancle_all"
    /\ IF Registered(d) /\ open[d] /\ inEpoll[d]
       THEN /\ context' = [context EXCEPT ![d] = [e \in Event |-> None]]
            /\ wakes' = [g \in Fibers |-> wakes[g] + (IF context[d]["READ"] = g THEN 1 ELSE 0)
                                                 + (IF context[d]["WRITE"] = g THEN 1 ELSE 0)]
            /\ inEpoll' = [inEpoll EXCEPT ![d] = FALSE]
       ELSE UNCHANGED eventVars
    /\ Goto(f, "close_del")
    /\ UNCHANGED <<fileVars, datas, aborted>>

(* FdManager::del *)
CloseDel(f) ==
    /\ pc[f] = "close_del"
    /\ datas' = [datas EXCEPT ![call[f].fd] = None]
    /\ Goto(f, "close_f")
    /\ UNCHANGED <<fileVars, eventVars, aborted>>

(* close_f: the kernel also takes the descriptor out of the epoll set; the *)
(* number is no longer the socket other fibers may be waiting for.         *)
CloseF(f) ==
    LET d == call[f].fd IN
    /\ pc[f] = "close_f"
    /\ open' = [open EXCEPT ![d] = FALSE] /\ inEpoll' = [inEpoll EXCEPT ![d] = FALSE]
    /\ ready' = [ready EXCEPT ![d] = {}] /\ conn' = [conn EXCEPT ![d] = "none"]
    /\ nonblock' = [nonblock EXCEPT ![d] = FALSE]
    /\ pc' = [pc EXCEPT ![f] = "user"]
    /\ call' = [g \in Fibers |-> CASE g = f -> NoCall
                                   [] g # f /\ On(g, d) -> [call[g] EXCEPT !.own = FALSE]
                                   [] OTHER -> call[g]]
    /\ UNCHANGED <<datas, context, wakes, aborted, cancelled, timerVars>>

-----------------------------------------------------------------------------
(* Flags and options; the caller owns the descriptor, so each is one step. *)

MayUse(f, d) ==
    pc[f] = "user" /\ Owned(d) /\ datas[d] # None

(* fcntl(F_SETFL): the user's flag is remembered, the kernel's stays.  *)
Fcntl(f, d, nb) ==
    /\ MayUse(f, d)
    /\ datas' = [datas EXCEPT ![d].m_userNonblock = nb]
    /\ nonblock' = [nonblock EXCEPT ![d] = TRUE]
    /\ UNCHANGED <<open, ready, conn, eventVars, aborted, callVars>>

(* ioctl(FIONBIO): the user's flag is remembered, and the kernel's follows it. *)
Ioctl(f, d, nb) ==
    /\ MayUse(f, d)
    /\ datas' = [datas EXCEPT ![d].m_userNonblock = nb]
    /\ nonblock' = [nonblock EXCEPT ![d] = nb]
    /\ UNCHANGED <<open, ready, conn, eventVars, aborted, callVars>>

(* setsockopt(SO_RCVTIMEO or SO_SNDTIMEO) *)
Optname(e) == IF e = "READ" THEN "SO_RCVTIMEO" ELSE "SO_SNDTIMEO"

Setsockopt(f, d, e) ==
    /\ MayUse(f, d)
    /\ datas' = [datas EXCEPT ![d].timeout[e] = TRUE]
    /\ UNCHANGED <<fileVars, eventVars, aborted, callVars>>

-----------------------------------------------------------------------------
(* The IOManager: events and timers. *)

(* epoll_wait reports what the descriptor is ready for. *)
Reported_ReadOnly(d, e) == open[d] /\ inEpoll[d] /\ e \in ready[d] /\ e = "READ"
Reported(d, e) == open[d] /\ inEpoll[d] /\ e \in ready[d]

(* idle(): a registered event that is reported is triggered; the           *)
(* descriptor leaves the epoll set with its last event.                    *)
Trigger(d, e) ==
    /\ Reported(d, e) /\ context[d][e] # None
    /\ wakes' = [wakes EXCEPT ![context[d][e]] = @ + 1]
    /\ context' = [context EXCEPT ![d] = [@ EXCEPT ![e] = None]]
    /\ inEpoll' = [inEpoll EXCEPT ![d] = \E x \in Event \ {e} : context[d][x] # None]
    /\ UNCHANGED <<fileVars, datas, aborted, callVars>>

(* listExpiredCb: the callback is scheduled. *)
Expire(f) ==
    /\ \/ /\ f \in armed /\ armed' = armed \ {f} /\ queued' = queued \cup {f}
          /\ UNCHANGED <<left, stale>>
       \/ /\ f \in left /\ left' = left \ {f} /\ stale' = stale \cup {f}
          /\ UNCHANGED <<armed, queued>>
    /\ UNCHANGED <<fileVars, datas, eventVars, aborted, pc, call, cancelled, acting>>

(* winfo.lock() fails when the call is over. *)
Locks_Always(over) == TRUE
Locks(over) == ~over

(* The callback of a sleep schedules the fiber.  The callback of a wait    *)
(* does nothing if the call is over or timed out already; else it sets     *)
(* cancelled...                                                            *)
Callback(f, over) ==
    LET expires == Locks(over) /\ call[f] \in FdCall /\ ~cancelled[f] IN
    /\ f \in (IF over THEN stale ELSE queued)
    /\ queued' = (IF over THEN queued ELSE queued \ {f})
    /\ stale' = (IF over THEN stale \ {f} ELSE stale)
    /\ wakes' = IF ~over /\ call[f] = SleepCall THEN [wakes EXCEPT ![f] = @ + 1] ELSE wakes
    /\ cancelled' = IF expires THEN [cancelled EXCEPT ![f] = TRUE] ELSE cancelled
    /\ acting' = IF expires THEN acting \cup {<<call[f].fd, call[f].event>>} ELSE acting
    /\ UNCHANGED <<fileVars, datas, context, inEpoll, aborted, pc, call, armed, left>>

(* ... and cancleEvent wakes whoever waits for the event now, unless       *)
(* epoll_ctl(MOD) fails.  The descriptor stays in the epoll set.           *)
(* Callbacks that are here for the same event at once count as one.        *)
CancleEvent_KeepsContext(d, e) ==
    /\ <<d, e>> \in acting
    /\ acting' = acting \ {<<d, e>>}
    /\ wakes' = IF context[d][e] # None /\ open[d] /\ inEpoll[d]
                THEN [wakes EXCEPT ![context[d][e]] = @ + 1] ELSE wakes
    /\ UNCHANGED <<fileVars, datas, inEpoll, context, aborted, pc, call, cancelled,
                   armed, queued, left, stale>>
CancleEvent(d, e) ==
    /\ <<d, e>> \in acting
    /\ acting' = acting \ {<<d, e>>}
    /\ IF context[d][e] # None /\ open[d] /\ inEpoll[d]
       THEN /\ wakes' = [wakes EXCEPT ![context[d][e]] = @ + 1]
            /\ context' = [context EXCEPT ![d] = [@ EXCEPT ![e] = None]]
       ELSE UNCHANGED <<context, wakes>>
    /\ UNCHANGED <<fileVars, datas, inEpoll, aborted, pc, call, cancelled, armed, queued, left,
                   stale>>

(* The peer: data, room or a connection request arrives; a connect ends.   *)
(* What arrives while no call is about it may as well arrive when the call *)
(* has begun.                                                              *)
Arrives(d, e) ==
    /\ \E f \in Fibers : On(f, d) /\ call[f].event = e
    /\ open[d] /\ e \notin ready[d] /\ conn[d] # "progress"
    /\ ready' = [ready EXCEPT ![d] = @ \cup {e}]
    /\ UNCHANGED <<open, conn, nonblock, datas, eventVars, aborted, callVars>>

Connected(d) ==
    /\ conn[d] = "progress"
    /\ conn' = [conn EXCEPT ![d] = "ended"]
    /\ ready' = [ready EXCEPT ![d] = @ \cup {"WRITE"}]
    /\ UNCHANGED <<open, nonblock, datas, eventVars, aborted, callVars>>

-----------------------------------------------------------------------------
(* A fiber goes on inside a call. *)
FiberStep(f) ==
    /\ ~aborted
    /\ \/ Register(f) \/ Lookup(f) \/ Try(f) \/ Arm(f) \/ AddEvent(f)
       \/ AddFailed(f) \/ Resume(f) \/ Check(f)
       \/ ConnectLookup(f) \/ ConnectF(f) \/ SoError(f)
       \/ CloseLookup(f) \/ CancleAll(f) \/ CloseDel(f) \/ CloseF(f)

UserStep(f) ==
    /\ ~aborted
    /\ \/ "sleep" \in Uses /\ Sleep(f)
       \/ \E d \in Fds :
            \/ Socket(f, d)
            \/ "close" \in Uses /\ Close(f, d)
            \/ \E e \in Event : Transfer(e) \in Uses /\ DoIo(f, d, e, "io")
            \/ "accept" \in Uses /\ DoIo(f, d, "READ", "accept")
            \/ "connect" \in Uses /\ Connect(f, d, FALSE)
            \/ "connect_with_timeout" \in Uses /\ Connect(f, d, TRUE)
            \/ "fcntl" \in Uses /\ \E b \in BOOLEAN : Fcntl(f, d, b)
            \/ "ioctl" \in Uses /\ \E b \in BOOLEAN : Ioctl(f, d, b)
            \/ \E e \in Event : Optname(e) \in Uses /\ Setsockopt(f, d, e)

IoStep ==
    /\ ~aborted
    /\ \/ \E d \in Fds, e \in Event : Trigger(d, e) \/ CancleEvent(d, e)
       \/ \E f \in Fibers : Expire(f) \/ \E over \in BOOLEAN : Callback(f, over)

PeerStep ==
    /\ ~aborted
    /\ \E d \in Fds : Connected(d) \/ \E e \in Event : Arrives(d, e)

Next == (\E f \in Fibers : FiberStep(f) \/ UserStep(f)) \/ IoStep \/ PeerStep

Spec == Init /\ [][Next]_vars

(* Threads are not starved: a call goes on, a ready event is triggered, a  *)
(* timer expires and its callback runs.  Users and peers owe nothing.      *)
FairSpec ==
    /\ Spec
    /\ \A f \in Fibers : WF_vars(FiberStep(f))
    /\ \A d \in Fds, e \in Event :
         WF_vars(~aborted /\ Trigger(d, e)) /\ WF_vars(~aborted /\ CancleEvent(d, e))
    /\ \A f \in Fibers : WF_vars(~aborted /\ Expire(f)) /\ WF_vars(~aborted /\ Callback(f, FALSE))

-----------------------------------------------------------------------------
(* Every variable holds a value of its type. *)
TypeOK ==
    /\ open \in [Fds -> BOOLEAN] /\ ready \in [Fds -> SUBSET Event]
    /\ conn \in [Fds -> {"none", "progress", "ended"}]
    /\ nonblock \in [Fds -> BOOLEAN] /\ inEpoll \in [Fds -> BOOLEAN]
    /\ datas \in [Fds -> FdCtx \cup {None}]
    /\ context \in [Fds -> [Event -> Fibers \cup {None}]]
    /\ wakes \in [Fibers -> Nat] /\ aborted \in BOOLEAN
    /\ pc \in [Fibers -> {"user", "register", "lookup", "direct", "try", "arm", "add",
                          "add_failed", "hold", "check", "connect", "connect_f",
                          "connect_direct", "so_error", "close", "cancle_all", "close_del",
                          "close_f"}]
    /\ call \in [Fibers -> Call]
    /\ cancelled \in [Fibers -> BOOLEAN]
    /\ armed \in SUBSET Fibers /\ queued \in SUBSET Fibers
    /\ left \in SUBSET Fibers /\ stale \in SUBSET Fibers
    /\ acting \in SUBSET (Fds \X Event)

(* What will resume fiber f: events, the timer of its sleep, entries in    *)
(* the scheduler's list.                                                   *)
ByEvent(f) == {w \in Fds \X Event : context[w[1]][w[2]] = f}
ByTimer(f) ==
    IF call[f] # SleepCall THEN 0
    ELSE (IF f \in armed THEN 1 ELSE 0) + (IF f \in queued THEN 1 ELSE 0)
Resumers(f) == Cardinality(ByEvent(f)) + ByTimer(f) + wakes[f]

(* A fiber in YiledToHold is resumed by exactly one thing, and a fiber     *)
(* that is not there by nothing: events, timeouts, close() and sleep never *)
(* lose it, and never schedule it twice or while it runs.                  *)
ResumedOnce == \A f \in Fibers : Resumers(f) = (IF pc[f] = "hold" THEN 1 ELSE 0)

(* A call times out only because of its own timer: callbacks that are      *)
(* still scheduled when their call ends never touch a later call.          *)
TimeoutIsOwn ==
    [][\A f \in Fibers : cancelled'[f] /\ ~cancelled[f] => f \in queued \ queued']_vars

(* No call leaves a timer in the TimerManager when it returns or tries     *)
(* again, on any of its paths.                                             *)
NoTimerLeft ==
    left = {} /\ \A f \in armed : pc[f] \in {"add", "add_failed", "hold"}

(* A fiber that waits for an event of an open descriptor that is ready     *)
(* does not wait forever.                                                  *)
ReadyReturns ==
    \A f \in Fibers, d \in Fds, e \in Event :
        context[d][e] = f /\ e \in ready[d] /\ open[d] ~> context[d][e] # f \/ ~open[d]

(* A wait with a timeout ends, with data or by the callback's cancleEvent. *)
TimedWaitEnds ==
    \A f \in Fibers :
        pc[f] = "hold" /\ call[f] # SleepCall /\ call[f].timed ~> pc[f] # "hold"
=============================================================================
