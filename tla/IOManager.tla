----------------------------- MODULE IOManager -----------------------------
(***************************************************************************)
(* The event table of sylar::IOManager (sylar/iomanager.h,                 *)
(* sylar/iomanager.cpp): per file descriptor an FdContext with the events  *)
(* someone waits for, the epoll instance behind it, and the idle loops of  *)
(* the threads that turn epoll's answers into scheduled fibers.            *)
(*                                                                         *)
(* Every operation on a context runs under its mutex, so each is one step; *)
(* epoll_wait fills a thread's local array, which that thread works off    *)
(* entry by entry while the contexts change under it.                      *)
(* The epoll instance (level and edge triggering, EEXIST, ENOENT) and the  *)
(* readiness of descriptors are external.                                  *)
(***************************************************************************)
EXTENDS Integers, FiniteSets

CONSTANTS
    Fds,        \* file descriptors
    Threads,    \* the threads that run idle()
    Waiters,    \* fibers (or callbacks) that wait for events
    Users,      \* the events users wait for, a subset of {"READ", "WRITE"}
    None        \* no waiter

ASSUME IOManagerAssumption ==
    /\ IsFiniteSet(Fds)
    /\ None \notin Waiters
    /\ Users \subseteq {"READ", "WRITE"}

Event == {"READ", "WRITE"}            \* EPOLLIN and EPOLLOUT have the same bits
Readiness == Event \cup {"ERR"}       \* EPOLLERR and EPOLLHUP, always reported

VARIABLES
    events,               \* FdContext::events
    context,              \* FdContext::read and ::write: the waiter of each event
    m_pendingEventCount,
    array,                \* the entries of idle()'s local events array left to handle
    aborted               \* an assertion failed

VARIABLES
    epoll,                \* external: the registration of each descriptor
    ready,                \* external: what each descriptor is ready for
    waiter,               \* what each waiter does: "runs", "waits", "scheduled"
    refused               \* addEvent calls on an open descriptor that returned -1

vars == <<events, context, m_pendingEventCount, array, aborted, epoll, ready, waiter, refused>>

-----------------------------------------------------------------------------
(* epoll, external.  edge: a change not yet reported to an edge-triggered  *)
(* registration; EPOLL_CTL_ADD and _MOD look at the readiness afresh.      *)

Unregistered == [in |-> FALSE, mask |-> {}, et |-> FALSE, edge |-> FALSE]
Registration == [in : BOOLEAN, mask : SUBSET Event, et : BOOLEAN, edge : BOOLEAN]

Registered(mask, et) == [in |-> TRUE, mask |-> mask, et |-> et, edge |-> TRUE]

(* epoll_ctl fails: ADD of a known descriptor, MOD or DEL of an unknown one. *)
CtlFails(op, fd) == IF op = "ADD" THEN epoll[fd].in ELSE ~epoll[fd].in

EpollCtl(op, fd, mask, et) ==
    epoll' = [epoll EXCEPT ![fd] = IF op = "DEL" THEN Unregistered ELSE Registered(mask, et)]

Reported(fd) == IF epoll[fd].in /\ (epoll[fd].et => epoll[fd].edge)
                THEN ready[fd] \cap (epoll[fd].mask \cup {"ERR"}) ELSE {}

BecomesReady(fd, r) ==
    /\ r \notin ready[fd]
    /\ ready' = [ready EXCEPT ![fd] = @ \cup {r}]
    /\ epoll' = [epoll EXCEPT ![fd].edge = @ \/ epoll[fd].in]
    /\ UNCHANGED <<events, context, m_pendingEventCount, array, aborted, waiter, refused>>

Drained(fd, r) ==
    /\ r \in ready[fd] /\ r # "ERR"
    /\ ready' = [ready EXCEPT ![fd] = @ \ {r}]
    /\ UNCHANGED <<events, context, m_pendingEventCount, array, aborted, epoll, waiter, refused>>

(* close(fd) and a new socket with the same number: the kernel forgets the *)
(* registration.  The hooked close() calls cancleAll first.                *)
Reopened(fd) ==
    /\ events[fd] = {}
    /\ epoll[fd].in \/ ready[fd] # {}
    /\ epoll' = [epoll EXCEPT ![fd] = Unregistered]
    /\ ready' = [ready EXCEPT ![fd] = {}]
    /\ UNCHANGED <<events, context, m_pendingEventCount, array, aborted, waiter, refused>>

-----------------------------------------------------------------------------
Init ==
    /\ events = [fd \in Fds |-> {}]
    /\ context = [fd \in Fds |-> [e \in Event |-> None]]
    /\ m_pendingEventCount = 0
    /\ array = [t \in Threads |-> [fd \in Fds |-> {}]]
    /\ aborted = FALSE
    /\ epoll = [fd \in Fds |-> Unregistered]
    /\ ready = [fd \in Fds |-> {}]
    /\ waiter = [w \in Waiters |-> "runs"]
    /\ refused = 0

(* A scheduled waiter goes on. *)
Resume(w) ==
    /\ waiter[w] = "scheduled"
    /\ waiter' = [waiter EXCEPT ![w] = "runs"]
    /\ UNCHANGED <<events, context, m_pendingEventCount, array, aborted, epoll, ready, refused>>

(* addEvent by a caller that knows the event is not waited for yet (adding *)
(* it twice is an assertion failure of the caller's making).               *)
AddMask_NoOld(fd, e) == {"READ", e}
AddMask(fd, e) == {"READ", e} \cup events[fd]

AddOp(fd) == IF events[fd] # {} THEN "MOD" ELSE "ADD"

AddEventFails(w, fd, e) ==
    /\ waiter[w] = "runs" /\ e \notin events[fd]
    /\ CtlFails(AddOp(fd), fd)
    /\ refused = 0
    /\ refused' = 1
    /\ UNCHANGED <<events, context, m_pendingEventCount, array, aborted, epoll, ready, waiter>>

AddEvent(w, fd, e) ==
    /\ waiter[w] = "runs" /\ e \notin events[fd]
    /\ ~CtlFails(AddOp(fd), fd)
    /\ EpollCtl(AddOp(fd), fd, AddMask(fd, e), FALSE)
    /\ m_pendingEventCount' = m_pendingEventCount + 1
    /\ events' = [events EXCEPT ![fd] = @ \cup {e}]
    /\ IF context[fd][e] = None
       THEN /\ context' = [context EXCEPT ![fd][e] = w]
            /\ waiter' = [waiter EXCEPT ![w] = "waits"]
            /\ UNCHANGED aborted
       ELSE aborted' = TRUE /\ UNCHANGED <<context, waiter>>
    /\ UNCHANGED <<array, ready, refused>>

(* delEvent and cancleEvent: `op = fd_ctx->events ? MOD : DEL' tests the   *)
(* old events, which hold the one to remove: the descriptor always stays   *)
(* in epoll.                                                               *)
RemoveOp(fd) == IF events[fd] # {} THEN "MOD" ELSE "DEL"

(* resetContext: the waiter is forgotten, not woken. *)
ResetContext_Not(fd, e) == UNCHANGED context
ResetContext(fd, e) == context' = [context EXCEPT ![fd][e] = None]

DelEvent(fd, e) ==
    /\ e \in events[fd]
    /\ ~CtlFails(RemoveOp(fd), fd)
    /\ EpollCtl(RemoveOp(fd), fd, events[fd] \ {e}, TRUE)
    /\ m_pendingEventCount' = m_pendingEventCount - 1
    /\ events' = [events EXCEPT ![fd] = @ \ {e}]
    /\ ResetContext(fd, e)
    /\ waiter' = [waiter EXCEPT ![context[fd][e]] = "runs"]
    /\ UNCHANGED <<array, aborted, ready, refused>>

(* triggerEvent for each event of E in turn, READ first: every one must be *)
(* registered, else the assertion ends the process.                        *)
Triggered(fd, E) ==
    IF E \subseteq events[fd] THEN E
    ELSE IF "READ" \in E \cap events[fd] THEN {"READ"} ELSE {}

(* A triggered event leaves events, its waiter is scheduled and the        *)
(* context is empty again; each call is followed by --m_pendingEventCount. *)
PendingLess_One(done) == m_pendingEventCount' = m_pendingEventCount - 1
PendingLess(done) == m_pendingEventCount' = m_pendingEventCount - Cardinality(done)

TriggerAll(fd, E) ==
    LET done == Triggered(fd, E) IN
    /\ events' = [events EXCEPT ![fd] = @ \ done]
    /\ context' = [context EXCEPT ![fd] = [e \in Event |-> IF e \in done THEN None ELSE @[e]]]
    /\ waiter' = [w \in Waiters |-> IF \E e \in done : context[fd][e] = w THEN "scheduled"
                                    ELSE waiter[w]]
    /\ PendingLess(done)
    /\ aborted' = (aborted \/ ~(E \subseteq events[fd]))

CancleEvent(fd, e) ==
    /\ e \in events[fd]
    /\ ~CtlFails(RemoveOp(fd), fd)
    /\ EpollCtl(RemoveOp(fd), fd, events[fd] \ {e}, TRUE)
    /\ TriggerAll(fd, {e})
    /\ UNCHANGED <<array, ready, refused>>

CancleAll(fd) ==
    /\ events[fd] # {}
    /\ ~CtlFails("DEL", fd)
    /\ EpollCtl("DEL", fd, {}, FALSE)
    /\ TriggerAll(fd, events[fd])
    /\ UNCHANGED <<array, ready, refused>>

-----------------------------------------------------------------------------
(* idle() on thread t. *)

(* epoll_wait copies what there is to report into the local array. *)
EpollWait(t) ==
    /\ \A fd \in Fds : array[t][fd] = {}
    /\ \E fd \in Fds : Reported(fd) # {}
    /\ array' = [array EXCEPT ![t] = [fd \in Fds |-> Reported(fd)]]
    /\ epoll' = [fd \in Fds |-> IF Reported(fd) # {} THEN [epoll[fd] EXCEPT !.edge = FALSE]
                                ELSE epoll[fd]]
    /\ UNCHANGED <<events, context, m_pendingEventCount, aborted, ready, waiter, refused>>

(* EPOLLERR and EPOLLHUP stand for every event someone waits for. *)
RealEvents_NoErr(fd, reported) == reported \cap Event
RealEvents(fd, reported) ==
    (reported \cap Event) \cup (IF "ERR" \in reported THEN events[fd] ELSE {})

(* What stays subscribed after the entry: MOD, or DEL when nothing does. *)
LeftOp(left) == IF left # {} THEN "MOD" ELSE "DEL"

Taken(t, fd) == array' = [array EXCEPT ![t][fd] = {}]

(* An entry of the array is for nobody, or epoll_ctl refuses: next entry. *)
HandleSkip(t, fd) ==
    LET real == RealEvents(fd, array[t][fd])
        left == events[fd] \ real
    IN
    /\ array[t][fd] # {}
    /\ events[fd] \cap real = {} \/ CtlFails(LeftOp(left), fd)
    /\ Taken(t, fd)
    /\ UNCHANGED <<events, context, m_pendingEventCount, aborted, epoll, ready, waiter, refused>>

HandleEvent(t, fd) ==
    LET real == RealEvents(fd, array[t][fd])
        left == events[fd] \ real
    IN
    /\ array[t][fd] # {}
    /\ events[fd] \cap real # {} /\ ~CtlFails(LeftOp(left), fd)
    /\ EpollCtl(LeftOp(left), fd, left, TRUE)
    /\ TriggerAll(fd, real)
    /\ Taken(t, fd)
    /\ UNCHANGED <<ready, refused>>

-----------------------------------------------------------------------------
IdleStep(t) ==
    /\ ~aborted
    /\ EpollWait(t) \/ \E fd \in Fds : HandleSkip(t, fd) \/ HandleEvent(t, fd)

UserStep ==
    /\ ~aborted
    /\ \/ \E w \in Waiters : Resume(w)
       \/ \E w \in Waiters, fd \in Fds, e \in Users : AddEvent(w, fd, e) \/ AddEventFails(w, fd, e)
       \/ \E fd \in Fds, e \in Event : DelEvent(fd, e) \/ CancleEvent(fd, e)
       \/ \E fd \in Fds : CancleAll(fd)

KernelStep ==
    /\ ~aborted
    /\ \/ \E fd \in Fds, r \in Readiness : BecomesReady(fd, r) \/ Drained(fd, r)
       \/ \E fd \in Fds : Reopened(fd)

Aborted == aborted /\ UNCHANGED vars

Next == (\E t \in Threads : IdleStep(t)) \/ UserStep \/ KernelStep \/ Aborted

Spec == Init /\ [][Next]_vars

(* A thread in idle() calls epoll_wait again and again, and works off what *)
(* it returns.  Users and the kernel owe nothing.                          *)
Fairness == \A t \in Threads : WF_vars(IdleStep(t))

FairSpec == Spec /\ Fairness

-----------------------------------------------------------------------------
(* Every variable holds a value of its type; m_pendingEventCount is a      *)
(* size_t, so a -- too many would wrap around.                             *)
TypeOK ==
    /\ events \in [Fds -> SUBSET Event]
    /\ context \in [Fds -> [Event -> Waiters \cup {None}]]
    /\ m_pendingEventCount \in Nat
    /\ array \in [Threads -> [Fds -> SUBSET Readiness]]
    /\ aborted \in BOOLEAN
    /\ epoll \in [Fds -> Registration]
    /\ ready \in [Fds -> SUBSET Readiness]
    /\ waiter \in [Waiters -> {"runs", "waits", "scheduled"}]
    /\ refused \in 0..1

Pending == {p \in Fds \X Event : p[2] \in events[p[1]]}

(* m_pendingEventCount, which decides whether the manager may stop, is the *)
(* number of registered events: addEvent, delEvent, cancleEvent, cancleAll *)
(* and the idle loops of all threads keep it together.                     *)
PendingExact == m_pendingEventCount = Cardinality(Pending)

(* An event is registered exactly while its context names the waiter, and  *)
(* a waiter waits exactly while one context names it: no waiter is         *)
(* forgotten, none is scheduled twice for one wait.                        *)
WaiterOnce ==
    ~aborted =>
    /\ \A fd \in Fds, e \in Event : e \in events[fd] <=> context[fd][e] # None
    /\ \A w \in Waiters :
         waiter[w] = "waits" <=> \E fd \in Fds, e \in Event : context[fd][e] = w
    /\ \A f, g \in Fds, d, e \in Event :
         context[f][d] = context[g][e] /\ context[f][d] # None => f = g /\ d = e

(* What someone waits for is subscribed in epoll, whoever changed the      *)
(* registration last.                                                      *)
Subscribed ==
    ~aborted => \A fd \in Fds : events[fd] # {} =>
                    epoll[fd].in /\ events[fd] \subseteq epoll[fd].mask

(* Nobody waits forever for an event that its descriptor stays ready for:  *)
(* also not when another thread took the report, when the descriptor was   *)
(* subscribed edge-triggered by an earlier event, or on EPOLLERR.          *)
ReadyIsWoken ==
    \A fd \in Fds, e \in Event :
        ~<>[](e \in events[fd] /\ ready[fd] \cap {e, "ERR"} # {} /\ ~aborted)

(* addEvent on an open descriptor does not fail for lack of bookkeeping.   *)
(* The code does not keep this: delEvent and cancleEvent of the last event *)
(* leave the descriptor in epoll, and the next addEvent fails.             *)
AddSucceeds == refused = 0
=============================================================================
