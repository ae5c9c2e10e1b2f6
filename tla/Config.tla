------------------------------- MODULE Config -------------------------------
(***************************************************************************)
(* sylar/config.h, config.cpp: named variables, the callbacks that listen  *)
(* to their changes, and YAML documents that set several of them.          *)
(* ConfigVar::setValue compares and calls back under the read lock of the  *)
(* variable, releases it, and assigns under the write lock; in between,    *)
(* other threads may do the same.                                          *)
(* What a callback does beyond hearing of the value is up to the module    *)
(* that extends this one: the callback is at a point, with things left to  *)
(* loop over, until it returns.                                            *)
(***************************************************************************)
EXTENDS Integers, Sequences, FiniteSets

CONSTANTS
    Threads,        \* threads that use the configuration
    Names,          \* names of configuration variables
    Plain,          \* those whose listeners the program adds and deletes
    Default,        \* name -> the default_value of its Lookup
    Builtin,        \* name -> keys of the listeners that static initialisers add
    PlainValues,    \* values the program sets plain variables to
    Docs,           \* YAML documents: sequences of <<key, node>>
    FromStr(_, _),  \* {value} of a node for a variable, {} when the conversion throws
    MaxKey,         \* bound: listeners that are ever added to a variable
    MaxLoads        \* bound: documents that are loaded

Members == UNION {{doc[i] : i \in 1..Len(doc)} : doc \in Docs}

ASSUME ConfigAssumption ==
    /\ MaxKey \in Nat /\ Plain \subseteq Names
    /\ Default = [n \in Names |-> Default[n]]
    /\ Builtin \in [Names -> SUBSET (1..MaxKey)]
    /\ Docs \subseteq Seq(Members)

VARIABLES
    datas,          \* GetDatas(): names that are registered
    m_val,          \* name -> value
    m_cbs,          \* name -> keys of the listeners
    s_fun_id,       \* name -> the last key given out
    heard,          \* name -> key -> value the listener last heard of [history]
    fr,             \* thread -> its call in progress
    loads,          \* documents loaded so far
    overlap         \* names of which two changes were once in progress together [history]

cfgVars == <<datas, m_val, m_cbs, s_fun_id, heard, fr, loads, overlap>>

NoPoint == [at |-> "none"]
Idle == [pc |-> "idle", var |-> "", v |-> "", todo |-> {}, point |-> NoPoint, loop |-> {}, rest |-> <<>>]

CfgInit ==
    /\ datas = {n \in Names : Builtin[n] # {}}
    /\ m_val = Default
    /\ m_cbs = Builtin
    /\ s_fun_id = [n \in Names |-> Cardinality(Builtin[n])]
    /\ heard = [n \in Names |-> [k \in 1..MaxKey |-> Default[n]]]
    /\ fr = [t \in Threads |-> Idle]
    /\ loads = 0
    /\ overlap = {}

Changing(t, n) == fr[t].pc \in {"call", "assign"} /\ fr[t].var = n
ReadLocked(n) == \E t \in Threads : fr[t].pc = "call" /\ fr[t].var = n
\* setValue returns, to the loop of LoadFromYaml if it came from there.
Resume(rest) == IF rest = <<>> THEN Idle ELSE [Idle EXCEPT !.pc = "load", !.rest = rest]
Done(t) == fr' = [fr EXCEPT ![t] = Resume(@.rest)]

\* Config::Lookup(name, default_value): a name that is there stays as it is,
\* whatever its type, and an invalid name is refused: neither changes anything.
Lookup(t, n) ==
    /\ fr[t].pc = "idle" /\ n \notin datas
    /\ datas' = datas \cup {n}
    /\ UNCHANGED <<m_val, m_cbs, s_fun_id, heard, fr, loads, overlap>>

\* ConfigVar::setValue up to its first callback.
Compare(t, n, v, rest) ==
    IF v = m_val[n]
    THEN /\ fr' = [fr EXCEPT ![t] = Resume(rest)]
         /\ UNCHANGED overlap
    ELSE /\ fr' = [fr EXCEPT ![t] = [pc |-> "call", var |-> n, v |-> v, todo |-> m_cbs[n],
                                     point |-> NoPoint, loop |-> {}, rest |-> rest]]
         /\ overlap' = IF \E u \in Threads : Changing(u, n) THEN overlap \cup {n} ELSE overlap
SetValue(t, n, v) ==
    /\ fr[t].pc = "idle" /\ n \in datas
    /\ Compare(t, n, v, <<>>)
    /\ UNCHANGED <<datas, m_val, m_cbs, s_fun_id, heard, loads>>

\* i.second(m_val, v): the next callback, in the order of the keys, begins, with
\* what it has to loop over.
InCallback(t) == fr[t].point # NoPoint \/ fr[t].loop # {}
Call(t, loop) ==
    /\ fr[t].pc = "call" /\ ~InCallback(t)
    /\ \E k \in fr[t].todo :
        /\ \A l \in fr[t].todo : k <= l
        /\ fr' = [fr EXCEPT ![t].todo = @ \ {k}, ![t].loop = loop]
        /\ heard' = [heard EXCEPT ![fr[t].var][k] = fr[t].v]
    /\ UNCHANGED <<datas, m_val, m_cbs, s_fun_id, loads, overlap>>
\* A step of the callback: whatever it does, it leaves the configuration alone.
CallGoesOn(t, point, loop) ==
    /\ fr[t].pc = "call" /\ InCallback(t)
    /\ fr' = [fr EXCEPT ![t].point = point, ![t].loop = loop]
    /\ UNCHANGED <<datas, m_val, m_cbs, s_fun_id, heard, loads, overlap>>

Unlock(t) ==
    /\ fr[t].pc = "call" /\ fr[t].todo = {} /\ ~InCallback(t)
    /\ fr' = [fr EXCEPT ![t].pc = "assign"]
    /\ UNCHANGED <<datas, m_val, m_cbs, s_fun_id, heard, loads, overlap>>

\* m_val = v, under the write lock.
Assign(t) ==
    /\ fr[t].pc = "assign" /\ ~ReadLocked(fr[t].var)
    /\ m_val' = [m_val EXCEPT ![fr[t].var] = fr[t].v]
    /\ Done(t)
    /\ UNCHANGED <<datas, m_cbs, s_fun_id, heard, loads, overlap>>

\* Config::LoadFromYaml
LoadFromYaml(t, doc) ==
    /\ fr[t].pc = "idle"
    /\ loads < MaxLoads /\ loads' = loads + 1
    /\ fr' = [fr EXCEPT ![t] = Resume(doc)]
    /\ UNCHANGED <<datas, m_val, m_cbs, s_fun_id, heard, overlap>>
\* The next member: LookupBase, and ConfigVar::fromString, which catches what
\* the conversion throws.  A name nobody registered yet is passed over.
LoadNext(t) ==
    LET n == Head(fr[t].rest)[1]
        vs == FromStr(n, Head(fr[t].rest)[2])
        rest == Tail(fr[t].rest)
    IN  /\ fr[t].pc = "load"
        /\ IF n \in datas /\ vs # {} THEN Compare(t, n, CHOOSE v \in vs : TRUE, rest)
           ELSE /\ fr' = [fr EXCEPT ![t] = Resume(rest)]
                /\ UNCHANGED overlap
        /\ UNCHANGED <<datas, m_val, m_cbs, s_fun_id, heard, loads>>

\* The program takes the value and listens for later ones.
addListener(t, n) ==
    /\ fr[t].pc = "idle" /\ n \in datas /\ ~ReadLocked(n)
    /\ s_fun_id[n] < MaxKey
    /\ s_fun_id' = [s_fun_id EXCEPT ![n] = @ + 1]
    /\ m_cbs' = [m_cbs EXCEPT ![n] = @ \cup {s_fun_id'[n]}]
    /\ heard' = [heard EXCEPT ![n][s_fun_id'[n]] = m_val[n]]
    /\ overlap' = IF \E u \in Threads : Changing(u, n) THEN overlap \cup {n} ELSE overlap
    /\ UNCHANGED <<datas, m_val, fr, loads>>

delListener_NoLock(t, n, k) ==
    /\ fr[t].pc = "idle" /\ k \in m_cbs[n]
    /\ m_cbs' = [m_cbs EXCEPT ![n] = @ \ {k}]
    /\ UNCHANGED <<datas, m_val, s_fun_id, heard, fr, loads, overlap>>
delListener(t, n, k) ==
    /\ fr[t].pc = "idle" /\ k \in m_cbs[n] /\ ~ReadLocked(n)
    /\ m_cbs' = [m_cbs EXCEPT ![n] = @ \ {k}]
    /\ UNCHANGED <<datas, m_val, s_fun_id, heard, fr, loads, overlap>>

clearListener(t, n) ==
    /\ fr[t].pc = "idle" /\ m_cbs[n] # {} /\ ~ReadLocked(n)
    /\ m_cbs' = [m_cbs EXCEPT ![n] = {}]
    /\ UNCHANGED <<datas, m_val, s_fun_id, heard, fr, loads, overlap>>

\* What a thread does without the module that has the callbacks.
CfgStep(t) ==
    \/ \E n \in Names : Lookup(t, n)
    \/ \E n \in Plain : \/ \E v \in PlainValues : SetValue(t, n, v)
                        \/ addListener(t, n) \/ clearListener(t, n)
                        \/ \E k \in 1..MaxKey : delListener(t, n, k)
    \/ \E doc \in Docs : LoadFromYaml(t, doc)
    \/ LoadNext(t) \/ Unlock(t) \/ Assign(t)

-----------------------------------------------------------------------------
(* Properties *)

\* A listener is called only while it is registered, never after delListener or
\* clearListener returned, although another thread is amid setValue.
CalledWhileRegistered ==
    \A t \in Threads : fr[t].pc = "call" => fr[t].todo \subseteq m_cbs[fr[t].var]

\* When no change of a variable is in progress, every listener last heard the
\* value the variable has, unless two changes of it once overlapped: the
\* comparison and the assignment of setValue are in two critical sections.
HeardLast ==
    \A n \in Names : (n \notin overlap /\ \A t \in Threads : ~Changing(t, n)) =>
        \A k \in m_cbs[n] : heard[n][k] = m_val[n]

\* Listeners of a configuration variable are told of its changes, all of them
\* and in time: CalledWhileRegistered (what a callback captured may be freed
\* once delListener returned) and HeardLast.
ListenersExact == CalledWhileRegistered /\ HeardLast
=============================================================================
