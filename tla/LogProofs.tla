------------------------------ MODULE LogProofs ------------------------------
(***************************************************************************)
(* Proofs about Config and Log, for every number of threads, variables,    *)
(* listeners, loggers and documents: listeners are told exactly, whatever  *)
(* their callbacks do; appenders have formatters; no event is lost; and    *)
(* the loggers are as configured.                                          *)
(***************************************************************************)
EXTENDS Log, TLAPS, FiniteSetTheorems, SequenceTheorems, WellFoundedInduction

(* The configuration with arbitrary callbacks: every step of Log takes one *)
(* of these, or leaves the configuration as it is.                         *)
CfgNext == \E t \in Threads :
    CfgStep(t) \/ (\E loop : Call(t, loop)) \/ \E point, loop : CallGoesOn(t, point, loop)

-----------------------------------------------------------------------------
(* The inductive invariant of the configuration. *)

(* The variables are functions, with the records a call in progress has. *)
IsFn(f, S) == f = [x \in S |-> f[x]]
Frame(r) == r = [pc |-> r.pc, var |-> r.var, v |-> r.v, todo |-> r.todo,
                  point |-> r.point, loop |-> r.loop, rest |-> r.rest]
Shape ==
    /\ datas \subseteq Names
    /\ IsFn(m_val, Names)
    /\ m_cbs \in [Names -> SUBSET (1..MaxKey)]
    /\ s_fun_id \in [Names -> Nat]
    /\ IsFn(heard, Names) /\ \A n \in Names : IsFn(heard[n], 1..MaxKey)
    /\ IsFn(fr, Threads)
    /\ \A t \in Threads : Frame(fr[t]) /\ (fr[t].pc \in {"call", "assign"} => fr[t].var \in Names)

(* Of a variable whose changes never overlapped, a listener has heard of   *)
(* the value that one thread is about to assign, or is still to be called, *)
(* or knows the value.                                                     *)
Told(n) ==
    /\ \A t, u \in Threads : Changing(t, n) /\ Changing(u, n) => t = u
    /\ \A t \in Threads : Changing(t, n) =>
         \A k \in m_cbs[n] : (fr[t].pc = "call" /\ k \in fr[t].todo) \/ heard[n][k] = fr[t].v
    /\ (\A t \in Threads : ~Changing(t, n)) => \A k \in m_cbs[n] : heard[n][k] = m_val[n]

ICfg == Shape /\ CalledWhileRegistered /\ \A n \in Names : n \notin overlap => Told(n)

(* The invariant holds once the static initialisers have run. *)
LEMMA InitICfg == CfgInit => ICfg
<1> SUFFICES ASSUME CfgInit PROVE ICfg
  OBVIOUS
<1> USE ConfigAssumption
<1>1. \A n \in Names : Cardinality(Builtin[n]) \in Nat
  <2> TAKE n \in Names
  <2>1. IsFiniteSet(1..MaxKey)
    BY FS_Interval
  <2>2. IsFiniteSet(Builtin[n])
    BY <2>1, FS_Subset
  <2> QED
    BY <2>2, FS_CardinalityType
<1>2. Shape
  BY <1>1 DEF CfgInit, Shape, IsFn, Frame, Idle
<1>3. \A t \in Threads : fr[t].pc = "idle"
  BY DEF CfgInit, Idle
<1> QED
  BY <1>2, <1>3 DEF CfgInit, ICfg, CalledWhileRegistered, Told, Changing

-----------------------------------------------------------------------------
(* A thread that is in no change before and after its step. *)
LEMMA Apart ==
  ASSUME ICfg, NEW t \in Threads, fr[t].pc \in {"idle", "load"}, fr'[t].pc \in {"idle", "load"}, Frame(fr'[t]),
         fr' = [fr EXCEPT ![t] = fr'[t]],
         UNCHANGED <<m_val, m_cbs, s_fun_id, heard, overlap>>, datas' \subseteq Names
  PROVE  ICfg'
<1>1. IsFn(fr', Threads) /\ \A u \in Threads : u # t => fr'[u] = fr[u]
  BY DEF ICfg, Shape, IsFn
<1>2. Shape'
  BY <1>1 DEF ICfg, Shape
<1>3. CalledWhileRegistered'
  BY <1>1 DEF ICfg, CalledWhileRegistered
<1>4. \A n \in Names : \A u \in Threads : Changing(u, n)' <=> Changing(u, n)
  BY <1>1 DEF Changing
<1>5. \A n \in Names : Told(n) => Told(n)'
  BY <1>1, <1>4 DEF Told, Changing
<1> QED
  BY <1>2, <1>3, <1>5 DEF ICfg

(* setValue begins: the listeners that are registered will be called, and  *)
(* a change in progress is an overlap.                                     *)
LEMMA CompareStep ==
  ASSUME ICfg, NEW t \in Threads, fr[t].pc \in {"idle", "load"}, NEW n \in Names, NEW v, NEW rest,
         Compare(t, n, v, rest), UNCHANGED <<datas, m_val, m_cbs, s_fun_id, heard>>
  PROVE  ICfg'
<1>1. CASE v = m_val[n]
  <2>1. fr' = [fr EXCEPT ![t] = Resume(rest)] /\ UNCHANGED overlap
    BY <1>1 DEF Compare
  <2>2. fr'[t] = Resume(rest)
    BY <2>1 DEF ICfg, Shape, IsFn
  <2>3. Frame(Resume(rest)) /\ Resume(rest).pc \in {"idle", "load"}
    BY DEF Resume, Idle, Frame
  <2> QED
    BY <2>1, <2>2, <2>3, Apart DEF ICfg, Shape
<1>2. CASE v # m_val[n]
  <2>1. /\ fr'[t] = [pc |-> "call", var |-> n, v |-> v, todo |-> m_cbs[n], point |-> NoPoint, loop |-> {}, rest |-> rest]
        /\ IsFn(fr', Threads) /\ \A u \in Threads : u # t => fr'[u] = fr[u]
        /\ overlap' = IF \E u \in Threads : Changing(u, n) THEN overlap \cup {n} ELSE overlap
    BY <1>2 DEF Compare, ICfg, Shape, IsFn
  <2>a. Frame(fr'[t]) /\ fr'[t].var = n
    BY <2>1 DEF Frame
  <2>2. Shape'
    BY <2>1, <2>a DEF ICfg, Shape
  <2>3. CalledWhileRegistered'
    BY <2>1 DEF ICfg, CalledWhileRegistered
  <2>4. ASSUME NEW m \in Names, m \notin overlap' PROVE Told(m)'
    <3>1. m \notin overlap /\ Told(m)
      BY <2>1, <2>4 DEF ICfg
    <3>2. CASE m # n
      <4>1. \A u \in Threads : Changing(u, m)' <=> Changing(u, m)
        BY <2>1, <3>2 DEF Changing
      <4> QED
        BY <2>1, <3>1, <4>1 DEF Told, Changing
    <3>3. CASE m = n
      <4>1. \A u \in Threads : ~Changing(u, n)
        BY <2>1, <2>4, <3>3
      <4>2. \A u \in Threads : Changing(u, n)' <=> u = t
        BY <2>1, <4>1 DEF Changing
      <4> QED
        BY <2>1, <3>3, <4>2 DEF Told
    <3> QED
      BY <3>2, <3>3
  <2> QED
    BY <2>2, <2>3, <2>4 DEF ICfg
<1> QED
  BY <1>1, <1>2

(* A callback begins: its listener has heard of the value. *)
LEMMA CallStep ==
  ASSUME ICfg, NEW t \in Threads, NEW loop, Call(t, loop)
  PROVE  ICfg'
<1>1. PICK n \in Names : n = fr[t].var
  BY DEF Call, ICfg, Shape
<1>2. PICK k \in fr[t].todo : /\ fr' = [fr EXCEPT ![t].todo = @ \ {k}, ![t].loop = loop]
                              /\ heard' = [heard EXCEPT ![n][k] = fr[t].v]
  BY <1>1 DEF Call
<1>3. fr[t].pc = "call" /\ UNCHANGED <<datas, m_val, m_cbs, s_fun_id, overlap>> /\ k \in 1..MaxKey
  BY <1>1 DEF Call, ICfg, CalledWhileRegistered, Shape
<1>4. /\ IsFn(fr', Threads) /\ \A u \in Threads : u # t => fr'[u] = fr[u]
      /\ fr'[t] = [fr[t] EXCEPT !.todo = @ \ {k}, !.loop = loop]
  BY <1>2 DEF ICfg, Shape, IsFn
<1>5. Frame(fr'[t]) /\ fr'[t].pc = "call" /\ fr'[t].var = n /\ fr'[t].v = fr[t].v /\ fr'[t].todo = fr[t].todo \ {k}
  <2>1. Frame(fr[t])
    BY DEF ICfg, Shape
  <2> QED
    BY <1>1, <1>3, <1>4, <2>1 DEF Frame
<1>6. /\ IsFn(heard', Names) /\ \A m \in Names : m # n => heard'[m] = heard[m]
      /\ IsFn(heard'[n], 1..MaxKey) /\ heard'[n][k] = fr[t].v
      /\ \A l \in 1..MaxKey : l # k => heard'[n][l] = heard[n][l]
  <2>1. /\ IsFn(heard', Names) /\ \A m \in Names : m # n => heard'[m] = heard[m]
        /\ heard'[n] = [heard[n] EXCEPT ![k] = fr[t].v]
    BY <1>2 DEF ICfg, Shape, IsFn
  <2>2. IsFn(heard[n], 1..MaxKey)
    BY DEF ICfg, Shape
  <2> QED
    BY <1>3, <2>1, <2>2 DEF IsFn
<1>7. Shape'
  BY <1>1, <1>3, <1>4, <1>5, <1>6 DEF ICfg, Shape
<1>8. CalledWhileRegistered'
  BY <1>1, <1>3, <1>4, <1>5 DEF ICfg, CalledWhileRegistered
<1>9. \A m \in Names : \A u \in Threads : Changing(u, m)' <=> Changing(u, m)
  BY <1>1, <1>3, <1>4, <1>5 DEF Changing
<1>10. ASSUME NEW m \in Names, m \notin overlap' PROVE Told(m)'
  <2>1. Told(m)
    BY <1>3, <1>10 DEF ICfg
  <2>2. CASE m # n
    BY <1>1, <1>3, <1>4, <1>5, <1>6, <1>9, <2>1, <2>2 DEF Told, Changing
  <2>3. CASE m = n
    <3>1. m_cbs[n] \subseteq 1..MaxKey /\ Changing(t, n)
      BY <1>1, <1>3 DEF ICfg, Shape, Changing
    <3>2. \A u \in Threads : Changing(u, n)' <=> u = t
      BY <1>9, <2>1, <2>3, <3>1 DEF Told
    <3>3. \A l \in m_cbs[n] : l \in fr[t].todo \/ heard[n][l] = fr[t].v
      BY <2>1, <2>3, <3>1 DEF Told
    <3>4. \A l \in m_cbs'[n] : l \in fr'[t].todo \/ heard'[n][l] = fr'[t].v
      BY <1>3, <1>5, <1>6, <3>1, <3>3
    <3> QED
      BY <1>5, <2>3, <3>2, <3>4 DEF Told
  <2> QED
    BY <2>2, <2>3
<1> QED
  BY <1>7, <1>8, <1>10 DEF ICfg

(* The calls when a callback goes on. *)
LEMMA GoesOnFrames ==
  ASSUME ICfg, NEW t \in Threads, NEW point, NEW loop, CallGoesOn(t, point, loop)
  PROVE  /\ IsFn(fr', Threads) /\ \A u \in Threads : u # t => fr'[u] = fr[u]
         /\ Frame(fr'[t]) /\ fr[t].pc = "call" /\ fr'[t].pc = "call"
         /\ fr'[t].var = fr[t].var /\ fr'[t].v = fr[t].v /\ fr'[t].todo = fr[t].todo /\ fr'[t].rest = fr[t].rest
         /\ fr'[t].point = point /\ fr'[t].loop = loop
<1>1. Frame(fr[t]) /\ IsFn(fr, Threads)
  BY DEF ICfg, Shape
<1>2. /\ IsFn(fr', Threads) /\ \A u \in Threads : u # t => fr'[u] = fr[u]
      /\ fr'[t] = [fr[t] EXCEPT !.point = point, !.loop = loop]
  BY <1>1 DEF CallGoesOn, IsFn
<1>3. fr'[t] = [pc |-> fr[t].pc, var |-> fr[t].var, v |-> fr[t].v, todo |-> fr[t].todo,
                point |-> point, loop |-> loop, rest |-> fr[t].rest]
  <2>1. fr'[t] = [fr[t] EXCEPT !.point = point, !.loop = loop] /\ Frame(fr[t])
    BY <1>1, <1>2
  <2>2. PICK a, b, c, d, e, f, g : fr[t] = [pc |-> a, var |-> b, v |-> c, todo |-> d, point |-> e, loop |-> f, rest |-> g]
    BY <2>1 DEF Frame
  <2>3. PICK q : q = [fr[t] EXCEPT !.point = point]
    OBVIOUS
  <2>4. q = [pc |-> a, var |-> b, v |-> c, todo |-> d, point |-> point, loop |-> f, rest |-> g]
    BY <2>2, <2>3
  <2>5. [q EXCEPT !.loop = loop] = [pc |-> a, var |-> b, v |-> c, todo |-> d, point |-> point, loop |-> loop, rest |-> g]
    BY <2>4
  <2>6. fr'[t] = [q EXCEPT !.loop = loop]
    BY <2>1, <2>3, Zenon
  <2>7. fr[t].pc = a /\ fr[t].var = b /\ fr[t].v = c /\ fr[t].todo = d /\ fr[t].rest = g
    BY <2>2
  <2> QED
    BY <2>5, <2>6, <2>7
<1>4. fr[t].pc = "call"
  BY DEF CallGoesOn
<1> QED
  BY <1>2, <1>3, <1>4 DEF Frame

(* A callback goes on, or was the last one. *)
LEMMA GoesOnStep ==
  ASSUME ICfg, NEW t \in Threads, (\E point, loop : CallGoesOn(t, point, loop)) \/ Unlock(t)
  PROVE  ICfg'
<1>1. UNCHANGED <<datas, m_val, m_cbs, s_fun_id, heard, overlap>>
  BY DEF CallGoesOn, Unlock
<1>2. /\ IsFn(fr', Threads) /\ \A u \in Threads : u # t => fr'[u] = fr[u]
      /\ Frame(fr'[t]) /\ fr[t].pc = "call" /\ fr'[t].var = fr[t].var /\ fr'[t].v = fr[t].v /\ fr'[t].todo = fr[t].todo
      /\ fr'[t].pc = "call" \/ (fr'[t].pc = "assign" /\ fr[t].todo = {})
  <2>1. CASE Unlock(t)
    <3>1. Frame(fr[t]) /\ IsFn(fr, Threads)
      BY DEF ICfg, Shape
    <3> QED
      BY <2>1, <3>1 DEF Unlock, Frame, IsFn
  <2> QED
    BY <2>1, GoesOnFrames
<1>3. Shape'
  BY <1>1, <1>2 DEF ICfg, Shape
<1>4. CalledWhileRegistered'
  BY <1>1, <1>2 DEF ICfg, CalledWhileRegistered
<1>5. \A m \in Names : \A u \in Threads : Changing(u, m)' <=> Changing(u, m)
  BY <1>2 DEF Changing
<1>6. \A m \in Names : Told(m) => Told(m)'
  BY <1>1, <1>2, <1>5 DEF Told
<1> QED
  BY <1>1, <1>3, <1>4, <1>6 DEF ICfg

(* The value is assigned: the variable has what its listeners heard. *)
LEMMA AssignStep ==
  ASSUME ICfg, NEW t \in Threads, Assign(t)
  PROVE  ICfg'
<1>1. PICK n \in Names : n = fr[t].var
  BY DEF Assign, ICfg, Shape
<1>2. UNCHANGED <<datas, m_cbs, s_fun_id, heard, overlap>> /\ fr[t].pc = "assign"
  BY DEF Assign
<1>3. IsFn(m_val', Names) /\ m_val'[n] = fr[t].v /\ \A m \in Names : m # n => m_val'[m] = m_val[m]
  BY <1>1 DEF Assign, ICfg, Shape, IsFn
<1>4. PICK rest : /\ IsFn(fr', Threads) /\ \A u \in Threads : u # t => fr'[u] = fr[u]
                  /\ fr'[t] = Resume(rest)
  BY DEF Assign, Done, ICfg, Shape, IsFn
<1>5. Frame(fr'[t]) /\ fr'[t].pc \in {"idle", "load"}
  <2>1. Frame(Resume(rest)) /\ Resume(rest).pc \in {"idle", "load"}
    BY DEF Resume, Idle, Frame
  <2> QED
    BY <1>4, <2>1
<1>6. Shape'
  BY <1>2, <1>3, <1>4, <1>5 DEF ICfg, Shape
<1>7. CalledWhileRegistered'
  BY <1>2, <1>4, <1>5 DEF ICfg, CalledWhileRegistered
<1>8. \A m \in Names : \A u \in Threads : Changing(u, m)' <=> Changing(u, m) /\ u # t
  BY <1>4, <1>5 DEF Changing
<1>9. ASSUME NEW m \in Names, m \notin overlap' PROVE Told(m)'
  <2>1. Told(m)
    BY <1>2, <1>9 DEF ICfg
  <2>2. CASE m # n
    <3>1. ~Changing(t, m)
      BY <1>1, <2>2 DEF Changing
    <3> QED
      BY <1>2, <1>3, <1>4, <1>8, <2>1, <2>2, <3>1 DEF Told
  <2>3. CASE m = n
    <3>1. Changing(t, n)
      BY <1>1, <1>2 DEF Changing
    <3>2. \A l \in m_cbs[n] : heard[n][l] = fr[t].v
      BY <1>2, <2>1, <2>3, <3>1 DEF Told
    <3>3. \A u \in Threads : ~Changing(u, n)'
      BY <1>8, <2>1, <2>3, <3>1 DEF Told
    <3> QED
      BY <1>2, <1>3, <2>3, <3>2, <3>3 DEF Told
  <2> QED
    BY <2>2, <2>3
<1> QED
  BY <1>6, <1>7, <1>9 DEF ICfg

(* A listener that comes has the value, one that goes is not called again. *)
LEMMA RegisterStep ==
  ASSUME ICfg, NEW t \in Threads, NEW n \in Names,
         addListener(t, n) \/ clearListener(t, n) \/ \E k \in 1..MaxKey : delListener(t, n, k)
  PROVE  ICfg'
<1>0. MaxKey \in Nat
  BY ConfigAssumption
<1> USE <1>0
<1>1. UNCHANGED <<datas, m_val, fr>> /\ ~ReadLocked(n)
  BY DEF addListener, clearListener, delListener
<1>2. \A m \in Names : \A u \in Threads : Changing(u, m)' <=> Changing(u, m)
  BY <1>1 DEF Changing
<1>3. \A m \in Names : m # n => m_cbs'[m] = m_cbs[m] /\ heard'[m] = heard[m]
  BY DEF addListener, clearListener, delListener, ICfg, Shape, IsFn
<1>4. \A u \in Threads : fr[u].pc = "call" => fr[u].var \in Names /\ fr[u].var # n
  BY <1>1 DEF ReadLocked, ICfg, Shape
<1>5. CalledWhileRegistered'
  BY <1>1, <1>3, <1>4 DEF ICfg, CalledWhileRegistered
<1>6. \A m \in Names : m \notin overlap' => m \notin overlap
  BY DEF addListener, clearListener, delListener
<1>7. \A m \in Names : m # n /\ Told(m) => Told(m)'
  BY <1>1, <1>2, <1>3 DEF Told
<1>8. CASE addListener(t, n)
  <2>1. PICK k \in 1..MaxKey : /\ k = s_fun_id[n] + 1 /\ s_fun_id' = [s_fun_id EXCEPT ![n] = k]
                               /\ m_cbs' = [m_cbs EXCEPT ![n] = @ \cup {k}]
                               /\ heard' = [heard EXCEPT ![n][k] = m_val[n]]
                               /\ overlap' = IF \E u \in Threads : Changing(u, n) THEN overlap \cup {n} ELSE overlap
    <3>1. s_fun_id[n] + 1 \in 1..MaxKey /\ s_fun_id'[n] = s_fun_id[n] + 1
      BY <1>8 DEF addListener, ICfg, Shape
    <3> QED
      BY <1>8, <3>1 DEF addListener, ICfg, Shape
  <2>2. m_cbs'[n] = m_cbs[n] \cup {k} /\ m_cbs[n] \subseteq 1..MaxKey
    BY <2>1 DEF ICfg, Shape
  <2>3. /\ IsFn(heard', Names) /\ IsFn(heard'[n], 1..MaxKey) /\ heard'[n][k] = m_val[n]
        /\ \A l \in 1..MaxKey : l # k => heard'[n][l] = heard[n][l]
    <3>1. IsFn(heard', Names) /\ heard'[n] = [heard[n] EXCEPT ![k] = m_val[n]]
      BY <2>1 DEF ICfg, Shape, IsFn
    <3>2. IsFn(heard[n], 1..MaxKey)
      BY DEF ICfg, Shape
    <3> QED
      BY <3>1, <3>2 DEF IsFn
  <2>a. m_cbs' \in [Names -> SUBSET (1..MaxKey)] /\ s_fun_id' \in [Names -> Nat]
    BY <2>1 DEF ICfg, Shape
  <2>b. \A m \in Names : IsFn(heard'[m], 1..MaxKey)
    BY <1>3, <2>3 DEF ICfg, Shape
  <2>4. Shape'
    BY <1>1, <2>3, <2>a, <2>b DEF ICfg, Shape
  <2>5. n \notin overlap' => \A u \in Threads : ~Changing(u, n)
    BY <2>1
  <2>6. n \notin overlap' => Told(n)'
    BY <1>1, <1>2, <1>6, <2>2, <2>3, <2>5 DEF ICfg, Told
  <2> QED
    BY <1>5, <1>6, <1>7, <2>4, <2>6 DEF ICfg
<1>9. CASE clearListener(t, n) \/ \E k \in 1..MaxKey : delListener(t, n, k)
  <2>1. UNCHANGED <<s_fun_id, heard>> /\ m_cbs' \in [Names -> SUBSET (1..MaxKey)] /\ m_cbs'[n] \subseteq m_cbs[n]
    <3>1. CASE clearListener(t, n)
      BY <3>1 DEF clearListener, ICfg, Shape
    <3>2. ASSUME NEW k \in 1..MaxKey, delListener(t, n, k)
          PROVE  m_cbs' \in [Names -> SUBSET (1..MaxKey)] /\ m_cbs'[n] \subseteq m_cbs[n] /\ UNCHANGED <<s_fun_id, heard>>
      BY <3>2 DEF delListener, ICfg, Shape
    <3> QED
      BY <1>9, <3>1, <3>2
  <2>2. Shape'
    BY <1>1, <2>1 DEF ICfg, Shape
  <2>3. Told(n) => Told(n)'
    BY <1>1, <1>2, <2>1 DEF Told
  <2> QED
    BY <1>5, <1>6, <1>7, <2>2, <2>3 DEF ICfg
<1> QED
  BY <1>8, <1>9

(* Every step keeps the invariant. *)
LEMMA CfgStepICfg ==
  ASSUME ICfg, CfgNext
  PROVE  ICfg'
<1> USE ConfigAssumption
<1>1. ASSUME NEW t \in Threads, NEW n \in Names, Lookup(t, n) PROVE ICfg'
  <2>1. fr' = [fr EXCEPT ![t] = fr'[t]] /\ Frame(fr'[t])
    BY <1>1 DEF Lookup, ICfg, Shape, IsFn
  <2> QED
    BY <1>1, <2>1, Apart DEF Lookup, ICfg, Shape
<1>2. ASSUME NEW t \in Threads, NEW n \in Plain, NEW v \in PlainValues, SetValue(t, n, v) PROVE ICfg'
  BY <1>2, CompareStep DEF SetValue
<1>3. ASSUME NEW t \in Threads, NEW doc \in Docs, LoadFromYaml(t, doc) PROVE ICfg'
  <2>1. fr' = [fr EXCEPT ![t] = Resume(doc)] /\ fr'[t] = Resume(doc)
    BY <1>3 DEF LoadFromYaml, ICfg, Shape, IsFn
  <2>2. Frame(Resume(doc)) /\ Resume(doc).pc \in {"idle", "load"}
    BY DEF Resume, Idle, Frame
  <2> QED
    BY <1>3, <2>1, <2>2, Apart DEF LoadFromYaml, ICfg, Shape
<1>4. ASSUME NEW t \in Threads, LoadNext(t) PROVE ICfg'
  <2> DEFINE n == Head(fr[t].rest)[1]
             vs == FromStr(n, Head(fr[t].rest)[2])
             rest == Tail(fr[t].rest)
  <2>1. fr[t].pc = "load" /\ UNCHANGED <<datas, m_val, m_cbs, s_fun_id, heard, loads>>
    BY <1>4 DEF LoadNext
  <2>2. CASE n \in datas /\ vs # {}
    <3>1. \E m \in Names : \E v, r : Compare(t, m, v, r)
      BY <1>4, <2>2 DEF LoadNext, ICfg, Shape
    <3> QED
      BY <2>1, <3>1, CompareStep
  <2>3. CASE ~(n \in datas /\ vs # {})
    <3>1. fr' = [fr EXCEPT ![t] = Resume(rest)] /\ UNCHANGED overlap
      BY <1>4, <2>3 DEF LoadNext
    <3>2. fr'[t] = Resume(rest)
      BY <3>1 DEF ICfg, Shape, IsFn
    <3>3. Frame(Resume(rest)) /\ Resume(rest).pc \in {"idle", "load"}
      BY DEF Resume, Idle, Frame
    <3> HIDE DEF n, vs, rest
    <3> QED
      BY <2>1, <3>1, <3>2, <3>3, Apart DEF ICfg, Shape
  <2> QED
    BY <2>2, <2>3
<1>5. ASSUME NEW t \in Threads, NEW n \in Plain,
             addListener(t, n) \/ clearListener(t, n) \/ \E k \in 1..MaxKey : delListener(t, n, k)
      PROVE  ICfg'
  BY <1>5, RegisterStep
<1>6. ASSUME NEW t \in Threads, CfgStep(t) PROVE ICfg'
  BY <1>6, <1>1, <1>2, <1>3, <1>4, <1>5, GoesOnStep, AssignStep DEF CfgStep
<1> QED
  BY <1>6, CallStep, GoesOnStep DEF CfgNext

(* Log keeps the invariant of the configuration. *)
LEMMA LogStepICfg ==
  ASSUME ICfg, [Next]_vars
  PROVE  ICfg'
<1>1. CfgNext \/ UNCHANGED cfgVars
  <2>1. CASE UNCHANGED vars
    BY <2>1 DEF vars
  <2>2. ASSUME NEW t \in Threads, CfgStep(t) \/ RunListener(t) \/ ListenerStep(t) PROVE CfgNext
    <3>1. RunListener(t) => \E loop : Call(t, loop)
      BY DEF RunListener
    <3>2. ListenerStep(t) => \E point, loop : CallGoesOn(t, point, loop)
      BY DEF ListenerStep
    <3> QED
      BY <2>2, <3>1, <3>2 DEF CfgNext
  <2>3. ASSUME NEW t \in Threads, NEW n \in LoggerNames, NEW l \in Levels,
               LogEvent(t, n, l)
        PROVE  UNCHANGED cfgVars
    BY <2>3 DEF LogEvent
  <2>4. ASSUME NEW t \in Threads, LogLocked(t) \/ LogRoot(t) \/ LogRootLocked(t) \/ ToYaml(t) \/ ToYamlNext(t)
        PROVE  UNCHANGED cfgVars
    BY <2>4 DEF LogLocked, LogRoot, LogRootLocked, ToYaml, ToYamlNext
  <2>5. ASSUME NEW t \in Threads, NEW n \in LoggerNames, GetLogger(t, n) \/ Program(t, n)
        PROVE  UNCHANGED cfgVars
    BY <2>5 DEF GetLogger, Program
  <2> QED
    BY <2>1, <2>2, <2>3, <2>4, <2>5 DEF Next
<1>2. CASE UNCHANGED cfgVars
  BY <1>2 DEF cfgVars, ICfg, Shape, CalledWhileRegistered, Told, Changing
<1> QED
  BY <1>1, <1>2, CfgStepICfg

(* A listener is called only while it is registered, and knows the value   *)
(* the variable has once no change is in progress, unless changes of the   *)
(* variable overlapped: the two critical sections of setValue, and the     *)
(* locks of addListener, delListener and clearListener.                    *)
THEOREM ListenersCorrect == Spec => []ListenersExact
<1>1. ICfg => ListenersExact
  BY DEF ICfg, ListenersExact, HeardLast, Told
<1> QED
  BY InitICfg, LogStepICfg, <1>1, PTL DEF Spec, Init

-----------------------------------------------------------------------------
(* The inductive invariant of the loggers. *)

(* The values of "logs": a set of LogDefines with different names. *)
Files == STRING \cup {""}
NoName == ""
AppenderDefines == {a \in [type : {1, 2}, level : {UNKNOW}, formatter : Formatters, file : Files] :
                      a.type = 1 => a.file # NoName}
Defines == [name : LoggerNames \ Own, level : 0..FATAL, formatter : Formatters, appenders : Seq(AppenderDefines)]
Values == {S \in SUBSET Defines : \A d, e \in S : d.name = e.name => d = e}

Appenders == [type : {1, 2}, file : Files, m_level : {UNKNOW, DEBUG}, m_formatter : Formatters,
              m_hasFormatter : BOOLEAN]
Loggers == [m_level : 0..FATAL, m_formatter : Formatters, m_appenders : Seq(Appenders), m_root : BOOLEAN]
Events == {NoEvent} \cup [pc : {"lock", "root", "rootlock"}, logger : LoggerNames, level : Levels]
          \cup [pc : {"print"}, left : SUBSET LoggerNames]
Points == [at : {"level", "formatter", "clear", "add"}, d : Defines, i : Nat]

(* A logger that is written to has an appender that writes everything, or  *)
(* is none but the root.                                                   *)
LoggersOK ==
    /\ "root" \in DOMAIN m_loggers /\ DOMAIN m_loggers \subseteq LoggerNames
    /\ m_loggers \in [DOMAIN m_loggers -> Loggers]
    /\ \A n \in DOMAIN m_loggers : n # "root" => m_loggers[n].m_root
    /\ ~rootSet => m_loggers["root"].m_appenders # <<>>
    /\ NoEventLost /\ AppendersFormatted
EventsOK ==
    /\ ev \in [Threads -> Events]
    /\ \A t \in Threads : ev[t].pc \in {"lock", "root", "rootlock"} => ev[t].logger \in DOMAIN m_loggers

(* What a call holds; only the callback of "logs" has something to do. *)
CallOK(t) ==
    /\ fr[t].pc \in {"idle", "load", "call", "assign"}
    /\ fr[t].rest \in Seq(Members) /\ (fr[t].pc = "load" => fr[t].rest # <<>>)
    /\ Changing(t, "logs") => fr[t].v \in Values
    /\ InCallback(t) => fr[t].pc = "call" /\ fr[t].var = "logs"
    /\ fr[t].loop \subseteq {1, 2} \X Defines
    /\ fr[t].point # NoPoint =>
         /\ fr[t].point \in Points /\ fr[t].point.d.name \in DOMAIN m_loggers
         /\ fr[t].point.at = "add" => fr[t].point.i \in 1..Len(fr[t].point.d.appenders)
LogsOK == m_val["logs"] \in Values /\ m_cbs["logs"] = {1} /\ \A t \in Threads : CallOK(t)

(* The first k appenders of d are those of its logger; all of it is. *)
AddedTo(l, d, k) ==
    /\ l.m_level = d.level /\ Len(l.m_appenders) = k
    /\ \A i \in 1..k : l.m_appenders[i].type = d.appenders[i].type /\ l.m_appenders[i].file = d.appenders[i].file
AsDefined(d) == d.name \in DOMAIN m_loggers /\ AddedTo(m_loggers[d.name], d, Len(d.appenders))
Bare(n) == m_loggers[n].m_appenders = <<>>
NamesIn(value) == {d.name : d \in value}
Configured(value) ==
    /\ \A d \in value : AsDefined(d)
    /\ \A n \in DOMAIN m_loggers \ (Own \cup {"root"} \cup NamesIn(value)) : Bare(n)

(* How far the callback is with the logger at hand. *)
PointOK(point) ==
    LET l == m_loggers[point.d.name]
    IN  /\ point.at \in {"formatter", "clear"} => l.m_level = point.d.level
        /\ point.at = "add" => AddedTo(l, point.d, point.i - 1)

(* While a change of "logs" is in progress, the loggers are as the old     *)
(* value says, and once the callback began, every logger is done, at hand  *)
(* or left.                                                                *)
AtHand(t, n) == fr[t].point # NoPoint /\ fr[t].point.d.name = n
Begun(t) == ~(fr[t].pc = "call" /\ fr[t].todo # {})
BegunOK(t) ==
    /\ \A b \in fr[t].loop : IF b[1] = 1 THEN b[2] \in fr[t].v
                              ELSE b[2].name \notin NamesIn(fr[t].v) /\ b[2].appenders = <<>>
    /\ fr[t].point # NoPoint =>
         /\ fr[t].point.d \in fr[t].v \/ (fr[t].point.d.name \notin NamesIn(fr[t].v) /\ fr[t].point.d.appenders = <<>>)
         /\ PointOK(fr[t].point)
    /\ \A d \in fr[t].v : <<1, d>> \in fr[t].loop \/ AtHand(t, d.name) \/ AsDefined(d)
    /\ \A n \in DOMAIN m_loggers \ (Own \cup {"root"} \cup NamesIn(fr[t].v)) :
         (\E b \in fr[t].loop : b[2].name = n) \/ AtHand(t, n) \/ Bare(n)
Applied ==
    "logs" \notin overlap =>
        /\ (\A t \in Threads : ~Changing(t, "logs")) => Configured(m_val["logs"])
        /\ \A t \in Threads : Changing(t, "logs") =>
             IF Begun(t) THEN BegunOK(t) ELSE ~InCallback(t) /\ Configured(m_val["logs"])

ILog == ICfg /\ LoggersOK /\ EventsOK /\ LogsOK /\ Applied

-----------------------------------------------------------------------------
(* Recursive functions. *)

(* A set of naturals that is not empty has a least element. *)
LEMMA LeastElement ==
  ASSUME NEW T, T \subseteq Nat, T # {}
  PROVE  \E n \in T : \A m \in T : n <= m
<1>1. PICK R : R = OpToRel(<, Nat)
  OBVIOUS
<1>2. IsWellFoundedOn(R, Nat)
  BY <1>1, NatLessThanWellFounded
<1>3. \E n \in T : \A m \in T : ~(<<m, n>> \in R)
  BY <1>2, WFMin
<1>4. \A m, k \in Nat : m < k => <<m, k>> \in R
  BY <1>1 DEF OpToRel
<1>5. PICK n \in T : \A m \in T : ~(<<m, n>> \in R)
  BY <1>3
<1>6. \A m \in T : ~(m < n)
  BY <1>4, <1>5
<1> QED
  BY <1>6

(* What a function on 0..n by recursion is. *)
Recurs(f, n, a, g) == f[0] = a /\ \A i \in 1..n : f[i] = g[<<i, f[i - 1]>>]

(* It exists. *)
LEMMA Recursion ==
  ASSUME NEW S, NEW n \in Nat, NEW a \in S, NEW g \in [(1..n) \X S -> S]
  PROVE  \E f \in [0..n -> S] : Recurs(f, n, a, g)
<1> DEFINE Bad == {m \in 0..n : ~\E f \in [0..m -> S] : Recurs(f, m, a, g)}
<1> SUFFICES ASSUME Bad # {} PROVE FALSE
  OBVIOUS
<1>0. Bad \subseteq Nat
  OBVIOUS
<1>1. PICK m \in Bad : \A k \in Bad : m <= k
  <2> HIDE DEF Bad
  <2> QED
    BY <1>0, LeastElement
<1>2. m \in 0..n /\ ~\E f \in [0..m -> S] : Recurs(f, m, a, g)
  BY <1>1
<1>3. CASE m = 0
  <2>1. [i \in 0..0 |-> a] \in [0..0 -> S] /\ Recurs([i \in 0..0 |-> a], 0, a, g)
    BY DEF Recurs
  <2> QED
    BY <1>2, <1>3, <2>1
<1>4. CASE m > 0
  <2>1. PICK l \in 0..n : l = m - 1
    BY <1>2, <1>4
  <2>2. l \notin Bad
    BY <1>1, <1>2, <2>1
  <2>3. PICK f \in [0..l -> S] : Recurs(f, l, a, g)
    BY <2>2
  <2>4. m \in 1..n /\ f[l] \in S
    BY <1>2, <1>4, <2>1
  <2>5. g[<<m, f[l]>>] \in S
    BY <2>4
  <2>6. PICK h : h = [i \in 0..m |-> IF i <= l THEN f[i] ELSE g[<<m, f[l]>>]]
    OBVIOUS
  <2>7. h \in [0..m -> S]
    BY <1>2, <2>1, <2>5, <2>6
  <2>8. h[0] = a
    BY <1>2, <2>1, <2>3, <2>6 DEF Recurs
  <2>9. ASSUME NEW i \in 1..m PROVE h[i] = g[<<i, h[i - 1]>>]
    <3>1. CASE i <= l
      <4>1. h[i] = f[i] /\ h[i - 1] = f[i - 1] /\ i \in 1..l
        BY <1>2, <2>1, <2>6, <3>1
      <4> QED
        BY <2>3, <4>1 DEF Recurs
    <3>2. CASE i = m
      <4>1. h[i] = g[<<m, f[l]>>] /\ h[i - 1] = f[l]
        BY <1>2, <1>4, <2>1, <2>6, <3>2
      <4> QED
        BY <3>2, <4>1
    <3> QED
      BY <1>2, <2>1, <3>1, <3>2
  <2>10. Recurs(h, m, a, g)
    BY <2>8, <2>9 DEF Recurs
  <2> QED
    BY <1>2, <2>7, <2>10
<1> QED
  BY <1>2, <1>3, <1>4

(* The numbers of a set in their order, *)
Order(n, I) ==
    CHOOSE upto : upto = [i \in 0..n |-> IF i = 0 THEN <<>> ELSE IF i \in I THEN Append(upto[i - 1], i) ELSE upto[i - 1]]

(* are numbers of it. *)
LEMMA OrderedIs ==
  ASSUME NEW n \in Nat, NEW I
  PROVE  Ordered(n, I) \in Seq(I \cap (1..n))
<1>1. PICK S : S = Seq(I \cap (1..n))
  OBVIOUS
<1>2. PICK g : g = [x \in (1..n) \X S |-> IF x[1] \in I THEN Append(x[2], x[1]) ELSE x[2]]
  OBVIOUS
<1>3. ASSUME NEW i \in 1..n, NEW y \in S
      PROVE  g[<<i, y>>] = (IF i \in I THEN Append(y, i) ELSE y) /\ (IF i \in I THEN Append(y, i) ELSE y) \in S
  <2>1. PICK x : x = <<i, y>>
    OBVIOUS
  <2>2. x[1] = i /\ x[2] = y /\ x \in (1..n) \X S
    BY <2>1
  <2>3. g[x] = IF i \in I THEN Append(y, i) ELSE y
    BY <1>2, <2>2
  <2>4. i \in I => Append(y, i) \in S
    <3>1. i \in I => i \in I \cap (1..n)
      OBVIOUS
    <3> QED
      BY <1>1, <3>1, AppendProperties
  <2> QED
    BY <2>1, <2>3, <2>4
<1>4. g \in [(1..n) \X S -> S]
  <2>1. ASSUME NEW x \in (1..n) \X S PROVE (IF x[1] \in I THEN Append(x[2], x[1]) ELSE x[2]) \in S
    BY <1>3
  <2> QED
    BY <1>2, <2>1
<1>5. <<>> \in S
  BY <1>1, EmptySeq
<1>6. PICK f \in [0..n -> S] : Recurs(f, n, <<>>, g)
  BY <1>4, <1>5, Recursion
<1>7. ASSUME NEW i \in 0..n
      PROVE  f[i] = IF i = 0 THEN <<>> ELSE IF i \in I THEN Append(f[i - 1], i) ELSE f[i - 1]
  <2>1. CASE i = 0
    BY <1>6, <2>1 DEF Recurs
  <2>2. CASE i # 0
    <3>1. i \in 1..n /\ f[i - 1] \in S
      BY <1>6, <2>2
    <3>2. f[i] = g[<<i, f[i - 1]>>]
      BY <1>6, <3>1 DEF Recurs
    <3>3. PICK y \in S : y = f[i - 1]
      BY <3>1
    <3>4. g[<<i, y>>] = IF i \in I THEN Append(y, i) ELSE y
      BY <1>3, <3>1
    <3> QED
      BY <2>2, <3>2, <3>3, <3>4
  <2> QED
    BY <2>1, <2>2
<1>8. f = [i \in 0..n |-> IF i = 0 THEN <<>> ELSE IF i \in I THEN Append(f[i - 1], i) ELSE f[i - 1]]
  BY <1>6, <1>7
<1>9. PICK h : h = Order(n, I)
  OBVIOUS
<1>10. h = [i \in 0..n |-> IF i = 0 THEN <<>> ELSE IF i \in I THEN Append(h[i - 1], i) ELSE h[i - 1]]
  BY <1>8, <1>9 DEF Order
<1>11. Ordered(n, I) = h[n]
  BY <1>9 DEF Ordered, Order
<1>12. \A i \in 0..n : h[i] \in S
  <2> DEFINE Bad == {i \in 0..n : h[i] \notin S}
  <2> SUFFICES ASSUME Bad # {} PROVE FALSE
    OBVIOUS
  <2>1. Bad \subseteq Nat
    OBVIOUS
  <2>2. PICK i \in Bad : \A k \in Bad : i <= k
    <3> HIDE DEF Bad
    <3> QED
      BY <2>1, LeastElement
  <2>3. i \in 0..n /\ h[i] \notin S
    BY <2>2
  <2>4. i # 0
    BY <1>5, <1>10, <2>3
  <2>5. i \in 1..n /\ i - 1 \in 0..n /\ i - 1 \notin Bad
    BY <2>2, <2>3, <2>4
  <2>6. PICK y \in S : y = h[i - 1]
    BY <2>5
  <2>7. h[i] = IF i \in I THEN Append(y, i) ELSE y
    BY <1>10, <2>3, <2>4, <2>6
  <2> QED
    BY <1>3, <2>3, <2>5, <2>7
<1> QED
  BY <1>1, <1>11, <1>12

(* What is kept of a sequence is a sequence of elements at such places. *)
LEMMA KeptIs ==
  ASSUME NEW S, NEW s \in Seq(S), NEW I
  PROVE  /\ Kept(s, I) \in Seq(S)
         /\ \A k \in 1..Len(Kept(s, I)) : \E i \in I \cap (1..Len(s)) : Kept(s, I)[k] = s[i]
<1>1. PICK n \in Nat : n = Len(s)
  BY LenProperties
<1>2. PICK at \in Seq(I \cap (1..n)) : at = Ordered(n, I)
  BY OrderedIs
<1>3. PICK m \in Nat : m = Len(at)
  BY LenProperties
<1>4. PICK r : r = [k \in 1..m |-> s[at[k]]]
  OBVIOUS
<1>5. Kept(s, I) = r
  BY <1>1, <1>2, <1>3, <1>4 DEF Kept
<1>6. ASSUME NEW k \in 1..m PROVE at[k] \in I \cap (1..n) /\ r[k] = s[at[k]] /\ s[at[k]] \in S
  <2>1. at[k] \in I \cap (1..n)
    BY <1>2, <1>3, ElementOfSeq
  <2>2. s[at[k]] \in S
    BY <1>1, <2>1, ElementOfSeq
  <2> QED
    BY <1>4, <2>1, <2>2
<1>7. r \in [1..m -> S]
  BY <1>4, <1>6
<1>8. r \in Seq(S) /\ Len(r) = m
  BY <1>7, SeqDef
<1> QED
  BY <1>1, <1>5, <1>6, <1>8

-----------------------------------------------------------------------------
(* The conversions. *)

(* LogLevel::FromString gives a level. *)
LEMMA LevelType == \A str : FromString(str) \in 0..FATAL
<1> TAKE str
<1>1. CASE \E l \in DEBUG..FATAL : str \in {LevelNames[l], LowerNames[l]}
  <2> DEFINE P(l) == str \in {LevelNames[l], LowerNames[l]}
  <2>1. (CHOOSE l \in DEBUG..FATAL : P(l)) \in DEBUG..FATAL
    BY <1>1
  <2> QED
    BY <1>1, <2>1 DEF FromString, DEBUG, FATAL
<1>2. CASE ~\E l \in DEBUG..FATAL : str \in {LevelNames[l], LowerNames[l]}
  BY <1>2 DEF FromString, UNKNOW, FATAL
<1> QED
  BY <1>1, <1>2

(* An appender of a document is read as a LogAppenderDefine, *)
LEMMA AppenderType ==
  ASSUME NEW a \in AppenderNodes, FileOrStdout(a)
  PROVE  AppenderFromYaml(a) \in AppenderDefines
<1>0. a.formatter \in Formatters /\ a.file \in STRING
  BY DEF AppenderNodes
<1>1. a.formatter \in Formatters /\ a.file \in Files
  BY <1>0 DEF Files
<1>2. CASE a.type = "FileLogAppender"
  <2>1. AppenderFromYaml(a) = [type |-> 1, level |-> UNKNOW, formatter |-> a.formatter, file |-> a.file]
    BY <1>2 DEF AppenderFromYaml
  <2>2. a.file # NoName
    BY <1>2, Zenon DEF FileOrStdout, NoName
  <2>3. PICK r : r = AppenderFromYaml(a)
    OBVIOUS
  <2>4. r \in [type : {1, 2}, level : {UNKNOW}, formatter : Formatters, file : Files] /\ r.file # NoName
    BY <1>1, <2>1, <2>2, <2>3
  <2> QED
    BY <2>3, <2>4 DEF AppenderDefines
<1>3. CASE a.type # "FileLogAppender"
  <2>1. PICK none \in Files : AppenderFromYaml(a) = [type |-> 2, level |-> UNKNOW, formatter |-> a.formatter, file |-> none]
    BY <1>3 DEF AppenderFromYaml, Files
  <2>2. PICK r : r = AppenderFromYaml(a)
    OBVIOUS
  <2>3. r \in [type : {1, 2}, level : {UNKNOW}, formatter : Formatters, file : Files] /\ r.type = 2
    BY <1>1, <2>1, <2>2
  <2> QED
    BY <2>2, <2>3 DEF AppenderDefines
<1> QED
  BY <1>2, <1>3

(* What is known of a logger's appenders are nodes of a type that is read, *)
LEMMA KnownIs ==
  ASSUME NEW y \in LoggerNodes
  PROVE  /\ Known(y) \in Seq(AppenderNodes) /\ Len(Known(y)) \in Nat
         /\ \A k \in 1..Len(Known(y)) : Known(y)[k] \in AppenderNodes /\ FileOrStdout(Known(y)[k])
<1>1. PICK aps \in Seq(AppenderNodes) : aps = y.appenders
  BY DEF LoggerNodes
<1>2. PICK I : I = {i \in 1..Len(aps) : FileOrStdout(aps[i])}
  OBVIOUS
<1>3. PICK known : known = Known(y)
  OBVIOUS
<1>4. known = Kept(aps, I)
  BY <1>1, <1>2, <1>3 DEF Known
<1>5. /\ known \in Seq(AppenderNodes)
      /\ \A k \in 1..Len(known) : \E i \in I \cap (1..Len(aps)) : known[k] = aps[i]
  BY <1>4, KeptIs
<1>6. ASSUME NEW k \in 1..Len(known) PROVE FileOrStdout(known[k])
  <2>1. PICK i \in I \cap (1..Len(aps)) : known[k] = aps[i]
    BY <1>5
  <2>2. FileOrStdout(aps[i])
    BY <1>2, <2>1
  <2> QED
    BY <2>1, <2>2
<1> QED
  BY <1>3, <1>5, <1>6, LenProperties, ElementOfSeq

(* and a logger is read as a LogDefine. *)
LEMMA DefineType ==
  ASSUME NEW y \in LoggerNodes, y.name # ""
  PROVE  DefineFromYaml(y) \in Defines /\ DefineFromYaml(y).name = y.name
<1> DEFINE known == Known(y)
           a(i) == AppenderFromYaml(known[i])
<1>a. Len(known) \in Nat /\ \A i \in 1..Len(known) : known[i] \in AppenderNodes /\ FileOrStdout(known[i])
  BY KnownIs
<1>1. \A i \in 1..Len(known) : a(i) \in AppenderDefines
  BY <1>a, AppenderType
<1> HIDE DEF a, known
<1>2. [i \in 1..Len(known) |-> a(i)] \in Seq(AppenderDefines)
  <2>1. [i \in 1..Len(known) |-> a(i)] \in [1..Len(known) -> AppenderDefines]
    BY <1>1
  <2> QED
    BY <1>a, <2>1, SeqDef
<1>3. y.name \in LoggerNames \ Own /\ y.formatter \in Formatters
  BY DEF LoggerNodes
<1> QED
  BY <1>2, <1>3, LevelType DEF DefineFromYaml, Defines, a, known

(* What a document says of "logs" is a set of LogDefines, one per name. *)
LEMMA LogsType ==
  ASSUME NEW m \in Members, m[1] = "logs", NEW value \in FromStr("logs", m[2])
  PROVE  value \in Values
<1> DEFINE node == m[2]
           define(y) == IF y.name = "" THEN {} ELSE {DefineFromYaml(y)}
           results == [i \in 1..Len(node) |-> define(node[i])]
<1>1. node \in Seq(LoggerNodes) /\ value \in LogsFromYaml(node)
  BY DocsAssumption
<1>2. PICK vec \in Elements(results) : value = Distinct(vec, [i \in DOMAIN vec |-> vec[i].name])
  BY <1>1 DEF LogsFromYaml
<1>3. /\ \A i \in 1..Len(node) : results[i] # {}
      /\ vec = [i \in 1..Len(node) |-> CHOOSE v \in results[i] : TRUE]
  BY <1>2 DEF Elements
<1>4. ASSUME NEW i \in 1..Len(node) PROVE vec[i] \in Defines /\ vec[i].name = node[i].name
  <2>1. results[i] = {DefineFromYaml(node[i])} /\ node[i].name # ""
    BY <1>3
  <2>2. vec[i] = DefineFromYaml(node[i])
    BY <1>3, <2>1
  <2>3. node[i] \in LoggerNodes
    BY <1>1, ElementOfSeq
  <2> QED
    BY <2>1, <2>2, <2>3, DefineType
<1> HIDE DEF results, node
<1>5. DOMAIN vec = 1..Len(node) /\ Len(node) \in Nat
  BY <1>1, <1>3
<1>6. value = {vec[i] : i \in {j \in 1..Len(node) : \A k \in 1..j-1 : vec[k].name # vec[j].name}}
  <2>1. \A j \in 1..Len(node) : \A k \in 1..j-1 : k \in 1..Len(node)
    BY <1>5
  <2> QED
    BY <1>2, <1>5, <2>1 DEF Distinct
<1>7. value \subseteq Defines
  BY <1>4, <1>6
<1>8. ASSUME NEW d \in value, NEW e \in value, d.name = e.name PROVE d = e
  <2>1. PICK i \in 1..Len(node) : d = vec[i] /\ \A k \in 1..i-1 : vec[k].name # vec[i].name
    BY <1>6
  <2>2. PICK j \in 1..Len(node) : e = vec[j] /\ \A k \in 1..j-1 : vec[k].name # vec[j].name
    BY <1>6
  <2>3. ~(i < j) /\ ~(j < i)
    BY <1>5, <1>8, <2>1, <2>2
  <2> QED
    BY <1>5, <2>1, <2>2, <2>3
<1> QED
  BY <1>7, <1>8 DEF Values

-----------------------------------------------------------------------------
(* What the operations do to one logger. *)
LoggerOK(n, l) ==
    /\ l \in Loggers /\ (n # "root" => l.m_root)
    /\ \A i \in 1..Len(l.m_appenders) :
         ~l.m_appenders[i].m_hasFormatter => l.m_appenders[i].m_formatter = l.m_formatter

(* The fields of a logger, and a logger from its fields. *)
LEMMA Fields ==
  ASSUME NEW l \in Loggers
  PROVE  /\ l = [m_level |-> l.m_level, m_formatter |-> l.m_formatter, m_appenders |-> l.m_appenders, m_root |-> l.m_root]
         /\ l.m_level \in 0..FATAL /\ l.m_formatter \in Formatters /\ l.m_appenders \in Seq(Appenders)
         /\ l.m_root \in BOOLEAN
  BY DEF Loggers

Logger(level, p, aps, r) == [m_level |-> level, m_formatter |-> p, m_appenders |-> aps, m_root |-> r]
(* A logger that is made of good parts is good. *)
LEMMA Builds ==
  ASSUME NEW n, NEW level \in 0..FATAL, NEW p \in Formatters, NEW aps \in Seq(Appenders), NEW r \in BOOLEAN,
         n # "root" => r,
         \A i \in 1..Len(aps) : ~aps[i].m_hasFormatter => aps[i].m_formatter = p
  PROVE  LoggerOK(n, Logger(level, p, aps, r))
<1>1. Logger(level, p, aps, r) \in Loggers
  BY DEF Logger, Loggers
<1>2. /\ Logger(level, p, aps, r).m_formatter = p /\ Logger(level, p, aps, r).m_appenders = aps
      /\ Logger(level, p, aps, r).m_root = r
  BY DEF Logger
<1> QED
  BY <1>1, <1>2 DEF LoggerOK

(* A new logger has no appenders, *)
LEMMA NewOK == \A n : LoggerOK(n, NewLogger(TRUE)) /\ NewLogger(TRUE).m_appenders = <<>>
  BY LogAssumption DEF LoggerOK, NewLogger, Loggers, DEBUG, FATAL

(* setLevel leaves them as they are, *)
LEMMA LevelOK ==
  ASSUME NEW n, NEW l, LoggerOK(n, l), NEW level \in 0..FATAL
  PROVE  /\ LoggerOK(n, [l EXCEPT !.m_level = level])
         /\ [l EXCEPT !.m_level = level].m_level = level
         /\ [l EXCEPT !.m_level = level].m_appenders = l.m_appenders
  BY DEF LoggerOK, Loggers

(* setFormatter too, but for the formatters of those that have none, *)
Reformatted(l, p) ==
    [l EXCEPT !.m_formatter = p,
        !.m_appenders = [i \in 1..Len(@) |-> IF @[i].m_hasFormatter THEN @[i] ELSE [@[i] EXCEPT !.m_formatter = p]]]
Alike(l, m) ==
    /\ l.m_level = m.m_level /\ Len(l.m_appenders) = Len(m.m_appenders)
    /\ \A i \in 1..Len(m.m_appenders) : /\ l.m_appenders[i].type = m.m_appenders[i].type
                                         /\ l.m_appenders[i].file = m.m_appenders[i].file
(* Logger::setFormatter keeps the logger good, and its appenders' kinds. *)
LEMMA FormatterOK ==
  ASSUME NEW n, NEW l, LoggerOK(n, l), NEW p \in Formatters
  PROVE  LoggerOK(n, Reformatted(l, p)) /\ Alike(Reformatted(l, p), l)
<1> DEFINE ap(i) == IF l.m_appenders[i].m_hasFormatter THEN l.m_appenders[i]
                    ELSE [l.m_appenders[i] EXCEPT !.m_formatter = p]
           aps == [i \in 1..Len(l.m_appenders) |-> ap(i)]
           m == [l EXCEPT !.m_formatter = p, !.m_appenders = aps]
<1>1. PICK level, f, s, r : l = [m_level |-> level, m_formatter |-> f, m_appenders |-> s, m_root |-> r]
  BY Fields DEF LoggerOK
<1>2. level \in 0..FATAL /\ s \in Seq(Appenders) /\ Len(s) \in Nat /\ r \in BOOLEAN /\ (n # "root" => r) /\ l.m_appenders = s
  BY <1>1, Fields DEF LoggerOK
<1>3. ASSUME NEW i \in 1..Len(s)
      PROVE  /\ ap(i) \in Appenders /\ ap(i).type = s[i].type /\ ap(i).file = s[i].file
             /\ ~ap(i).m_hasFormatter => ap(i).m_formatter = p
  <2>1. s[i] \in Appenders
    BY <1>2
  <2> QED
    BY <1>2, <2>1 DEF Appenders
<1> HIDE DEF ap
<1>4. aps \in Seq(Appenders)
  BY <1>2, <1>3, IsASeq
<1>5. Len(aps) = Len(s) /\ \A i \in 1..Len(s) : aps[i] = ap(i)
  BY <1>2
<1> HIDE DEF aps
<1>6. m = Logger(level, p, aps, r)
  <2>1. PICK q : q = [l EXCEPT !.m_formatter = p]
    OBVIOUS
  <2>2. q = [m_level |-> level, m_formatter |-> p, m_appenders |-> s, m_root |-> r]
    BY <1>1, <2>1
  <2>3. [q EXCEPT !.m_appenders = aps] = Logger(level, p, aps, r)
    BY <2>2 DEF Logger
  <2> QED
    BY <2>1, <2>3
<1>7. LoggerOK(n, m)
  BY <1>2, <1>3, <1>4, <1>5, <1>6, Builds
<1>8. m.m_level = l.m_level /\ m.m_appenders = aps
  BY <1>1, <1>6 DEF Logger
<1> QED
  <2>1. m = Reformatted(l, p)
    BY DEF Reformatted, aps, ap
  <2>2. Alike(m, l)
    BY <1>2, <1>3, <1>5, <1>8 DEF Alike
  <2> HIDE DEF m
  <2> QED
    BY <1>7, <2>1, <2>2

(* clearAppenders removes them, *)
LEMMA ClearOK ==
  ASSUME NEW n, NEW l, LoggerOK(n, l)
  PROVE  /\ LoggerOK(n, [l EXCEPT !.m_appenders = <<>>])
         /\ [l EXCEPT !.m_appenders = <<>>].m_level = l.m_level
         /\ [l EXCEPT !.m_appenders = <<>>].m_appenders = <<>>
<1>1. PICK level, f, s, r : l = [m_level |-> level, m_formatter |-> f, m_appenders |-> s, m_root |-> r]
  BY Fields DEF LoggerOK
<1>2. level \in 0..FATAL /\ f \in Formatters /\ r \in BOOLEAN /\ (n # "root" => r)
  BY <1>1, Fields DEF LoggerOK
<1>3. [l EXCEPT !.m_appenders = <<>>] = Logger(level, f, <<>>, r)
  <2>1. \A e : [l EXCEPT !.m_appenders = e] = Logger(level, f, e, r)
    BY <1>1 DEF Logger
  <2> QED
    BY <2>1
<1>4. LoggerOK(n, Logger(level, f, <<>>, r))
  <2>1. PICK e : e = <<>>
    OBVIOUS
  <2>2. e \in Seq(Appenders) /\ \A i \in 1..Len(e) : ~e[i].m_hasFormatter => e[i].m_formatter = f
    BY <2>1
  <2>3. LoggerOK(n, Logger(level, f, e, r))
    BY <1>2, <2>2, Builds
  <2> QED
    BY <2>1, <2>3
<1> QED
  BY <1>1, <1>3, <1>4 DEF Logger

(* addAppender gives an appender without a formatter the logger's, *)
NewAppenders == [type : {1, 2}, file : Files, m_level : {UNKNOW, DEBUG}, m_formatter : Formatters \cup {NullFormatter},
                 m_hasFormatter : BOOLEAN]
(* Logger::addAppender keeps the logger good, with one appender more. *)
LEMMA AddOK ==
  ASSUME NEW n, NEW l, LoggerOK(n, l), NEW ap \in NewAppenders,
         ap.m_hasFormatter <=> ap.m_formatter # NullFormatter
  PROVE  LET with == IF ap.m_formatter = NullFormatter THEN [ap EXCEPT !.m_formatter = l.m_formatter] ELSE ap
             m == [l EXCEPT !.m_appenders = Append(@, with)]
         IN  /\ LoggerOK(n, m) /\ m.m_level = l.m_level
             /\ m.m_appenders = Append(l.m_appenders, with) /\ with.type = ap.type /\ with.file = ap.file
<1> DEFINE with == IF ap.m_formatter = NullFormatter THEN [ap EXCEPT !.m_formatter = l.m_formatter] ELSE ap
<1>1. l \in Loggers /\ l.m_appenders \in Seq(Appenders) /\ l.m_formatter \in Formatters
  BY DEF LoggerOK, Loggers
<1>2. /\ with \in Appenders /\ with.type = ap.type /\ with.file = ap.file
      /\ ~with.m_hasFormatter => with.m_formatter = l.m_formatter
  BY <1>1 DEF NewAppenders, Appenders
<1> HIDE DEF with
<1>3. [l EXCEPT !.m_appenders = Append(@, with)] =
        [m_level |-> l.m_level, m_formatter |-> l.m_formatter, m_appenders |-> Append(l.m_appenders, with), m_root |-> l.m_root]
  BY <1>1 DEF Loggers
<1>4. LoggerOK(n, [l EXCEPT !.m_appenders = Append(@, with)])
  BY <1>1, <1>2, <1>3 DEF LoggerOK, Loggers
<1>5. /\ [l EXCEPT !.m_appenders = Append(@, with)].m_level = l.m_level
      /\ [l EXCEPT !.m_appenders = Append(@, with)].m_appenders = Append(l.m_appenders, with)
  BY <1>3
<1> QED
  BY <1>2, <1>4, <1>5 DEF with

(* and delAppender of the first one keeps the others. *)
LEMMA DelOK ==
  ASSUME NEW n, NEW l, LoggerOK(n, l), l.m_appenders # <<>>
  PROVE  LoggerOK(n, [l EXCEPT !.m_appenders = RemoveAt(@, 1)])
<1>1. PICK level, f, s, r : l = [m_level |-> level, m_formatter |-> f, m_appenders |-> s, m_root |-> r]
  BY Fields DEF LoggerOK
<1>2. /\ level \in 0..FATAL /\ f \in Formatters /\ s \in Seq(Appenders) /\ r \in BOOLEAN /\ (n # "root" => r) /\ s # <<>>
      /\ \A i \in 1..Len(s) : ~s[i].m_hasFormatter => s[i].m_formatter = f
  BY <1>1, Fields DEF LoggerOK
<1>3. RemoveAt(s, 1) = Tail(s)
  BY <1>2 DEF RemoveAt
<1>5. PICK tail : tail = Tail(s)
  OBVIOUS
<1>4. [l EXCEPT !.m_appenders = RemoveAt(@, 1)] = Logger(level, f, tail, r)
  <2>1. \A e : [l EXCEPT !.m_appenders = e] = Logger(level, f, e, r)
    BY <1>1 DEF Logger
  <2>2. l.m_appenders = s
    BY <1>1
  <2>3. RemoveAt(l.m_appenders, 1) = tail
    BY <1>3, <1>5, <2>2
  <2>4. [l EXCEPT !.m_appenders = RemoveAt(l.m_appenders, 1)] = [l EXCEPT !.m_appenders = tail]
    BY <2>3, Zenon
  <2> QED
    BY <2>1, <2>4, Zenon
<1>6. tail \in Seq(Appenders) /\ \A i \in 1..Len(tail) : ~tail[i].m_hasFormatter => tail[i].m_formatter = f
  BY <1>2, <1>5
<1>7. LoggerOK(n, Logger(level, f, tail, r))
  BY <1>2, <1>6, Builds
<1> QED
  BY <1>4, <1>7, Zenon

(* The appender of a LogAppenderDefine. *)
LEMMA DefinedOK ==
  ASSUME NEW a \in AppenderDefines
  PROVE  LET ap == DefinedAppender(a)
         IN  /\ ap \in NewAppenders /\ (ap.m_hasFormatter <=> ap.m_formatter # NullFormatter)
             /\ ap.type = a.type /\ ap.file = a.file
  BY DEF DefinedAppender, NewAppender, AppenderDefines, NewAppenders, Formatters

-----------------------------------------------------------------------------
(* What the operations do to the loggers. *)

(* Logger n becomes l, the others stay. *)
SetTo(n, l) == m_loggers' = [x \in DOMAIN m_loggers \cup {n} |-> IF x = n THEN l ELSE m_loggers[x]]

(* Each logger is good by itself. *)
LEMMA OneLogger ==
  ASSUME LoggersOK, NEW n \in DOMAIN m_loggers
  PROVE  LoggerOK(n, m_loggers[n])
  BY DEF LoggersOK, LoggerOK, AppendersFormatted

(* A change of one logger. *)
LEMMA SetStep ==
  ASSUME LoggersOK, NEW n \in LoggerNames, NEW l, LoggerOK(n, l), SetTo(n, l), UNCHANGED lost,
         rootSet => rootSet', n = "root" /\ l.m_appenders = <<>> => rootSet'
  PROVE  LoggersOK'
<1>1. /\ DOMAIN m_loggers' = DOMAIN m_loggers \cup {n}
      /\ m_loggers'[n] = l /\ \A x \in DOMAIN m_loggers : x # n => m_loggers'[x] = m_loggers[x]
  BY DEF SetTo
<1>2. \A x \in DOMAIN m_loggers' : LoggerOK(x, m_loggers'[x])
  BY <1>1, OneLogger
<1>3. m_loggers' \in [DOMAIN m_loggers' -> Loggers]
  BY <1>1, <1>2 DEF LoggerOK, SetTo
<1>4. (\A x \in DOMAIN m_loggers' : x # "root" => m_loggers'[x].m_root)
  BY <1>2 DEF LoggerOK
<1>5. AppendersFormatted'
  <2> SUFFICES ASSUME NEW x \in DOMAIN m_loggers', NEW i \in 1..Len(m_loggers'[x].m_appenders)
               PROVE  /\ m_loggers'[x].m_appenders[i].m_formatter # NullFormatter
                      /\ ~m_loggers'[x].m_appenders[i].m_hasFormatter =>
                            m_loggers'[x].m_appenders[i].m_formatter = m_loggers'[x].m_formatter
    BY DEF AppendersFormatted
  <2>1. LoggerOK(x, m_loggers'[x])
    BY <1>2
  <2>2. m_loggers'[x].m_appenders \in Seq(Appenders)
    BY <2>1, Fields DEF LoggerOK
  <2>3. m_loggers'[x].m_appenders[i] \in Appenders
    BY <2>2
  <2>4. m_loggers'[x].m_appenders[i].m_formatter \in Formatters
    BY <2>3 DEF Appenders
  <2> QED
    BY <2>1, <2>4 DEF LoggerOK, Formatters
<1>6. ~rootSet' => m_loggers'["root"].m_appenders # <<>>
  BY <1>1 DEF LoggersOK
<1> QED
  BY <1>1, <1>3, <1>4, <1>5, <1>6 DEF LoggersOK, NoEventLost

(* A change of a logger that exists leaves the others alone. *)
LEMMA ChangeIsSet ==
  ASSUME LoggersOK, NEW n \in DOMAIN m_loggers, NEW l, Change(n, l)
  PROVE  SetTo(n, l)
  BY DEF Change, SetTo, LoggersOK

(* LoggerManager::getLogger *)
LEMMA GetStep ==
  ASSUME LoggersOK, NEW n \in LoggerNames, getLogger(n)
  PROVE  \E l : /\ SetTo(n, l) /\ LoggerOK(n, l)
                /\ IF Exists(n) THEN l = m_loggers[n] ELSE l.m_appenders = <<>>
<1>1. CASE Exists(n)
  <2>1. SetTo(n, m_loggers[n])
    <3>1. m_loggers' = m_loggers /\ n \in DOMAIN m_loggers
      BY <1>1 DEF getLogger, Exists
    <3>2. m_loggers = [x \in DOMAIN m_loggers |-> m_loggers[x]]
      BY DEF LoggersOK
    <3> QED
      BY <3>1, <3>2 DEF SetTo
  <2> QED
    BY <1>1, <2>1, OneLogger DEF Exists
<1>2. CASE ~Exists(n)
  BY <1>2, NewOK DEF getLogger, SetTo
<1> QED
  BY <1>1, <1>2

(* Logger::setLevel *)
LEMMA LevelStep ==
  ASSUME LoggersOK, NEW n \in DOMAIN m_loggers, NEW level \in 0..FATAL, setLevel(n, level)
  PROVE  \E l : /\ SetTo(n, l) /\ LoggerOK(n, l)
                /\ l.m_level = level /\ l.m_appenders = m_loggers[n].m_appenders
<1>1. LoggerOK(n, m_loggers[n])
  BY OneLogger
<1> QED
  <2> DEFINE l == [m_loggers[n] EXCEPT !.m_level = level]
  <2>1. Change(n, l)
    BY DEF setLevel
  <2>2. LoggerOK(n, l) /\ l.m_level = level /\ l.m_appenders = m_loggers[n].m_appenders
    BY <1>1, LevelOK
  <2> HIDE DEF l
  <2> QED
    BY <2>1, <2>2, ChangeIsSet

(* Logger::setFormatter *)
LEMMA FormatterStep ==
  ASSUME LoggersOK, NEW n \in DOMAIN m_loggers, NEW p \in Formatters, setFormatter(n, p)
  PROVE  \E l : SetTo(n, l) /\ LoggerOK(n, l) /\ Alike(l, m_loggers[n])
<1>1. LoggerOK(n, m_loggers[n])
  BY OneLogger
<1>2. CASE isError(p)
  BY <1>1, <1>2, ChangeIsSet DEF setFormatter, Alike
<1>3. CASE ~isError(p)
  <2>1. Change(n, Reformatted(m_loggers[n], p))
    BY <1>3 DEF setFormatter, Reformatted
  <2> QED
    BY <1>1, <2>1, FormatterOK, ChangeIsSet
<1> QED
  BY <1>2, <1>3

(* Logger::clearAppenders *)
LEMMA ClearStep ==
  ASSUME LoggersOK, NEW n \in DOMAIN m_loggers, clearAppenders(n)
  PROVE  \E l : SetTo(n, l) /\ LoggerOK(n, l) /\ l.m_level = m_loggers[n].m_level /\ l.m_appenders = <<>>
<1>1. LoggerOK(n, m_loggers[n])
  BY OneLogger
<1> QED
  BY <1>1, ClearOK, ChangeIsSet DEF clearAppenders

(* Logger::addAppender *)
LEMMA AddStep ==
  ASSUME LoggersOK, NEW n \in DOMAIN m_loggers, NEW ap \in NewAppenders,
         ap.m_hasFormatter <=> ap.m_formatter # NullFormatter, addAppender(n, ap)
  PROVE  \E l, with : /\ SetTo(n, l) /\ LoggerOK(n, l) /\ l.m_level = m_loggers[n].m_level
                      /\ l.m_appenders = Append(m_loggers[n].m_appenders, with)
                      /\ with.type = ap.type /\ with.file = ap.file
<1>1. LoggerOK(n, m_loggers[n])
  BY OneLogger
<1> DEFINE with == IF ap.m_formatter = NullFormatter THEN [ap EXCEPT !.m_formatter = m_loggers[n].m_formatter] ELSE ap
           l == [m_loggers[n] EXCEPT !.m_appenders = Append(@, with)]
<1>2. Change(n, l)
  BY DEF addAppender
<1>3. /\ LoggerOK(n, l) /\ l.m_level = m_loggers[n].m_level
      /\ l.m_appenders = Append(m_loggers[n].m_appenders, with) /\ with.type = ap.type /\ with.file = ap.file
  BY <1>1, AddOK
<1> HIDE DEF l, with
<1>4. SetTo(n, l)
  BY <1>2, ChangeIsSet
<1> QED
  BY <1>3, <1>4

(* Logger::delAppender *)
LEMMA DelStep ==
  ASSUME LoggersOK, NEW n \in DOMAIN m_loggers, m_loggers[n].m_appenders # <<>>, delAppender(n, 1)
  PROVE  \E l : SetTo(n, l) /\ LoggerOK(n, l)
<1>1. LoggerOK(n, m_loggers[n])
  BY OneLogger
<1> QED
  BY <1>1, DelOK, ChangeIsSet DEF delAppender

-----------------------------------------------------------------------------
(* The events. *)

(* What a logger with appenders gets is written: they all have the lowest  *)
(* level or none.                                                          *)
LEMMA Reaches ==
  ASSUME LoggersOK, NEW n \in DOMAIN m_loggers, m_loggers[n].m_appenders # <<>>, NEW level \in Levels
  PROVE  ~Unwritten(n, level)
<1>1. m_loggers[n].m_appenders \in Seq(Appenders)
  BY OneLogger, Fields DEF LoggerOK
<1>2. 1 \in 1..Len(m_loggers[n].m_appenders) /\ m_loggers[n].m_appenders[1] \in Appenders
  BY <1>1
<1>3. m_loggers[n].m_appenders[1].m_level \in {UNKNOW, DEBUG}
  BY <1>2 DEF Appenders
<1>4. level >= m_loggers[n].m_appenders[1].m_level
  BY <1>3, LogAssumption DEF UNKNOW, DEBUG, FATAL
<1> QED
  BY <1>2, <1>4 DEF Unwritten, Writes

(* While the configuration and the loggers stay, so does what is said of them. *)
LEMMA Stays ==
  ASSUME LogsOK, Applied, UNCHANGED <<cfgVars, m_loggers>>
  PROVE  LogsOK' /\ Applied'
<1>1. LogsOK'
  BY DEF cfgVars, LogsOK, CallOK, Changing, InCallback
<1>2. Applied'
  BY DEF cfgVars, Applied, Changing, InCallback, Begun, BegunOK, PointOK, AtHand, Configured, AsDefined, Bare
<1> QED
  BY <1>1, <1>2

(* A thread turns to an event, or to none. *)
Turns(t) == \E e \in Events : /\ e.pc \in {"lock", "root", "rootlock"} => e.logger \in DOMAIN m_loggers
                              /\ ev' = [ev EXCEPT ![t] = e]
(* The events stay well formed. *)
LEMMA TurnsOK ==
  ASSUME EventsOK, NEW t \in Threads, Turns(t), UNCHANGED m_loggers
  PROVE  EventsOK'
<1>1. PICK e \in Events : /\ e.pc \in {"lock", "root", "rootlock"} => e.logger \in DOMAIN m_loggers
                          /\ ev' = [ev EXCEPT ![t] = e]
  BY DEF Turns
<1>2. ev' \in [Threads -> Events] /\ ev'[t] = e /\ \A u \in Threads : u # t => ev'[u] = ev[u]
  BY <1>1 DEF EventsOK
<1> QED
  BY <1>1, <1>2 DEF EventsOK

(* What an event holds. *)
LEMMA EventFields ==
  ASSUME EventsOK, NEW t \in Threads
  PROVE  /\ ev[t].pc \in {"lock", "root", "rootlock"} =>
              /\ ev[t] \in [pc : {"lock", "root", "rootlock"}, logger : LoggerNames, level : Levels]
              /\ ev[t].logger \in DOMAIN m_loggers /\ ev[t].level \in Levels
         /\ ev[t].pc = "print" => ev[t] \in [pc : {"print"}, left : SUBSET LoggerNames]
  BY DEF EventsOK, Events, NoEvent

(* A thread is done with its event, or goes on with it. *)
LEMMA TurnsDone ==
  ASSUME NEW t \in Threads, ev' = [ev EXCEPT ![t] = NoEvent]
  PROVE  Turns(t)
<1>1. NoEvent \in Events /\ NoEvent.pc = "none"
  BY DEF Events, NoEvent
<1> QED
  BY <1>1 DEF Turns
(* It goes on to the root logger. *)
LEMMA TurnsOn ==
  ASSUME EventsOK, NEW t \in Threads, ev[t].pc \in {"lock", "root", "rootlock"},
         NEW pc \in {"root", "rootlock"}, ev' = [ev EXCEPT ![t].pc = pc]
  PROVE  Turns(t)
<1>1. PICK e : e = [ev[t] EXCEPT !.pc = pc]
  OBVIOUS
<1>2. e \in [pc : {"lock", "root", "rootlock"}, logger : LoggerNames, level : Levels] /\ e.logger \in DOMAIN m_loggers
  BY <1>1, EventFields
<1>3. e \in Events
  BY <1>2 DEF Events
<1>4. ev' = [ev EXCEPT ![t] = e]
  BY <1>1
<1> QED
  BY <1>2, <1>3, <1>4 DEF Turns

(* The steps of logging and printing. *)
EventSteps(t) ==
    \/ \E n \in LoggerNames, l \in Levels : LogEvent(t, n, l)
    \/ LogLocked(t) \/ LogRoot(t) \/ LogRootLocked(t) \/ ToYaml(t) \/ ToYamlNext(t)
(* Logger::log and toYamlString keep the invariant: what a logger accepts  *)
(* finds an appender, or the root's.                                       *)
LEMMA EventStep ==
  ASSUME ILog, NEW t \in Threads, EventSteps(t)
  PROVE  LoggersOK' /\ EventsOK' /\ LogsOK' /\ Applied'
<1>0. LoggersOK /\ EventsOK /\ LogsOK /\ Applied
  BY DEF ILog
<1>1. UNCHANGED <<cfgVars, m_loggers, rootSet>>
  BY DEF EventSteps, LogEvent, LogLocked, LogRoot, LogRootLocked, ToYaml, ToYamlNext
<1>2. LogsOK' /\ Applied'
  BY <1>0, <1>1, Stays
<1>3. lost => rootSet
  BY <1>0 DEF LoggersOK, NoEventLost
<1>4. SUFFICES Turns(t) /\ (lost' => rootSet)
  <2>1. (lost' => rootSet) => LoggersOK'
    BY <1>0, <1>1 DEF LoggersOK, NoEventLost, AppendersFormatted
  <2> QED
    BY <1>0, <1>1, <1>2, <2>1, TurnsOK
<1>5. ASSUME NEW n \in LoggerNames, NEW l \in Levels, LogEvent(t, n, l) PROVE Turns(t) /\ UNCHANGED lost
  <2>1. PICK e : e = [pc |-> "lock", logger |-> n, level |-> l]
    OBVIOUS
  <2>2. e \in Events /\ e.logger = n
    BY <2>1 DEF Events
  <2>3. ev' = [ev EXCEPT ![t] = e] /\ n \in DOMAIN m_loggers /\ UNCHANGED lost
    BY <1>5, <2>1 DEF LogEvent, Exists
  <2> QED
    BY <2>2, <2>3 DEF Turns
<1>6. CASE LogLocked(t)
  <2>1. PICK n : n = ev[t].logger
    OBVIOUS
  <2>2. ev[t].pc = "lock" /\ n \in DOMAIN m_loggers /\ ev[t].level \in Levels
    BY <1>0, <1>6, <2>1, EventFields DEF LogLocked
  <2>3. CASE m_loggers[n].m_appenders = <<>> /\ m_loggers[n].m_root
    <3>1. ev' = [ev EXCEPT ![t].pc = "root"] /\ UNCHANGED lost
      BY <1>6, <2>1, <2>3 DEF LogLocked
    <3> QED
      BY <1>0, <1>3, <2>2, <3>1, TurnsOn
  <2>4. CASE ~(m_loggers[n].m_appenders = <<>> /\ m_loggers[n].m_root)
    <3>1. ev' = [ev EXCEPT ![t] = NoEvent] /\ lost' = (lost \/ Unwritten(n, ev[t].level))
      BY <1>6, <2>1, <2>4 DEF LogLocked
    <3>2. rootSet \/ m_loggers[n].m_appenders # <<>>
      BY <1>0, <2>2, <2>4 DEF LoggersOK
    <3>3. rootSet \/ ~Unwritten(n, ev[t].level)
      BY <1>0, <2>2, <3>2, Reaches
    <3> QED
      BY <1>3, <3>1, <3>3, TurnsDone
  <2> QED
    BY <2>3, <2>4
<1>7. CASE LogRoot(t)
  <2>1. ev[t].pc = "root" /\ UNCHANGED lost
    BY <1>7 DEF LogRoot
  <2>2. ev' = [ev EXCEPT ![t].pc = "rootlock"] \/ ev' = [ev EXCEPT ![t] = NoEvent]
    BY <1>7 DEF LogRoot
  <2> QED
    BY <1>0, <1>3, <2>1, <2>2, TurnsOn, TurnsDone
<1>8. CASE LogRootLocked(t)
  <2>1. ev[t].level \in Levels
    BY <1>0, <1>8, EventFields DEF LogRootLocked
  <2>2. ev' = [ev EXCEPT ![t] = NoEvent] /\ lost' = (lost \/ Unwritten("root", ev[t].level))
    BY <1>8 DEF LogRootLocked
  <2>3. rootSet \/ ~Unwritten("root", ev[t].level)
    BY <1>0, <2>1, Reaches DEF LoggersOK
  <2> QED
    BY <1>3, <2>2, <2>3, TurnsDone
<1>9. CASE ToYaml(t)
  <2>1. PICK e : e = [pc |-> "print", left |-> DOMAIN m_loggers]
    OBVIOUS
  <2>2. e \in Events /\ e.pc = "print"
    BY <1>0, <2>1 DEF Events, LoggersOK
  <2>3. ev' = [ev EXCEPT ![t] = e] /\ UNCHANGED lost
    BY <1>9, <2>1 DEF ToYaml
  <2> QED
    BY <1>3, <2>2, <2>3 DEF Turns
<1>10. CASE ToYamlNext(t)
  <2>1. ev[t].pc = "print" /\ UNCHANGED lost
    BY <1>10 DEF ToYamlNext
  <2>2. CASE ev[t].left = {}
    <3>1. ev' = [ev EXCEPT ![t] = NoEvent]
      BY <1>10, <2>2 DEF ToYamlNext
    <3> QED
      BY <1>3, <2>1, <3>1, TurnsDone
  <2>3. CASE ev[t].left # {}
    <3>1. PICK n \in ev[t].left : ev' = [ev EXCEPT ![t].left = @ \ {n}]
      BY <1>10, <2>3 DEF ToYamlNext
    <3>2. PICK e : e = [ev[t] EXCEPT !.left = @ \ {n}]
      OBVIOUS
    <3>3. e \in [pc : {"print"}, left : SUBSET LoggerNames]
      BY <1>0, <2>1, <3>2, EventFields
    <3>4. e \in Events /\ e.pc = "print"
      BY <3>3 DEF Events
    <3>5. ev' = [ev EXCEPT ![t] = e]
      BY <3>1, <3>2
    <3> QED
      BY <1>3, <2>1, <3>4, <3>5 DEF Turns
  <2> QED
    BY <2>2, <2>3
<1> QED
  BY <1>3, <1>5, <1>6, <1>7, <1>8, <1>9, <1>10 DEF EventSteps

-----------------------------------------------------------------------------
(* The threads that use the configuration. *)

(* What a step of another thread leaves of a call, *)
LEMMA CallStays ==
  ASSUME NEW u, CallOK(u), fr'[u] = fr[u], DOMAIN m_loggers \subseteq DOMAIN m_loggers'
  PROVE  CallOK(u)'
  BY DEF CallOK, Changing, InCallback

(* and of a callback. *)
LEMMA BegunStays ==
  ASSUME NEW u, fr'[u] = fr[u], UNCHANGED m_loggers
  PROVE  /\ BegunOK(u) => BegunOK(u)'
         /\ Begun(u)' <=> Begun(u)
         /\ InCallback(u)' <=> InCallback(u)
         /\ Changing(u, "logs")' <=> Changing(u, "logs")
  BY DEF BegunOK, PointOK, AtHand, AsDefined, Bare, Begun, InCallback, Changing

(* A call that returned, to the loop of LoadFromYaml or altogether. *)
LEMMA ResumeFields ==
  ASSUME NEW rest \in Seq(Members)
  PROVE  LET r == Resume(rest)
         IN  /\ r.pc \in {"idle", "load"} /\ r.rest \in Seq(Members) /\ (r.pc = "load" => r.rest # <<>>)
             /\ r.point = NoPoint /\ r.loop = {}
<1>1. CASE rest = <<>>
  BY <1>1 DEF Resume, Idle
<1>2. CASE rest # <<>>
  BY <1>2 DEF Resume, Idle
<1> QED
  BY <1>1, <1>2
(* Such a call holds nothing and changes nothing. *)
LEMMA ResumeOK ==
  ASSUME NEW t \in Threads, NEW rest \in Seq(Members), fr'[t] = Resume(rest)
  PROVE  CallOK(t)' /\ \A n : ~Changing(t, n)'
  BY ResumeFields DEF CallOK, Changing, InCallback

(* A step that leaves every call and the variable "logs" alone. *)
LEMMA AsideStep ==
  ASSUME ILog, UNCHANGED <<fr, m_val, m_loggers>>, m_cbs'["logs"] = m_cbs["logs"], "logs" \in overlap => "logs" \in overlap'
  PROVE  LogsOK' /\ Applied'
<1>1. LogsOK'
  BY CallStays DEF ILog, LogsOK
<1>2. Applied'
  BY DEF ILog, Applied, Changing, InCallback, Begun, BegunOK, PointOK, AtHand, Configured, AsDefined, Bare
<1> QED
  BY <1>1, <1>2

(* What is left of Applied when nobody but t may change "logs". *)
LEMMA AppliedBut ==
  ASSUME NEW t \in Threads,
         "logs" \notin overlap' =>
            /\ \A u \in Threads : u # t => ~Changing(u, "logs")'
            /\ ~Changing(t, "logs")' => Configured(m_val["logs"])'
            /\ Changing(t, "logs")' => IF Begun(t)' THEN BegunOK(t)' ELSE ~InCallback(t)' /\ Configured(m_val["logs"])'
  PROVE  Applied'
  BY DEF Applied

(* A step of a call of another variable. *)
LEMMA OtherStep ==
  ASSUME ILog, NEW t \in Threads, UNCHANGED <<m_cbs, m_loggers>>, m_val'["logs"] = m_val["logs"], CallOK(t)',
         \A u \in Threads : u # t => fr'[u] = fr[u], ~Changing(t, "logs"), ~Changing(t, "logs")',
         "logs" \in overlap => "logs" \in overlap'
  PROVE  LogsOK' /\ Applied'
<1>1. LogsOK'
  BY CallStays DEF ILog, LogsOK
<1>2. \A u \in Threads : Changing(u, "logs")' <=> Changing(u, "logs")
  BY BegunStays
<1>3. Applied'
  <2> SUFFICES ASSUME "logs" \notin overlap'
               PROVE  /\ (\A u \in Threads : ~Changing(u, "logs")') => Configured(m_val["logs"])'
                      /\ \A u \in Threads : Changing(u, "logs")' =>
                           IF Begun(u)' THEN BegunOK(u)' ELSE ~InCallback(u)' /\ Configured(m_val["logs"])'
    BY DEF Applied
  <2>1. Configured(m_val["logs"]) => Configured(m_val["logs"])'
    BY DEF Configured, AsDefined, Bare
  <2>2. ASSUME NEW u \in Threads, Changing(u, "logs")'
        PROVE  IF Begun(u)' THEN BegunOK(u)' ELSE ~InCallback(u)' /\ Configured(m_val["logs"])'
    <3>1. u # t /\ Changing(u, "logs")
      BY <1>2, <2>2
    <3>2. IF Begun(u) THEN BegunOK(u) ELSE ~InCallback(u) /\ Configured(m_val["logs"])
      BY <3>1 DEF ILog, Applied
    <3> QED
      BY <2>1, <3>1, <3>2, BegunStays
  <2>3. (\A u \in Threads : ~Changing(u, "logs")) => Configured(m_val["logs"])
    BY DEF ILog, Applied
  <2> QED
    BY <1>2, <2>1, <2>2, <2>3
<1> QED
  BY <1>1, <1>3

(* A thread that is in no change before and after its step. *)
LEMMA OutStep ==
  ASSUME ILog, NEW t \in Threads, fr[t].pc \in {"idle", "load"}, NEW rest \in Seq(Members),
         fr' = [fr EXCEPT ![t] = Resume(rest)], UNCHANGED <<m_val, m_cbs, overlap, m_loggers>>
  PROVE  LogsOK' /\ Applied'
<1>1. fr'[t] = Resume(rest) /\ \A u \in Threads : u # t => fr'[u] = fr[u]
  BY DEF ILog, ICfg, Shape, IsFn
<1>2. CallOK(t)' /\ ~Changing(t, "logs")'
  BY <1>1, ResumeOK
<1>3. ~Changing(t, "logs")
  BY DEF Changing
<1> QED
  BY <1>1, <1>2, <1>3, OtherStep

(* A change of "logs" that did not overlap is the only one. *)
LEMMA OnlyChanger ==
  ASSUME ILog, NEW t \in Threads, Changing(t, "logs"), "logs" \notin overlap
  PROVE  /\ \A u \in Threads : Changing(u, "logs") => u = t
         /\ IF Begun(t) THEN BegunOK(t) ELSE ~InCallback(t) /\ Configured(m_val["logs"])
<1>1. Told("logs")
  BY LogAssumption DEF ILog, ICfg
<1> QED
  BY <1>1 DEF Told, ILog, Applied

(* setValue begins. *)
LEMMA BeginStep ==
  ASSUME ILog, NEW t \in Threads, fr[t].pc \in {"idle", "load"}, NEW n \in Names, NEW v, NEW rest \in Seq(Members),
         n = "logs" => v \in Values, Compare(t, n, v, rest), UNCHANGED <<m_val, m_cbs, m_loggers>>
  PROVE  LogsOK' /\ Applied'
<1>1. CASE v = m_val[n]
  BY <1>1, OutStep DEF Compare
<1>2. CASE v # m_val[n]
  <2>1. /\ fr'[t] = [pc |-> "call", var |-> n, v |-> v, todo |-> m_cbs[n], point |-> NoPoint, loop |-> {}, rest |-> rest]
        /\ \A u \in Threads : u # t => fr'[u] = fr[u]
        /\ overlap' = IF \E u \in Threads : Changing(u, n) THEN overlap \cup {n} ELSE overlap
    BY <1>2 DEF Compare, ILog, ICfg, Shape, IsFn
  <2>2. /\ fr'[t].pc = "call" /\ fr'[t].var = n /\ fr'[t].v = v /\ fr'[t].todo = m_cbs[n]
        /\ fr'[t].point = NoPoint /\ fr'[t].loop = {} /\ fr'[t].rest = rest
    BY <2>1
  <2>3. CallOK(t)' /\ ~InCallback(t)'
    BY <2>2 DEF CallOK, Changing, InCallback
  <2>4. ~Changing(t, "logs") /\ (Changing(t, "logs")' <=> n = "logs")
    BY <2>2 DEF Changing
  <2>5. CASE n # "logs"
    BY <2>1, <2>3, <2>4, <2>5, OtherStep
  <2>6. CASE n = "logs"
    <3>1. LogsOK'
      BY <2>1, <2>3, CallStays DEF ILog, LogsOK
    <3>2. ~Begun(t)'
      BY <2>2, <2>6 DEF Begun, ILog, LogsOK
    <3>3. ASSUME "logs" \notin overlap'
          PROVE  Configured(m_val["logs"])' /\ \A u \in Threads : u # t => ~Changing(u, "logs")'
      <4>1. "logs" \notin overlap /\ \A u \in Threads : ~Changing(u, "logs")
        BY <2>1, <2>6, <3>3
      <4>2. Configured(m_val["logs"])
        BY <4>1 DEF ILog, Applied
      <4> QED
        BY <2>1, <4>1, <4>2, BegunStays DEF Configured, AsDefined, Bare
    <3>4. Applied'
      BY <2>3, <2>4, <2>6, <3>2, <3>3, AppliedBut
    <3> QED
      BY <3>1, <3>4
  <2> QED
    BY <2>5, <2>6
<1> QED
  BY <1>1, <1>2

(* The callbacks returned: the read lock is released. *)
LEMMA UnlockStep ==
  ASSUME ILog, NEW t \in Threads, Unlock(t), UNCHANGED m_loggers
  PROVE  LogsOK' /\ Applied'
<1>1. /\ fr[t].pc = "call" /\ fr[t].todo = {} /\ fr[t].point = NoPoint /\ fr[t].loop = {}
      /\ UNCHANGED <<m_val, m_cbs, overlap>>
  BY DEF Unlock, InCallback
<1>2. /\ fr'[t] = [fr[t] EXCEPT !.pc = "assign"] /\ Frame(fr[t])
      /\ \A u \in Threads : u # t => fr'[u] = fr[u]
  BY DEF Unlock, ILog, ICfg, Shape, IsFn
<1>3. /\ fr'[t].pc = "assign" /\ fr'[t].var = fr[t].var /\ fr'[t].v = fr[t].v
      /\ fr'[t].point = NoPoint /\ fr'[t].loop = {} /\ fr'[t].rest = fr[t].rest
  BY <1>1, <1>2 DEF Frame
<1>4. CallOK(t)
  BY DEF ILog, LogsOK
<1>5. CallOK(t)'
  BY <1>1, <1>3, <1>4 DEF CallOK, Changing, InCallback
<1>6. CASE fr[t].var # "logs"
  BY <1>1, <1>2, <1>3, <1>5, <1>6, OtherStep DEF Changing
<1>7. CASE fr[t].var = "logs"
  <2>1. LogsOK'
    BY <1>1, <1>2, <1>5, CallStays DEF ILog, LogsOK
  <2>2. Changing(t, "logs") /\ Changing(t, "logs")' /\ Begun(t) /\ Begun(t)'
    BY <1>1, <1>3, <1>7 DEF Changing, Begun
  <2>3. ASSUME "logs" \notin overlap'
        PROVE  BegunOK(t)' /\ \A u \in Threads : u # t => ~Changing(u, "logs")'
    <3>1. BegunOK(t) /\ \A u \in Threads : u # t => ~Changing(u, "logs")
      BY <1>1, <2>2, <2>3, OnlyChanger
    <3>2. BegunOK(t)'
      BY <1>1, <1>3, <3>1 DEF BegunOK, PointOK, AtHand, AsDefined, Bare
    <3> QED
      BY <1>2, <3>1, <3>2, BegunStays
  <2>4. Applied'
    BY <2>2, <2>3, AppliedBut
  <2> QED
    BY <2>1, <2>4
<1> QED
  BY <1>6, <1>7

(* The value is assigned: the loggers are as it says. *)
LEMMA LogAssignStep ==
  ASSUME ILog, NEW t \in Threads, Assign(t), UNCHANGED m_loggers
  PROVE  LogsOK' /\ Applied'
<1>0. PICK n \in Names : n = fr[t].var
  BY DEF Assign, ILog, ICfg, Shape
<1>1. fr[t].pc = "assign" /\ UNCHANGED <<m_cbs, overlap>>
  BY DEF Assign
<1>2. m_val'[n] = fr[t].v /\ \A m \in Names : m # n => m_val'[m] = m_val[m]
  BY <1>0 DEF Assign, ILog, ICfg, Shape, IsFn
<1>3. fr'[t] = Resume(fr[t].rest) /\ \A u \in Threads : u # t => fr'[u] = fr[u]
  BY DEF Assign, Done, ILog, ICfg, Shape, IsFn
<1>4. CallOK(t) /\ fr[t].rest \in Seq(Members)
  BY DEF ILog, LogsOK, CallOK
<1>5. CallOK(t)' /\ ~Changing(t, "logs")'
  BY <1>3, <1>4, ResumeOK
<1>6. CASE n # "logs"
  BY <1>0, <1>1, <1>2, <1>3, <1>5, <1>6, OtherStep, LogAssumption DEF Changing
<1>7. CASE n = "logs"
  <2>1. Changing(t, "logs") /\ Begun(t) /\ fr[t].v \in Values /\ fr[t].point = NoPoint /\ fr[t].loop = {}
    BY <1>0, <1>1, <1>4, <1>7 DEF Changing, Begun, CallOK, InCallback
  <2>2. LogsOK'
    BY <1>1, <1>2, <1>3, <1>5, <1>7, <2>1, CallStays DEF ILog, LogsOK
  <2>3. ASSUME "logs" \notin overlap'
        PROVE  Configured(m_val["logs"])' /\ \A u \in Threads : u # t => ~Changing(u, "logs")'
    <3>1. BegunOK(t) /\ \A u \in Threads : u # t => ~Changing(u, "logs")
      BY <1>1, <2>1, <2>3, OnlyChanger
    <3>2. Configured(fr[t].v)
      BY <2>1, <3>1 DEF BegunOK, AtHand, Configured
    <3>3. Configured(m_val["logs"])'
      BY <1>2, <1>7, <3>2 DEF Configured, AsDefined, Bare
    <3> QED
      BY <1>3, <3>1, <3>3, BegunStays
  <2>4. Applied'
    BY <1>5, <2>3, AppliedBut
  <2> QED
    BY <2>2, <2>4
<1> QED
  BY <1>6, <1>7

(* The configuration without its callbacks. *)
LEMMA LogCfgStep ==
  ASSUME ILog, NEW t \in Threads, CfgStep(t), UNCHANGED m_loggers
  PROVE  LogsOK' /\ Applied'
<1> USE ConfigAssumption, LogAssumption
<1>1. ASSUME NEW n \in Names, Lookup(t, n) PROVE LogsOK' /\ Applied'
  BY <1>1, AsideStep DEF Lookup
<1>2. ASSUME NEW n \in Plain, NEW v \in PlainValues, SetValue(t, n, v) PROVE LogsOK' /\ Applied'
  <2>1. \A m \in {<<>>} : m \in Seq(Members)
    OBVIOUS
  <2> QED
    BY <1>2, <2>1, BeginStep DEF SetValue
<1>3. ASSUME NEW n \in Plain, addListener(t, n) \/ clearListener(t, n) \/ \E k \in 1..MaxKey : delListener(t, n, k)
      PROVE  LogsOK' /\ Applied'
  <2>1. UNCHANGED <<fr, m_val>> /\ overlap \subseteq overlap'
    BY <1>3 DEF addListener, clearListener, delListener
  <2>2. m_cbs'["logs"] = m_cbs["logs"]
    BY <1>3 DEF addListener, clearListener, delListener, ILog, ICfg, Shape
  <2> QED
    BY <2>1, <2>2, AsideStep
<1>4. ASSUME NEW doc \in Docs, LoadFromYaml(t, doc) PROVE LogsOK' /\ Applied'
  BY <1>4, OutStep DEF LoadFromYaml
<1>5. CASE LoadNext(t)
  <2>1. PICK m, rest : m = Head(fr[t].rest) /\ rest = Tail(fr[t].rest)
    OBVIOUS
  <2>2. fr[t].pc = "load" /\ fr[t].rest \in Seq(Members) /\ fr[t].rest # <<>>
    BY <1>5 DEF LoadNext, ILog, LogsOK, CallOK
  <2>3. m \in Members /\ rest \in Seq(Members)
    BY <2>1, <2>2
  <2>4. UNCHANGED <<m_val, m_cbs>>
    BY <1>5 DEF LoadNext
  <2>5. CASE m[1] \in datas /\ FromStr(m[1], m[2]) # {}
    <3>1. PICK v \in FromStr(m[1], m[2]) : Compare(t, m[1], v, rest)
      BY <1>5, <2>1, <2>5 DEF LoadNext
    <3>2. m[1] = "logs" => v \in Values
      BY <2>3, <3>1, LogsType
    <3>3. m[1] \in Names
      BY <2>5 DEF ILog, ICfg, Shape
    <3> QED
      BY <2>2, <2>3, <2>4, <3>1, <3>2, <3>3, BeginStep
  <2>6. CASE ~(m[1] \in datas /\ FromStr(m[1], m[2]) # {})
    BY <1>5, <2>1, <2>2, <2>3, <2>4, <2>6, OutStep DEF LoadNext
  <2> QED
    BY <2>5, <2>6
<1> QED
  BY <1>1, <1>2, <1>3, <1>4, <1>5, UnlockStep, LogAssignStep DEF CfgStep

-----------------------------------------------------------------------------
(* The listener of "logs". *)

(* What its loops go through. *)
LEMMA RemovedOK ==
  ASSUME NEW d \in Defines
  PROVE  Removed(d) \in Defines /\ Removed(d).name = d.name /\ Removed(d).appenders = <<>>
<1>1. PICK name, level, p, aps : d = [name |-> name, level |-> level, formatter |-> p, appenders |-> aps]
  BY DEF Defines
<1>2. PICK e : e = <<>>
  OBVIOUS
<1>3. e \in Formatters /\ e \in Seq(AppenderDefines) /\ UNKNOW \in 0..FATAL
  BY <1>2 DEF Formatters, NullFormatter, UNKNOW, FATAL
<1>4. Removed(d) = [name |-> name, level |-> UNKNOW, formatter |-> e, appenders |-> e]
  <2>1. PICK q : q = [d EXCEPT !.level = UNKNOW]
    OBVIOUS
  <2>2. q = [name |-> name, level |-> UNKNOW, formatter |-> p, appenders |-> aps]
    BY <1>1, <2>1
  <2>3. PICK r : r = [q EXCEPT !.formatter = e]
    OBVIOUS
  <2>4. r = [name |-> name, level |-> UNKNOW, formatter |-> e, appenders |-> aps]
    BY <2>2, <2>3
  <2>5. [r EXCEPT !.appenders = e] = [name |-> name, level |-> UNKNOW, formatter |-> e, appenders |-> e]
    BY <2>4
  <2>6. Removed(d) = [[q EXCEPT !.formatter = e] EXCEPT !.appenders = e]
    BY <1>2, <2>1 DEF Removed
  <2> QED
    BY <2>3, <2>5, <2>6
<1>5. d.name = name /\ name \in LoggerNames \ Own
  BY <1>1 DEF Defines
<1> QED
  BY <1>2, <1>3, <1>4, <1>5 DEF Defines

(* They go through definitions. *)
LEMMA IniterType ==
  ASSUME NEW old \in Values, NEW new \in Values
  PROVE  LogIniter(old, new) \subseteq {1, 2} \X Defines
<1> SUFFICES ASSUME NEW b \in LogIniter(old, new) PROVE b \in {1, 2} \X Defines
  OBVIOUS
<1>1. old \subseteq Defines /\ new \subseteq Defines
  BY DEF Values
<1>2. ASSUME NEW d \in new \ old, b = <<1, d>> PROVE b \in {1, 2} \X Defines
  BY <1>1, <1>2
<1>3. ASSUME NEW d \in old, b = <<2, Removed(d)>> PROVE b \in {1, 2} \X Defines
  BY <1>1, <1>3, RemovedOK
<1> QED
  BY <1>2, <1>3 DEF LogIniter

(* The callback begins, with what distinguishes the values. *)
LEMMA IniterOK ==
  ASSUME NEW t, NEW old \in Values, Configured(old), fr'[t].v \in Values, UNCHANGED m_loggers,
         fr'[t].point = NoPoint, fr'[t].loop = LogIniter(old, fr'[t].v)
  PROVE  BegunOK(t)'
<1>1. PICK new \in Values : new = fr'[t].v
  OBVIOUS
<1>2. old \subseteq Defines /\ new \subseteq Defines
  BY DEF Values
<1>3. ASSUME NEW b \in LogIniter(old, new)
      PROVE  IF b[1] = 1 THEN b[2] \in new ELSE b[2].name \notin NamesIn(new) /\ b[2].appenders = <<>>
  <2>1. ASSUME NEW d \in new \ old, b = <<1, d>> PROVE b[1] = 1 /\ b[2] \in new
    BY <2>1
  <2>2. ASSUME NEW d \in old, \A e \in new : e.name # d.name, b = <<2, Removed(d)>>
        PROVE  b[1] = 2 /\ b[2].name \notin NamesIn(new) /\ b[2].appenders = <<>>
    BY <1>2, <2>2, RemovedOK DEF NamesIn
  <2> QED
    BY <1>3, <2>1, <2>2 DEF LogIniter
<1>4. ASSUME NEW d \in new PROVE <<1, d>> \in LogIniter(old, new) \/ AsDefined(d)
  BY DEF LogIniter, Configured
<1>5. ASSUME NEW n \in DOMAIN m_loggers \ (Own \cup {"root"} \cup NamesIn(new))
      PROVE  (\E b \in LogIniter(old, new) : b[2].name = n) \/ Bare(n)
  <2>1. CASE n \in NamesIn(old)
    <3>1. PICK d \in old : d.name = n
      BY <2>1 DEF NamesIn
    <3>2. \A e \in new : e.name # d.name
      BY <3>1 DEF NamesIn
    <3>3. <<2, Removed(d)>> \in LogIniter(old, new)
      BY <3>2 DEF LogIniter
    <3>4. <<2, Removed(d)>>[2].name = n
      BY <1>2, <3>1, RemovedOK
    <3> QED
      BY <3>3, <3>4
  <2>2. CASE n \notin NamesIn(old)
    BY <2>2 DEF Configured
  <2> QED
    BY <2>1, <2>2
<1> HIDE DEF LogIniter
<1> QED
  BY <1>1, <1>3, <1>4, <1>5 DEF BegunOK, AtHand, AsDefined, Bare

(* The callback of "logs", or of another variable, begins. *)
LEMMA RunStep ==
  ASSUME ILog, NEW t \in Threads, RunListener(t)
  PROVE  LogsOK' /\ Applied'
<1>1. PICK loop : /\ loop = IF fr[t].var = "logs" THEN LogIniter(m_val["logs"], fr[t].v) ELSE {}
                  /\ Call(t, loop)
  BY DEF RunListener
<1>2. PICK k \in fr[t].todo : fr' = [fr EXCEPT ![t].todo = @ \ {k}, ![t].loop = loop]
  BY <1>1 DEF Call
<1>3. /\ fr[t].pc = "call" /\ fr[t].point = NoPoint /\ fr[t].loop = {}
      /\ UNCHANGED <<m_val, m_cbs, overlap, m_loggers>>
  BY <1>1 DEF Call, InCallback, RunListener, logVars
<1>4. fr'[t] = [fr[t] EXCEPT !.todo = @ \ {k}, !.loop = loop] /\ \A u \in Threads : u # t => fr'[u] = fr[u]
  BY <1>2 DEF ILog, ICfg, Shape, IsFn
<1>5. /\ fr'[t].pc = "call" /\ fr'[t].var = fr[t].var /\ fr'[t].v = fr[t].v /\ fr'[t].todo = fr[t].todo \ {k}
      /\ fr'[t].point = NoPoint /\ fr'[t].loop = loop /\ fr'[t].rest = fr[t].rest
  <2>1. Frame(fr[t])
    BY DEF ILog, ICfg, Shape
  <2>2. PICK a, b, c, d, e, f, g : fr[t] = [pc |-> a, var |-> b, v |-> c, todo |-> d, point |-> e, loop |-> f, rest |-> g]
    BY <2>1 DEF Frame
  <2>3. PICK q : q = [fr[t] EXCEPT !.todo = @ \ {k}]
    OBVIOUS
  <2>4. q = [pc |-> a, var |-> b, v |-> c, todo |-> d \ {k}, point |-> e, loop |-> f, rest |-> g]
    BY <2>2, <2>3
  <2>5. fr'[t] = [pc |-> a, var |-> b, v |-> c, todo |-> d \ {k}, point |-> e, loop |-> loop, rest |-> g]
    <3>1. [q EXCEPT !.loop = loop] =
            [pc |-> a, var |-> b, v |-> c, todo |-> d \ {k}, point |-> e, loop |-> loop, rest |-> g]
      BY <2>4
    <3>2. fr'[t] = [q EXCEPT !.loop = loop]
      BY <1>4, <2>3, Zenon
    <3> QED
      BY <3>1, <3>2
  <2> QED
    BY <1>3, <2>2, <2>5
<1>6. CallOK(t) /\ m_val["logs"] \in Values
  BY DEF ILog, LogsOK
<1>7. CASE fr[t].var # "logs"
  <2>1. loop = {}
    BY <1>1, <1>7
  <2>2. CallOK(t)'
    BY <1>5, <1>6, <1>7, <2>1 DEF CallOK, Changing, InCallback
  <2> QED
    BY <1>3, <1>4, <1>5, <1>7, <2>2, OtherStep DEF Changing
<1>8. CASE fr[t].var = "logs"
  <2>1. loop = LogIniter(m_val["logs"], fr[t].v) /\ fr[t].v \in Values /\ Changing(t, "logs") /\ Changing(t, "logs")'
    BY <1>1, <1>3, <1>5, <1>6, <1>8 DEF CallOK, Changing
  <2>2. loop \subseteq {1, 2} \X Defines
    BY <1>6, <2>1, IniterType
  <2>3. CallOK(t)'
    BY <1>5, <1>6, <1>8, <2>1, <2>2 DEF CallOK, InCallback
  <2>4. LogsOK'
    BY <1>3, <1>4, <2>3, CallStays DEF ILog, LogsOK
  <2>5. ~Begun(t) /\ Begun(t)'
    <3>1. fr[t].todo \subseteq {1}
      BY <1>3, <1>8 DEF ILog, ICfg, CalledWhileRegistered, LogsOK
    <3> QED
      BY <1>2, <1>3, <1>5, <3>1 DEF Begun
  <2>6. ASSUME "logs" \notin overlap'
        PROVE  BegunOK(t)' /\ \A u \in Threads : u # t => ~Changing(u, "logs")'
    <3>1. Configured(m_val["logs"]) /\ \A u \in Threads : u # t => ~Changing(u, "logs")
      BY <1>3, <2>1, <2>5, <2>6, OnlyChanger
    <3>2. BegunOK(t)'
      BY <1>3, <1>5, <1>6, <2>1, <3>1, IniterOK
    <3> QED
      BY <1>3, <1>4, <3>1, <3>2, BegunStays
  <2>7. Applied'
    BY <2>1, <2>5, <2>6, AppliedBut
  <2> QED
    BY <2>4, <2>7
<1> QED
  BY <1>7, <1>8

(* Logger n became l: what is said of the others stays. *)
LEMMA SetElsewhere ==
  ASSUME NEW n, NEW l, SetTo(n, l)
  PROVE  /\ DOMAIN m_loggers' = DOMAIN m_loggers \cup {n} /\ m_loggers'[n] = l
         /\ \A x \in DOMAIN m_loggers : x # n => m_loggers'[x] = m_loggers[x]
         /\ \A d : d.name # n /\ AsDefined(d) => AsDefined(d)'
         /\ \A x \in DOMAIN m_loggers : x # n /\ Bare(x) => Bare(x)'
<1>1. /\ DOMAIN m_loggers' = DOMAIN m_loggers \cup {n} /\ m_loggers'[n] = l
      /\ \A x \in DOMAIN m_loggers : x # n => m_loggers'[x] = m_loggers[x]
  BY DEF SetTo
<1> QED
  BY <1>1 DEF AsDefined, Bare

(* A step of the callback with the logger of d: q is the point it gets to, *)
(* l the logger.  A logger it is done with is as d says.                   *)
Reached(q, d, l) ==
    IF q = NoPoint THEN AddedTo(l, d, Len(d.appenders))
    ELSE /\ q.at \in {"formatter", "clear"} => l.m_level = d.level
         /\ q.at = "add" => AddedTo(l, d, q.i - 1)
(* The step keeps the loggers done, at hand or left. *)
LEMMA Advance ==
  ASSUME ILog, NEW t \in Threads, NEW d \in Defines, NEW l, LoggerOK(d.name, l), SetTo(d.name, l), NEW q, NEW loop, CallGoesOn(t, q, loop),
         loop \subseteq fr[t].loop, \A b \in fr[t].loop \ loop : b[2] = d,
         fr[t].point = NoPoint \/ fr[t].point.d = d,
         \/ q = NoPoint
         \/ q # NoPoint /\ q \in Points /\ q.d = d /\ (q.at = "add" => q.i \in 1..Len(d.appenders)),
         BegunOK(t) => /\ d \in fr[t].v \/ (d.name \notin NamesIn(fr[t].v) /\ d.appenders = <<>>)
                       /\ Reached(q, d, l)
  PROVE  LogsOK' /\ Applied'
<1>1. fr[t].pc = "call" /\ InCallback(t) /\ UNCHANGED <<m_val, m_cbs, overlap>>
  BY DEF CallGoesOn
<1>2. \A u \in Threads : u # t => fr'[u] = fr[u]
  BY GoesOnFrames DEF ILog
<1>4. /\ fr'[t].pc = "call" /\ fr'[t].var = fr[t].var /\ fr'[t].v = fr[t].v /\ fr'[t].todo = fr[t].todo
      /\ fr'[t].point = q /\ fr'[t].loop = loop /\ fr'[t].rest = fr[t].rest
  BY GoesOnFrames DEF ILog
<1>5. CallOK(t)
  BY DEF ILog, LogsOK
<1>6. fr[t].var = "logs" /\ fr[t].v \in Values /\ Changing(t, "logs") /\ Changing(t, "logs")'
  BY <1>1, <1>4, <1>5 DEF CallOK, Changing
<1>7. d.name \in DOMAIN m_loggers' /\ DOMAIN m_loggers \subseteq DOMAIN m_loggers'
  <2>1. DOMAIN m_loggers' = DOMAIN m_loggers \cup {d.name}
    BY SetElsewhere
  <2> QED
    BY <2>1
<1>8. CallOK(t)'
  <2>1. fr[t].loop \subseteq {1, 2} \X Defines /\ fr[t].rest \in Seq(Members)
    BY <1>5 DEF CallOK
  <2>2. q # NoPoint => q \in Points /\ q.d.name \in DOMAIN m_loggers' /\ (q.at = "add" => q.i \in 1..Len(q.d.appenders))
    BY <1>7
  <2> QED
    BY <1>4, <1>6, <2>1, <2>2 DEF CallOK
<1>9. LogsOK'
  BY <1>1, <1>2, <1>7, <1>8, CallStays DEF ILog, LogsOK
<1>10. ASSUME "logs" \notin overlap'
       PROVE  Begun(t)' /\ BegunOK(t)' /\ \A u \in Threads : u # t => ~Changing(u, "logs")'
  <2>1. Begun(t) /\ BegunOK(t) /\ \A u \in Threads : u # t => ~Changing(u, "logs")
    BY <1>1, <1>6, <1>10, OnlyChanger
  <2>2. Begun(t)' /\ \A u \in Threads : u # t => ~Changing(u, "logs")'
    BY <1>1, <1>2, <1>4, <2>1 DEF Begun, Changing
  <2>3. PICK v \in Values : v = fr[t].v
    BY <1>6
  <2>4. d \in v \/ (d.name \notin NamesIn(v) /\ d.appenders = <<>>)
    BY <2>1, <2>3
  <2>5. Reached(q, d, l)
    BY <2>1
  <2>6. \A b \in loop : IF b[1] = 1 THEN b[2] \in v ELSE b[2].name \notin NamesIn(v) /\ b[2].appenders = <<>>
    BY <2>1, <2>3 DEF BegunOK
  <2>7. q # NoPoint => /\ q.d \in v \/ (q.d.name \notin NamesIn(v) /\ q.d.appenders = <<>>)
                       /\ PointOK(q)'
    <3> SUFFICES ASSUME q # NoPoint
                 PROVE  (q.d \in v \/ (q.d.name \notin NamesIn(v) /\ q.d.appenders = <<>>)) /\ PointOK(q)'
      OBVIOUS
    <3>1. q.d = d /\ m_loggers'[d.name] = l
      BY SetElsewhere
    <3> QED
      BY <2>4, <2>5, <3>1 DEF Reached, PointOK
  <2>8. q = NoPoint => AsDefined(d)'
    <3>1. m_loggers'[d.name] = l
      BY SetElsewhere
    <3> QED
      BY <1>7, <2>5, <3>1 DEF Reached, AsDefined
  <2>9. q # NoPoint => q.d.name = d.name
    OBVIOUS
  <2>10. ASSUME NEW e \in v PROVE <<1, e>> \in loop \/ (q # NoPoint /\ q.d.name = e.name) \/ AsDefined(e)'
    <3>1. CASE e.name = d.name
      <4>1. d \in v
        BY <2>4, <3>1 DEF NamesIn
      <4>2. e = d
        BY <3>1, <4>1 DEF Values
      <4> QED
        BY <2>8, <2>9, <4>2
    <3>2. CASE e.name # d.name
      <4>1. <<1, e>> \in fr[t].loop \/ AtHand(t, e.name) \/ AsDefined(e)
        BY <2>1, <2>3 DEF BegunOK
      <4>2. ~AtHand(t, e.name)
        BY <3>2 DEF AtHand
      <4>3. <<1, e>> \in fr[t].loop => <<1, e>> \in loop
        <5>1. <<1, e>>[2] = e /\ e # d
          BY <3>2
        <5> QED
          BY <5>1
      <4> QED
        BY <3>2, <4>1, <4>2, <4>3, SetElsewhere
    <3> QED
      BY <3>1, <3>2
  <2>11. ASSUME NEW x \in DOMAIN m_loggers' \ (Own \cup {"root"} \cup NamesIn(v))
         PROVE  (\E b \in loop : b[2].name = x) \/ (q # NoPoint /\ q.d.name = x) \/ Bare(x)'
    <3>1. CASE x = d.name
      <4>1. d.appenders = <<>>
        BY <2>4, <2>11, <3>1 DEF NamesIn
      <4>2. q = NoPoint => Len(l.m_appenders) = 0
        BY <2>5, <4>1, EmptySeq DEF Reached, AddedTo
      <4>3. Len(l.m_appenders) = 0 => l.m_appenders = <<>>
        <5>1. l.m_appenders \in Seq(Appenders)
          BY Fields DEF LoggerOK
        <5> QED
          BY <5>1, EmptySeq
      <4>4. m_loggers'[d.name] = l
        BY SetElsewhere
      <4> QED
        BY <2>9, <3>1, <4>2, <4>3, <4>4 DEF Bare
    <3>2. CASE x # d.name
      <4>1. x \in DOMAIN m_loggers
        <5>1. DOMAIN m_loggers' = DOMAIN m_loggers \cup {d.name}
          BY SetElsewhere
        <5> QED
          BY <2>11, <3>2, <5>1
      <4>2. (\E b \in fr[t].loop : b[2].name = x) \/ AtHand(t, x) \/ Bare(x)
        BY <2>1, <2>3, <2>11, <4>1 DEF BegunOK
      <4>3. ~AtHand(t, x)
        BY <3>2 DEF AtHand
      <4>4. \A b \in fr[t].loop : b[2].name = x => b \in loop
        BY <3>2
      <4> QED
        BY <3>2, <4>1, <4>2, <4>3, <4>4, SetElsewhere
    <3> QED
      BY <3>1, <3>2
  <2>12. BegunOK(t)'
    BY <1>4, <2>3, <2>6, <2>7, <2>10, <2>11 DEF BegunOK, AtHand
  <2> QED
    BY <2>1, <2>2, <2>12
<1>11. Applied'
  BY <1>6, <1>10, AppliedBut
<1> QED
  BY <1>9, <1>11

(* From one point of the callback to the next one. *)
LEMMA NextPoints ==
  ASSUME NEW d, NEW i, NEW at, NEW point, point = [at |-> at, d |-> d, i |-> i]
  PROVE  /\ at = "get" => NextPoint(point) = [at |-> "level", d |-> d, i |-> i]
         /\ at = "level" => \/ NextPoint(point) = [at |-> "formatter", d |-> d, i |-> i]
                            \/ NextPoint(point) = [at |-> "clear", d |-> d, i |-> i]
         /\ at = "formatter" => NextPoint(point) = [at |-> "clear", d |-> d, i |-> i]
         /\ at = "clear" => NextPoint(point) = AddFrom(d, 1)
         /\ at = "add" => NextPoint(point) = AddFrom(d, i + 1)
<1>1. \A a : [point EXCEPT !.at = a] = [at |-> a, d |-> d, i |-> i]
  OBVIOUS
<1>2. point.at = at /\ point.d = d /\ point.i = i
  OBVIOUS
<1>3. CASE at = "get"
  BY <1>1, <1>2, <1>3 DEF NextPoint
<1>4. CASE at = "level"
  BY <1>1, <1>2, <1>4 DEF NextPoint
<1>5. CASE at = "formatter"
  BY <1>1, <1>2, <1>5 DEF NextPoint
<1>6. CASE at = "clear"
  BY <1>2, <1>6 DEF NextPoint
<1>7. CASE at = "add"
  BY <1>2, <1>7 DEF NextPoint
<1> QED
  BY <1>3, <1>4, <1>5, <1>6, <1>7

(* A point with something to do. *)
GoodPoint(q, d) == q # NoPoint /\ q \in Points /\ q.d = d /\ (q.at = "add" => q.i \in 1..Len(d.appenders))
(* The points before the appenders. *)
LEMMA GoodPoints ==
  ASSUME NEW d \in Defines, NEW i \in Nat, NEW at \in {"level", "formatter", "clear"}, NEW q, q = [at |-> at, d |-> d, i |-> i]
  PROVE  GoodPoint(q, d) /\ q.at = at
<1>1. q.at = at /\ q.d = d /\ q \in Points
  BY DEF Points
<1>2. q # NoPoint
  <2>1. NoPoint.at = "none"
    BY DEF NoPoint
  <2> QED
    BY <1>1, <2>1
<1> QED
  BY <1>1, <1>2 DEF GoodPoint

(* The appenders: the next one, or the logger is done. *)
LEMMA AddPoints ==
  ASSUME NEW d \in Defines, NEW i \in 1..Len(d.appenders) + 1, NEW q, q = AddFrom(d, i)
  PROVE  /\ q = NoPoint \/ GoodPoint(q, d)
         /\ \A l : AddedTo(l, d, i - 1) => Reached(q, d, l)
<1>1. Len(d.appenders) \in Nat
  BY DEF Defines
<1>2. CASE i <= Len(d.appenders)
  <2>1. q = [at |-> "add", d |-> d, i |-> i]
    BY <1>2 DEF AddFrom
  <2>2. q.at = "add" /\ q.d = d /\ q.i = i
    BY <2>1
  <2>3. q \in Points
    BY <1>1, <2>1 DEF Points
  <2>4. NoPoint.at = "none"
    BY DEF NoPoint
  <2> QED
    BY <1>1, <1>2, <2>2, <2>3, <2>4 DEF GoodPoint, Reached
<1>3. CASE ~(i <= Len(d.appenders))
  <2>1. q = NoPoint /\ i - 1 = Len(d.appenders)
    BY <1>1, <1>3 DEF AddFrom
  <2> QED
    BY <2>1 DEF Reached
<1> QED
  BY <1>2, <1>3

(* What the step does to the loggers. *)
LEMMA SetDone ==
  ASSUME ILog, NEW n \in LoggerNames, NEW l, LoggerOK(n, l), SetTo(n, l),
         rootSet' = (rootSet \/ n = "root"), UNCHANGED <<ev, lost>>
  PROVE  LoggersOK' /\ EventsOK'
<1>1. LoggersOK'
  BY SetStep DEF ILog
<1>2. DOMAIN m_loggers' = DOMAIN m_loggers \cup {n}
  BY SetElsewhere
<1> QED
  BY <1>1, <1>2 DEF ILog, EventsOK

(* A logger is next. *)
LEMMA NextStep ==
  ASSUME ILog, NEW t \in Threads, ListenerStep(t), fr[t].point = NoPoint
  PROVE  LoggersOK' /\ EventsOK' /\ LogsOK' /\ Applied'
<1>1. fr[t].loop # {} /\ fr[t].loop \subseteq {1, 2} \X Defines
  BY DEF ListenerStep, CallGoesOn, InCallback, ILog, LogsOK, CallOK
<1>2. PICK b \in fr[t].loop : b = NextLogger(fr[t].loop)
  <2>1. \A c \in fr[t].loop : c[1] \in {1, 2}
    BY <1>1
  <2>2. \E c \in fr[t].loop : \A e \in fr[t].loop : c[1] <= e[1]
    BY <1>1, <2>1
  <2> QED
    BY <2>2 DEF NextLogger
<1>3. PICK d \in Defines : d = b[2]
  BY <1>1
<1>4. PICK point : point = [at |-> "get", d |-> d, i |-> 0]
  OBVIOUS
<1>5. point.at = "get" /\ point.d = d
  BY <1>4
<1>6. PICK q : q = NextPoint(point)
  OBVIOUS
<1>7. /\ CallGoesOn(t, q, fr[t].loop \ {b}) /\ getLogger(d.name)
      /\ rootSet' = (rootSet \/ d.name = "root") /\ UNCHANGED <<ev, lost>>
  BY <1>2, <1>3, <1>4, <1>5, <1>6 DEF ListenerStep
<1>8. d.name \in LoggerNames
  BY DEF Defines
<1>9. PICK l : SetTo(d.name, l) /\ LoggerOK(d.name, l)
  BY <1>7, <1>8, GetStep DEF ILog
<1>10. GoodPoint(q, d) /\ q.at = "level"
  <2>1. q = [at |-> "level", d |-> d, i |-> 0]
    BY <1>4, <1>6, NextPoints
  <2> QED
    BY <2>1, GoodPoints
<1>11. BegunOK(t) => d \in fr[t].v \/ (d.name \notin NamesIn(fr[t].v) /\ d.appenders = <<>>)
  BY <1>3 DEF BegunOK
<1>12. Reached(q, d, l)
  BY <1>10 DEF GoodPoint, Reached
<1>13. LogsOK' /\ Applied'
  BY <1>3, <1>7, <1>9, <1>10, <1>11, <1>12, Advance DEF GoodPoint
<1> QED
  BY <1>7, <1>8, <1>9, <1>13, SetDone

(* A call on the logger at hand. *)
LEMMA HandStep ==
  ASSUME ILog, NEW t \in Threads, ListenerStep(t), fr[t].point # NoPoint
  PROVE  LoggersOK' /\ EventsOK' /\ LogsOK' /\ Applied'
<1>1. PICK point \in Points : /\ point = fr[t].point /\ point.d.name \in DOMAIN m_loggers
                              /\ point.at = "add" => point.i \in 1..Len(point.d.appenders)
  BY DEF ILog, LogsOK, CallOK
<1>2. PICK d \in Defines, i \in Nat, at \in {"level", "formatter", "clear", "add"} : point = [at |-> at, d |-> d, i |-> i]
  BY DEF Points
<1>3. point.at = at /\ point.d = d /\ point.i = i
  BY <1>2
<1>4. PICK q : q = NextPoint(point)
  OBVIOUS
<1>5. /\ CallGoesOn(t, q, fr[t].loop)
      /\ \/ at = "level" /\ setLevel(d.name, d.level)
         \/ at = "formatter" /\ setFormatter(d.name, d.formatter)
         \/ at = "clear" /\ clearAppenders(d.name)
         \/ at = "add" /\ addAppender(d.name, DefinedAppender(d.appenders[i]))
      /\ rootSet' = (rootSet \/ d.name = "root") /\ UNCHANGED <<ev, lost>>
  BY <1>1, <1>3, <1>4 DEF ListenerStep
<1>6. /\ d.name \in LoggerNames /\ d.level \in 0..FATAL /\ d.formatter \in Formatters
      /\ d.appenders \in Seq(AppenderDefines) /\ Len(d.appenders) \in Nat
  BY DEF Defines
<1>7. LoggersOK /\ d.name \in DOMAIN m_loggers
  BY <1>1, <1>3 DEF ILog
<1>8. BegunOK(t) => /\ d \in fr[t].v \/ (d.name \notin NamesIn(fr[t].v) /\ d.appenders = <<>>)
                    /\ at \in {"formatter", "clear"} => m_loggers[d.name].m_level = d.level
                    /\ at = "add" => AddedTo(m_loggers[d.name], d, i - 1)
  BY <1>1, <1>3 DEF BegunOK, PointOK
<1>9. SUFFICES \E l : /\ SetTo(d.name, l) /\ LoggerOK(d.name, l)
                      /\ q = NoPoint \/ GoodPoint(q, d)
                      /\ BegunOK(t) => Reached(q, d, l)
  <2>1. PICK l : /\ SetTo(d.name, l) /\ LoggerOK(d.name, l)
                 /\ q = NoPoint \/ GoodPoint(q, d)
                 /\ BegunOK(t) => Reached(q, d, l)
    BY <1>9
  <2>2. LogsOK' /\ Applied'
    BY <1>1, <1>3, <1>5, <1>8, <2>1, Advance DEF GoodPoint
  <2> QED
    BY <1>5, <1>6, <2>1, <2>2, SetDone
<1>10. CASE at = "level"
  <2>1. PICK l : SetTo(d.name, l) /\ LoggerOK(d.name, l) /\ l.m_level = d.level
    BY <1>5, <1>6, <1>7, <1>10, LevelStep
  <2>2. GoodPoint(q, d) /\ q.at \in {"formatter", "clear"}
    BY <1>2, <1>4, <1>10, NextPoints, GoodPoints
  <2>3. Reached(q, d, l)
    BY <2>1, <2>2 DEF Reached, GoodPoint
  <2> QED
    BY <2>1, <2>2, <2>3
<1>11. CASE at = "formatter"
  <2>1. PICK l : SetTo(d.name, l) /\ LoggerOK(d.name, l) /\ l.m_level = m_loggers[d.name].m_level
    BY <1>5, <1>6, <1>7, <1>11, FormatterStep DEF Alike
  <2>2. GoodPoint(q, d) /\ q.at = "clear"
    BY <1>2, <1>4, <1>11, NextPoints, GoodPoints
  <2>3. BegunOK(t) => Reached(q, d, l)
    BY <1>8, <1>11, <2>1, <2>2 DEF Reached, GoodPoint
  <2> QED
    BY <2>1, <2>2, <2>3
<1>12. CASE at = "clear"
  <2>1. PICK l : /\ SetTo(d.name, l) /\ LoggerOK(d.name, l) /\ l.m_level = m_loggers[d.name].m_level
                 /\ l.m_appenders = <<>>
    BY <1>5, <1>7, <1>12, ClearStep
  <2>2. BegunOK(t) => AddedTo(l, d, 1 - 1)
    BY <1>8, <1>12, <2>1 DEF AddedTo
  <2>3. q = AddFrom(d, 1) /\ 1 \in 1..Len(d.appenders) + 1
    BY <1>2, <1>4, <1>6, <1>12, NextPoints
  <2> QED
    BY <2>1, <2>2, <2>3, AddPoints
<1>13. CASE at = "add"
  <2>1. i \in 1..Len(d.appenders) /\ d.appenders[i] \in AppenderDefines
    BY <1>1, <1>3, <1>6, <1>13
  <2>2. PICK ap : /\ ap = DefinedAppender(d.appenders[i])
                  /\ ap \in NewAppenders /\ (ap.m_hasFormatter <=> ap.m_formatter # NullFormatter)
                  /\ ap.type = d.appenders[i].type /\ ap.file = d.appenders[i].file
    BY <2>1, DefinedOK
  <2>3. PICK l, with : /\ SetTo(d.name, l) /\ LoggerOK(d.name, l) /\ l.m_level = m_loggers[d.name].m_level
                       /\ l.m_appenders = Append(m_loggers[d.name].m_appenders, with)
                       /\ with.type = ap.type /\ with.file = ap.file
    BY <1>5, <1>7, <1>13, <2>2, AddStep
  <2>4. ASSUME AddedTo(m_loggers[d.name], d, i - 1) PROVE AddedTo(l, d, i)
    <3>1. PICK s \in Seq(Appenders) : s = m_loggers[d.name].m_appenders
      BY <1>7, OneLogger, Fields DEF LoggerOK
    <3>2. Len(s) = i - 1 /\ l.m_appenders = Append(s, with)
      BY <2>3, <2>4, <3>1 DEF AddedTo
    <3>3. Len(Append(s, with)) = i /\ Append(s, with)[i] = with /\ \A j \in 1..i - 1 : Append(s, with)[j] = s[j]
      BY <2>1, <3>2
    <3>4. \A j \in 1..i - 1 : s[j].type = d.appenders[j].type /\ s[j].file = d.appenders[j].file
      BY <2>4, <3>1 DEF AddedTo
    <3>5. \A j \in 1..i : j = i \/ j \in 1..i - 1
      BY <1>2
    <3>6. l.m_level = d.level
      BY <2>3, <2>4 DEF AddedTo
    <3> QED
      BY <2>2, <2>3, <3>2, <3>3, <3>4, <3>5, <3>6 DEF AddedTo
  <2>5. q = AddFrom(d, i + 1) /\ i + 1 \in 1..Len(d.appenders) + 1 /\ (i + 1) - 1 = i
    BY <1>2, <1>4, <1>6, <1>13, <2>1, NextPoints
  <2>6. /\ q = NoPoint \/ GoodPoint(q, d)
        /\ AddedTo(l, d, i) => Reached(q, d, l)
    BY <2>5, AddPoints
  <2> QED
    BY <1>8, <1>13, <2>3, <2>4, <2>6
<1> QED
  BY <1>10, <1>11, <1>12, <1>13

-----------------------------------------------------------------------------
(* The program: loggers no document names, and new ones. *)
LEMMA Elsewhere ==
  ASSUME ILog, NEW n \in LoggerNames, NEW l, LoggerOK(n, l), SetTo(n, l), UNCHANGED cfgVars,
         n \in Own \/ (n \notin DOMAIN m_loggers /\ l.m_appenders = <<>>)
  PROVE  LogsOK' /\ Applied'
<1>1. /\ DOMAIN m_loggers' = DOMAIN m_loggers \cup {n} /\ m_loggers'[n] = l
      /\ \A x \in DOMAIN m_loggers : x # n => m_loggers'[x] = m_loggers[x]
  BY SetElsewhere
<1>2. UNCHANGED <<fr, m_val, m_cbs, overlap>>
  BY DEF cfgVars
<1>3. LogsOK'
  BY <1>1, <1>2, CallStays DEF ILog, LogsOK
<1>4. ASSUME NEW d \in Defines, d.name \in DOMAIN m_loggers
      PROVE  m_loggers'[d.name] = m_loggers[d.name]
  <2>1. d.name # n
    BY <1>4 DEF Defines
  <2> QED
    BY <1>1, <1>4, <2>1
<1>5. \A d \in Defines : AsDefined(d) => AsDefined(d)'
  BY <1>1, <1>4 DEF AsDefined
<1>6. \A x \in DOMAIN m_loggers' \ Own : x \in DOMAIN m_loggers \/ Bare(x)'
  BY <1>1 DEF Bare
<1>7. \A x \in DOMAIN m_loggers \ Own : Bare(x) => Bare(x)'
  <2> TAKE x \in DOMAIN m_loggers \ Own
  <2>1. x # n
    OBVIOUS
  <2> QED
    BY <1>1, <2>1 DEF Bare
<1>8. ASSUME NEW value \in Values, Configured(value) PROVE Configured(value)'
  <2>1. value \subseteq Defines
    BY DEF Values
  <2> QED
    BY <1>5, <1>6, <1>7, <1>8, <2>1 DEF Configured
<1>9. ASSUME NEW u \in Threads, Changing(u, "logs"), BegunOK(u) PROVE BegunOK(u)'
  <2>1. CallOK(u) /\ fr[u].v \in Values /\ fr[u].v \subseteq Defines
    BY <1>9 DEF ILog, LogsOK, CallOK, Values
  <2>2. fr[u].point # NoPoint => PointOK(fr[u].point)'
    <3> SUFFICES ASSUME fr[u].point # NoPoint PROVE PointOK(fr[u].point)'
      OBVIOUS
    <3>1. fr[u].point.d \in Defines /\ fr[u].point.d.name \in DOMAIN m_loggers
      BY <2>1 DEF CallOK, Points
    <3>2. m_loggers'[fr[u].point.d.name] = m_loggers[fr[u].point.d.name]
      BY <1>4, <3>1
    <3> QED
      BY <1>2, <1>9, <3>2 DEF BegunOK, PointOK
  <2>3. \A d \in fr[u].v : <<1, d>> \in fr[u].loop \/ AtHand(u, d.name) \/ AsDefined(d)'
    BY <1>5, <1>9, <2>1 DEF BegunOK
  <2>4. \A x \in DOMAIN m_loggers' \ (Own \cup {"root"} \cup NamesIn(fr[u].v)) :
          (\E b \in fr[u].loop : b[2].name = x) \/ AtHand(u, x) \/ Bare(x)'
    BY <1>6, <1>7, <1>9 DEF BegunOK
  <2> QED
    BY <1>2, <1>9, <2>2, <2>3, <2>4 DEF BegunOK, AtHand
<1>10. m_val["logs"] \in Values
  BY DEF ILog, LogsOK
<1>11. Configured(m_val["logs"]) => Configured(m_val["logs"])'
  <2>1. PICK value \in Values : value = m_val["logs"]
    BY <1>10
  <2> QED
    BY <1>2, <1>8, <2>1 DEF Configured, AsDefined, Bare
<1>12. Applied'
  <2>1. \A u \in Threads : /\ Changing(u, "logs")' <=> Changing(u, "logs")
                           /\ Begun(u)' <=> Begun(u)
                           /\ InCallback(u)' <=> InCallback(u)
    BY <1>2 DEF Changing, Begun, InCallback
  <2> QED
    BY <1>2, <1>9, <1>11, <2>1 DEF ILog, Applied
<1> QED
  BY <1>3, <1>12

(* SYLAR_LOG_NAME, and what the program does with its own loggers. *)
LEMMA ProgramStep ==
  ASSUME ILog, NEW t \in Threads, NEW n \in LoggerNames, GetLogger(t, n) \/ Program(t, n)
  PROVE  LoggersOK' /\ EventsOK' /\ LogsOK' /\ Applied'
<1>1. UNCHANGED <<cfgVars, ev, lost, rootSet>> /\ LoggersOK
  BY DEF GetLogger, Program, ILog
<1>2. SUFFICES \E l : /\ SetTo(n, l) /\ LoggerOK(n, l)
                      /\ n \in Own \/ (n \notin DOMAIN m_loggers /\ l.m_appenders = <<>>)
  <2>1. PICK l : /\ SetTo(n, l) /\ LoggerOK(n, l)
                 /\ n \in Own \/ (n \notin DOMAIN m_loggers /\ l.m_appenders = <<>>)
    BY <1>2
  <2>2. n # "root"
    BY <2>1, LogAssumption DEF ILog, LoggersOK
  <2>3. LoggersOK'
    BY <1>1, <2>1, <2>2, SetStep
  <2>4. EventsOK'
    <3>1. DOMAIN m_loggers' = DOMAIN m_loggers \cup {n}
      BY <2>1, SetElsewhere
    <3> QED
      BY <1>1, <3>1 DEF ILog, EventsOK
  <2>5. LogsOK' /\ Applied'
    BY <1>1, <2>1, Elsewhere
  <2> QED
    BY <2>3, <2>4, <2>5
<1>3. CASE GetLogger(t, n)
  BY <1>1, <1>3, GetStep DEF GetLogger, Exists
<1>4. CASE Program(t, n)
  <2>1. n \in Own /\ n \in DOMAIN m_loggers
    BY <1>4 DEF Program, Exists
  <2>2. ASSUME NEW level \in Levels, setLevel(n, level) PROVE \E l : SetTo(n, l) /\ LoggerOK(n, l)
    <3>1. level \in 0..FATAL
      BY LogAssumption DEF DEBUG, FATAL
    <3> QED
      BY <1>1, <2>1, <2>2, <3>1, LevelStep
  <2>3. ASSUME NEW p \in SetPatterns, setFormatter(n, p) PROVE \E l : SetTo(n, l) /\ LoggerOK(n, l)
    BY <1>1, <2>1, <2>3, LogAssumption, FormatterStep
  <2>4. ASSUME addAppender(n, NewAppender(2, "")) PROVE \E l : SetTo(n, l) /\ LoggerOK(n, l)
    <3>1. PICK ap \in NewAppenders : /\ ap = NewAppender(2, "")
                                     /\ ap.m_hasFormatter <=> ap.m_formatter # NullFormatter
      <4>1. PICK none \in Files : none = ""
        BY DEF Files
      <4>2. PICK ap : ap = NewAppender(2, none)
        OBVIOUS
      <4>3. ap = [type |-> 2, file |-> none, m_level |-> DEBUG, m_formatter |-> NullFormatter, m_hasFormatter |-> FALSE]
        BY <4>2 DEF NewAppender
      <4>4. ap \in NewAppenders /\ ap.m_hasFormatter = FALSE /\ ap.m_formatter = NullFormatter
        BY <4>3 DEF NewAppenders
      <4> QED
        BY <4>1, <4>2, <4>4, Zenon
    <3> QED
      BY <1>1, <2>1, <2>4, <3>1, AddStep
  <2>5. ASSUME m_loggers[n].m_appenders # <<>>, delAppender(n, 1) PROVE \E l : SetTo(n, l) /\ LoggerOK(n, l)
    BY <1>1, <2>1, <2>5, DelStep
  <2> QED
    BY <1>4, <2>1, <2>2, <2>3, <2>4, <2>5 DEF Program
<1> QED
  BY <1>3, <1>4

-----------------------------------------------------------------------------
(* The root logger's appender, and the root logger. *)
LEMMA RootFields ==
  ASSUME NEW aps, NEW none \in Files
  PROVE  /\ [NewLogger(FALSE) EXCEPT !.m_appenders = aps] = Logger(DEBUG, DefaultPattern, aps, FALSE)
         /\ [NewAppender(2, none) EXCEPT !.m_formatter = DefaultPattern] =
                [type |-> 2, file |-> none, m_level |-> DEBUG, m_formatter |-> DefaultPattern, m_hasFormatter |-> FALSE]
<1>1. PICK l, e, f : l = NewLogger(f) /\ e = <<>> /\ f = FALSE
  OBVIOUS
<1>2. l = [m_level |-> DEBUG, m_formatter |-> DefaultPattern, m_appenders |-> e, m_root |-> f]
  BY <1>1 DEF NewLogger
<1>3. [l EXCEPT !.m_appenders = aps] = [m_level |-> DEBUG, m_formatter |-> DefaultPattern, m_appenders |-> aps, m_root |-> f]
  BY <1>2
<1>4. PICK ap : ap = NewAppender(2, none)
  OBVIOUS
<1>5. ap = [type |-> 2, file |-> none, m_level |-> DEBUG, m_formatter |-> NullFormatter, m_hasFormatter |-> f]
  BY <1>1, <1>4 DEF NewAppender
<1>6. [ap EXCEPT !.m_formatter = DefaultPattern] =
        [type |-> 2, file |-> none, m_level |-> DEBUG, m_formatter |-> DefaultPattern, m_hasFormatter |-> f]
  BY <1>5
<1> QED
  BY <1>1, <1>3, <1>4, <1>6, Zenon DEF Logger

(* The invariant holds at first, *)
LEMMA InitILog == Init => ILog
<1> SUFFICES ASSUME Init PROVE ILog
  OBVIOUS
<1> USE LogAssumption, ConfigAssumption
<1>1. ICfg
  BY InitICfg DEF Init
<1>2. PICK root : root = [NewLogger(FALSE) EXCEPT !.m_appenders = <<[NewAppender(2, "") EXCEPT !.m_formatter = DefaultPattern]>>]
  OBVIOUS
<1>3. m_loggers = [n \in {"root"} |-> root]
  BY <1>2 DEF Init, LogInit
<1>4. PICK ap \in Appenders : /\ ap = [NewAppender(2, "") EXCEPT !.m_formatter = DefaultPattern]
                              /\ ap.m_formatter = DefaultPattern
  <2>1. PICK none \in Files : none = ""
    BY DEF Files
  <2>2. PICK ap : ap = [NewAppender(2, none) EXCEPT !.m_formatter = DefaultPattern]
    OBVIOUS
  <2>3. ap = [type |-> 2, file |-> none, m_level |-> DEBUG, m_formatter |-> DefaultPattern, m_hasFormatter |-> FALSE]
    BY <2>2, RootFields
  <2>4. ap \in Appenders /\ ap.m_formatter = DefaultPattern
    BY <2>3 DEF Appenders
  <2> QED
    BY <2>1, <2>2, <2>4, Zenon
<1>a. ap.m_formatter = DefaultPattern
  BY <1>4
<1>5. root = Logger(DEBUG, DefaultPattern, <<ap>>, FALSE)
  <2>1. PICK aps : aps = <<ap>>
    OBVIOUS
  <2>2. [NewLogger(FALSE) EXCEPT !.m_appenders = aps] = Logger(DEBUG, DefaultPattern, aps, FALSE)
    BY RootFields DEF Files
  <2> QED
    BY <1>2, <1>4, <2>1, <2>2, Zenon
<1>6. LoggerOK("root", root) /\ root.m_appenders = <<ap>>
  <2>1. PICK aps : aps = <<ap>>
    OBVIOUS
  <2>2. aps \in Seq(Appenders) /\ \A i \in 1..Len(aps) : ~aps[i].m_hasFormatter => aps[i].m_formatter = DefaultPattern
    BY <1>a, <2>1
  <2>3. DEBUG \in 0..FATAL
    BY DEF DEBUG, FATAL
  <2>4. LoggerOK("root", Logger(DEBUG, DefaultPattern, aps, FALSE))
    BY <2>2, <2>3, Builds
  <2> QED
    BY <1>5, <2>1, <2>4 DEF Logger
<1>7. LoggersOK
  <2>1. root \in Loggers /\ root.m_appenders \in Seq(Appenders) /\ root.m_appenders # <<>>
    BY <1>6, Fields DEF LoggerOK
  <2>2. AppendersFormatted
    <3> SUFFICES ASSUME NEW i \in 1..Len(root.m_appenders)
                 PROVE  /\ root.m_appenders[i].m_formatter # NullFormatter
                        /\ ~root.m_appenders[i].m_hasFormatter => root.m_appenders[i].m_formatter = root.m_formatter
      BY <1>3 DEF AppendersFormatted
    <3>1. root.m_appenders[i] \in Appenders
      BY <2>1
    <3> QED
      BY <1>6, <3>1 DEF LoggerOK, Appenders, Formatters
  <2>3. ~lost
    BY DEF Init, LogInit
  <2> QED
    BY <1>3, <2>1, <2>2, <2>3 DEF LoggersOK, NoEventLost
<1>8. EventsOK
  BY DEF Init, LogInit, EventsOK, Events, NoEvent
<1>9. \A t \in Threads : fr[t] = Resume(<<>>) /\ ~Changing(t, "logs")
  BY DEF Init, CfgInit, Resume, Idle, Changing
<1>10. LogsOK
  <2>1. m_val["logs"] \in Values /\ m_cbs["logs"] = {1}
    BY DEF Init, CfgInit, Values
  <2>2. ASSUME NEW t \in Threads PROVE CallOK(t)
    <3>1. PICK rest \in Seq(Members) : fr[t] = Resume(rest)
      BY <1>9, EmptySeq
    <3> QED
      BY <1>9, <3>1, ResumeFields DEF CallOK, InCallback
  <2> QED
    BY <2>1, <2>2 DEF LogsOK
<1>11. Applied
  <2>1. m_val["logs"] = {}
    BY DEF Init, CfgInit
  <2> QED
    BY <1>3, <1>9, <2>1 DEF Applied, Configured
<1> QED
  BY <1>1, <1>7, <1>8, <1>10, <1>11 DEF ILog

(* and every step keeps it. *)
LEMMA StepILog ==
  ASSUME ILog, [Next]_vars
  PROVE  ILog'
<1>1. ICfg'
  BY LogStepICfg DEF ILog
<1>2. CASE UNCHANGED vars
  <2>1. LogsOK' /\ Applied'
    BY <1>2, Stays DEF vars, logVars, ILog
  <2>2. LoggersOK' /\ EventsOK'
    BY <1>2 DEF vars, logVars, ILog, LoggersOK, EventsOK, NoEventLost, AppendersFormatted
  <2> QED
    BY <1>1, <2>1, <2>2 DEF ILog
<1>3. ASSUME NEW t \in Threads, CfgStep(t), UNCHANGED logVars
      PROVE  LoggersOK' /\ EventsOK' /\ LogsOK' /\ Applied'
  <2>1. LogsOK' /\ Applied'
    BY <1>3, LogCfgStep DEF logVars
  <2>2. LoggersOK' /\ EventsOK'
    BY <1>3 DEF logVars, ILog, LoggersOK, EventsOK, NoEventLost, AppendersFormatted
  <2> QED
    BY <2>1, <2>2
<1>4. ASSUME NEW t \in Threads, RunListener(t)
      PROVE  LoggersOK' /\ EventsOK' /\ LogsOK' /\ Applied'
  <2>1. LogsOK' /\ Applied'
    BY <1>4, RunStep
  <2>2. LoggersOK' /\ EventsOK'
    BY <1>4 DEF RunListener, logVars, ILog, LoggersOK, EventsOK, NoEventLost, AppendersFormatted
  <2> QED
    BY <2>1, <2>2
<1>5. ASSUME NEW t \in Threads, ListenerStep(t)
      PROVE  LoggersOK' /\ EventsOK' /\ LogsOK' /\ Applied'
  BY <1>5, NextStep, HandStep
<1>6. CASE Next
  <2>1. LoggersOK' /\ EventsOK' /\ LogsOK' /\ Applied'
    BY <1>3, <1>4, <1>5, <1>6, ProgramStep, EventStep DEF Next, EventSteps
  <2> QED
    BY <1>1, <2>1 DEF ILog
<1> QED
  BY <1>2, <1>6

(* An event that passed the levels is written by an appender, of its       *)
(* logger or of the root, unless the configuration names the root logger:  *)
(* Logger::log against clearAppenders, addAppender and reconfigurations.   *)
THEOREM NoEventLostCorrect == Spec => []NoEventLost
<1>1. ILog => NoEventLost
  BY DEF ILog, LoggersOK
<1> QED
  BY InitILog, StepILog, <1>1, PTL DEF Spec

(* Every appender has a formatter, its own or the one of its logger:       *)
(* Logger::setFormatter and addAppender, from whichever thread.            *)
THEOREM AppendersFormattedCorrect == Spec => []AppendersFormatted
<1>1. ILog => AppendersFormatted
  BY DEF ILog, LoggersOK
<1> QED
  BY InitILog, StepILog, <1>1, PTL DEF Spec

(* Changes of "logs" that do not overlap leave the loggers as the value    *)
(* says: the loops of LogIniter's listener, whatever the other threads do. *)
THEOREM LoggersAppliedCorrect == Spec => []LoggersApplied
<1>1. ILog => LoggersApplied
  BY DEF ILog, Applied, LoggersApplied, Configured, AsDefined, AddedTo, Bare, NamesIn
<1> QED
  BY InitILog, StepILog, <1>1, PTL DEF Spec

-----------------------------------------------------------------------------
(* What is saved of "logs" is read back. *)

(* The names of two levels are different, and none is empty. *)
LEMMA NamesDiffer ==
  /\ \A l \in DEBUG..FATAL, k \in DEBUG..FATAL : LevelNames[l] \in {LevelNames[k], LowerNames[k]} => l = k
  /\ \A l \in DEBUG..FATAL : LevelNames[l] # NoName /\ LowerNames[l] # NoName
<1>1. \A l \in DEBUG..FATAL : l \in {1, 2, 3, 4, 5}
  BY DEF DEBUG, FATAL
<1>2. /\ LevelNames[1] = "DEBUG" /\ LevelNames[2] = "INFO" /\ LevelNames[3] = "WARN" /\ LevelNames[4] = "ERROR"
      /\ LevelNames[5] = "FATAL"
  BY DEF LevelNames
<1>3. /\ LowerNames[1] = "debug" /\ LowerNames[2] = "info" /\ LowerNames[3] = "warn" /\ LowerNames[4] = "error"
      /\ LowerNames[5] = "fatal"
  BY DEF LowerNames
<1>4. \A l \in DEBUG..FATAL, k \in DEBUG..FATAL : LevelNames[l] \in {LevelNames[k], LowerNames[k]} => l = k
  BY <1>1, <1>2, <1>3
<1>5. /\ NoName # "DEBUG" /\ NoName # "INFO" /\ NoName # "WARN" /\ NoName # "ERROR" /\ NoName # "FATAL"
      /\ NoName # "debug" /\ NoName # "info" /\ NoName # "warn" /\ NoName # "error" /\ NoName # "fatal"
  BY Zenon DEF NoName
<1>6. \A l \in DEBUG..FATAL : LevelNames[l] # NoName /\ LowerNames[l] # NoName
  BY <1>1, <1>2, <1>3, <1>5
<1> QED
  BY <1>4, <1>6

(* A level is read back, *)
LEMMA LevelReadsBack ==
  ASSUME NEW level \in 0..FATAL
  PROVE  FromString(LevelToYaml(level)) = level
<1>1. CASE level = UNKNOW
  <2>1. LevelToYaml(level) = NoName
    BY <1>1 DEF LevelToYaml, NoName
  <2>2. ~\E l \in DEBUG..FATAL : NoName \in {LevelNames[l], LowerNames[l]}
    BY NamesDiffer
  <2> QED
    BY <1>1, <2>1, <2>2 DEF FromString
<1>2. CASE level # UNKNOW
  <2>1. level \in DEBUG..FATAL
    BY <1>2 DEF UNKNOW, DEBUG, FATAL
  <2>2. LevelToYaml(level) = LevelNames[level]
    BY <1>2, <2>1, Zenon DEF LevelToYaml, LevelToString
  <2> DEFINE P(l) == LevelNames[level] \in {LevelNames[l], LowerNames[l]}
  <2>3. P(level)
    OBVIOUS
  <2>4. \A l \in DEBUG..FATAL : P(l) => l = level
    BY <2>1, NamesDiffer
  <2> HIDE DEF P
  <2>5. (CHOOSE l \in DEBUG..FATAL : P(l)) = level
    BY <2>1, <2>3, <2>4
  <2>6. \E l \in DEBUG..FATAL : P(l)
    BY <2>1, <2>3
  <2> QED
    BY <2>2, <2>5, <2>6 DEF FromString, P
<1> QED
  BY <1>1, <1>2

(* and a file appender; the name that is written for the terminal is not known. *)
LEMMA AppenderReadsBack ==
  ASSUME NEW a \in AppenderDefines
  PROVE  /\ FileOrStdout(AppenderToYaml(a)) <=> a.type = 1
         /\ a.type = 1 => AppenderFromYaml(AppenderToYaml(a)) = a
<1>1. /\ a \in [type : {1, 2}, level : {UNKNOW}, formatter : Formatters, file : Files]
      /\ a.type = 1 => a.file # NoName
  BY DEF AppenderDefines
<1>2. a.type \in {1, 2} /\ a = [type |-> a.type, level |-> UNKNOW, formatter |-> a.formatter, file |-> a.file]
  BY <1>1
<1>3. PICK y : y = AppenderToYaml(a)
  OBVIOUS
<1>4. CASE a.type = 1
  <2>1. y.type = "FileLogAppender" /\ y.file = a.file /\ y.formatter = a.formatter
    BY <1>3, <1>4 DEF AppenderToYaml
  <2>2. y.file # NoName
    BY <1>1, <1>4, <2>1
  <2>3. FileOrStdout(y)
    BY <2>1, <2>2, Zenon DEF FileOrStdout, NoName
  <2>4. AppenderFromYaml(y) = [type |-> 1, level |-> UNKNOW, formatter |-> a.formatter, file |-> a.file]
    BY <2>1, Zenon DEF AppenderFromYaml
  <2> QED
    BY <1>2, <1>3, <1>4, <2>3, <2>4
<1>5. CASE a.type = 2
  <2>1. a.type # 1
    BY <1>5
  <2>2. y.type = "StdoutAppender"
    BY <1>3, <2>1 DEF AppenderToYaml
  <2>3. ~FileOrStdout(y)
    BY <2>2, Zenon DEF FileOrStdout
  <2> QED
    BY <1>3, <2>1, <2>3
<1> QED
  BY <1>2, <1>4, <1>5

(* The elements of s at the places at. *)
Picked(s, at) == [k \in 1..Len(at) |-> s[at[k]]]

(* What is kept of a sequence, place by place. *)
LEMMA KeptAt ==
  ASSUME NEW S, NEW s \in Seq(S), NEW I, NEW n \in Nat, n = Len(s), NEW at, at = Ordered(n, I)
  PROVE  /\ Kept(s, I) = Picked(s, at) /\ Len(at) \in Nat
         /\ \A k \in 1..Len(at) : at[k] \in I \cap (1..n)
<1>1. at \in Seq(I \cap (1..n))
  BY OrderedIs
<1>2. Len(at) \in Nat /\ \A k \in 1..Len(at) : at[k] \in I \cap (1..n)
  BY <1>1, LenProperties, ElementOfSeq
<1>3. Kept(s, I) = Picked(s, at)
  BY DEF Kept, Picked
<1> QED
  BY <1>2, <1>3

(* The appenders that are read and written. *)
AppendersRead(y) == [i \in 1..Len(Known(y)) |-> AppenderFromYaml(Known(y)[i])]
AppendersWritten(aps) == [i \in 1..Len(aps) |-> AppenderToYaml(aps[i])]

(* The appenders that are read back, *)
LEMMA AppendersReadBack ==
  ASSUME NEW aps \in Seq(AppenderDefines), NEW y, y.appenders = AppendersWritten(aps),
         NEW files, files = {i \in 1..Len(aps) : aps[i].type = 1}
  PROVE  AppendersRead(y) = Kept(aps, files)
<1>1. PICK n \in Nat : n = Len(aps)
  BY LenProperties
<1>2. \A i \in 1..n : aps[i] \in AppenderDefines
  BY <1>1, ElementOfSeq
<1>3. PICK nodes : nodes = [i \in 1..n |-> AppenderToYaml(aps[i])]
  OBVIOUS
<1>4. PICK S : S = {AppenderToYaml(aps[i]) : i \in 1..n}
  OBVIOUS
<1>5. nodes \in [1..n -> S] /\ \A i \in 1..n : nodes[i] = AppenderToYaml(aps[i])
  BY <1>3, <1>4
<1>6. nodes \in Seq(S) /\ Len(nodes) = n
  BY <1>5, SeqDef
<1>7. y.appenders = nodes
  BY <1>1, <1>3 DEF AppendersWritten
<1>8. {i \in 1..n : FileOrStdout(nodes[i])} = files
  <2>1. \A i \in 1..n : FileOrStdout(nodes[i]) <=> aps[i].type = 1
    BY <1>2, <1>5, AppenderReadsBack
  <2> QED
    BY <1>1, <2>1
<1>9. PICK at : at = Ordered(n, files)
  OBVIOUS
<1>10. PICK m \in Nat : m = Len(at)
  BY <1>1, <1>9, KeptAt
<1>11. \A k \in 1..m : at[k] \in files /\ at[k] \in 1..n
  BY <1>1, <1>9, <1>10, KeptAt
<1>12. Kept(aps, files) = [k \in 1..m |-> aps[at[k]]]
  <2>1. Kept(aps, files) = Picked(aps, at)
    BY <1>1, <1>9, KeptAt
  <2> QED
    BY <1>10, <2>1 DEF Picked
<1>13. PICK known : known = [k \in 1..m |-> nodes[at[k]]]
  OBVIOUS
<1>14. Known(y) = known
  <2>1. Kept(nodes, files) = known
    <3>1. Kept(nodes, files) = Picked(nodes, at)
      BY <1>6, <1>9, KeptAt
    <3> QED
      BY <1>10, <1>13, <3>1 DEF Picked
  <2>2. Known(y) = Kept(nodes, {i \in 1..n : FileOrStdout(nodes[i])})
    BY <1>6, <1>7 DEF Known
  <2> QED
    BY <1>8, <2>1, <2>2
<1>15. ASSUME NEW k \in 1..m PROVE known[k] \in S /\ AppenderFromYaml(known[k]) = aps[at[k]]
  <2>1. PICK i \in 1..n : i = at[k] /\ aps[i].type = 1
    BY <1>1, <1>11
  <2>2. known[k] = nodes[i] /\ nodes[i] = AppenderToYaml(aps[i]) /\ nodes[i] \in S
    BY <1>5, <1>13, <2>1
  <2>3. AppenderFromYaml(AppenderToYaml(aps[i])) = aps[i]
    BY <1>2, <2>1, AppenderReadsBack
  <2> QED
    BY <2>1, <2>2, <2>3
<1>16. known \in [1..m -> S]
  BY <1>13, <1>15
<1>17. Len(known) = m
  BY <1>16, SeqDef
<1>18. [k \in 1..m |-> AppenderFromYaml(known[k])] = [k \in 1..m |-> aps[at[k]]]
  BY <1>15
<1> QED
  BY <1>12, <1>14, <1>17, <1>18 DEF AppendersRead

(* and the definition of a logger. *)
LEMMA DefineReadsBack ==
  ASSUME NEW d \in Defines, NEW files, files = {i \in 1..Len(d.appenders) : d.appenders[i].type = 1}
  PROVE  DefineFromYaml(DefineToYaml(d)) = [d EXCEPT !.appenders = Kept(@, files)]
<1>1. /\ d = [name |-> d.name, level |-> d.level, formatter |-> d.formatter, appenders |-> d.appenders]
      /\ d.level \in 0..FATAL /\ d.appenders \in Seq(AppenderDefines)
  BY DEF Defines
<1>2. PICK y : y = DefineToYaml(d)
  OBVIOUS
<1>3. /\ y.name = d.name /\ y.level = LevelToYaml(d.level) /\ y.formatter = d.formatter
      /\ y.appenders = AppendersWritten(d.appenders)
  BY <1>2 DEF DefineToYaml, AppendersWritten
<1>4. FromString(y.level) = d.level
  BY <1>1, <1>3, LevelReadsBack
<1>5. PICK kept : kept = Kept(d.appenders, files)
  OBVIOUS
<1>6. AppendersRead(y) = kept
  BY <1>1, <1>3, <1>5, AppendersReadBack
<1>7. DefineFromYaml(y) = [name |-> d.name, level |-> d.level, formatter |-> d.formatter, appenders |-> kept]
  BY <1>3, <1>4, <1>6, Zenon DEF DefineFromYaml, AppendersRead
<1>8. [d EXCEPT !.appenders = kept] = [name |-> d.name, level |-> d.level, formatter |-> d.formatter, appenders |-> kept]
  BY <1>1
<1> QED
  BY <1>2, <1>5, <1>7, <1>8
-----------------------------------------------------------------------------
(* The containers of Config read back what they write. *)

(* The values of a function on a set. *)
On(D, val) == [i \in D |-> val[i]]

(* What is made of entries none of which throws. *)
LEMMA ElementsAre ==
  ASSUME NEW D, NEW results, DOMAIN results = D, NEW val, \A i \in D : results[i] = {val[i]}
  PROVE  Elements(results) = {On(D, val)}
<1>1. ~\E i \in D : results[i] = {}
  OBVIOUS
<1>2. \A i \in D : (CHOOSE v \in results[i] : TRUE) = val[i]
  OBVIOUS
<1>3. Elements(results) = {[i \in D |-> CHOOSE v \in results[i] : TRUE]}
  BY <1>1, Zenon DEF Elements
<1>4. [i \in D |-> CHOOSE v \in results[i] : TRUE] = [i \in D |-> val[i]]
  BY <1>2
<1> QED
  BY <1>3, <1>4 DEF On

(* The first of equal elements stands for all of them. *)
LEMMA DistinctAre ==
  ASSUME NEW n \in Nat, NEW vec, DOMAIN vec = 1..n
  PROVE  Distinct(vec, vec) = {vec[i] : i \in 1..n}
<1>1. ASSUME NEW i \in 1..n
      PROVE  \E j \in 1..n : vec[j] = vec[i] /\ \A k \in 1..j-1 : vec[k] # vec[j]
  <2>1. PICK T : T = {j \in 1..n : vec[j] = vec[i]}
    OBVIOUS
  <2>2. T \subseteq Nat /\ i \in T
    BY <2>1
  <2>3. PICK j \in T : \A m \in T : j <= m
    BY <2>2, LeastElement
  <2>4. j \in 1..n /\ vec[j] = vec[i]
    BY <2>1, <2>3
  <2>5. ASSUME NEW k \in 1..j-1 PROVE vec[k] # vec[j]
    BY <2>1, <2>3, <2>4
  <2> QED
    BY <2>4, <2>5
<1>2. PICK F : F = {j \in 1..n : \A k \in 1..j-1 : vec[k] # vec[j]}
  OBVIOUS
<1>3. Distinct(vec, vec) = {vec[i] : i \in F}
  BY <1>2, Zenon DEF Distinct
<1>4. ASSUME NEW i \in 1..n PROVE \E j \in F : vec[j] = vec[i]
  BY <1>1, <1>2
<1>5. F \subseteq 1..n
  BY <1>2
<1>6. {vec[i] : i \in F} = {vec[i] : i \in 1..n}
  BY <1>4, <1>5, Zenon
<1> QED
  BY <1>3, <1>6

(* q lists every element of S, and lists it once. *)
Lists(q, n, S) ==
  /\ q \in [1..n -> S]
  /\ \A i \in 1..n, j \in 1..n : q[i] = q[j] => i = j
  /\ \A x \in S : \E i \in 1..n : q[i] = x

(* SetToSeq lists every element of a finite set, and lists it once. *)
LEMMA Listed ==
  ASSUME NEW S, IsFiniteSet(S), NEW q, q = SetToSeq(S)
  PROVE  \E n \in Nat : Lists(q, n, S)
<1>1. PICK n \in Nat : n = Cardinality(S)
  BY FS_CardinalityType
<1>2. ExistsBijection(1..n, S)
  BY <1>1, FS_CardinalityType
<1>3. \E f \in [1..n -> S] : IsInjective(f)
  BY <1>2 DEF ExistsBijection, Bijection, Injection
<1>4. q \in [1..n -> S] /\ IsInjective(q)
  BY <1>1, <1>3 DEF SetToSeq
<1>5. q \in Injection(1..n, S)
  BY <1>4 DEF Injection
<1>6. Cardinality(1..n) = n
  <2>1. 1 \in Int /\ n \in Int
    OBVIOUS
  <2> QED
    BY <2>1, FS_Interval
<1>7. q \in Surjection(1..n, S)
  BY <1>1, <1>5, <1>6, FS_Injection
<1> QED
  BY <1>4, <1>7 DEF IsInjective, Surjection, Lists

(* A function on an interval from 1 has its last place as its length. *)
LEMMA LengthIs ==
  ASSUME NEW n \in Nat, NEW f, f = [i \in 1..n |-> f[i]]
  PROVE  Len(f) = n
<1>1. f \in [1..n -> {f[i] : i \in 1..n}]
  OBVIOUS
<1> QED
  BY <1>1, SeqDef

(* The entries of a sequence, *)
LEMMA VectorEntries ==
  ASSUME NEW n \in Nat, NEW w, DOMAIN w = 1..n, NEW node, node = FromVector(w)
  PROVE  /\ node.kind = "sequence" /\ Len(node.items) = n
         /\ \A i \in 1..n : node.items[i][2] = Load(w[i])
<1>1. PICK loaded : loaded = [i \in 1..n |-> Load(w[i])]
  OBVIOUS
<1>2. Len(loaded) = n
  BY <1>1, LengthIs
<1>3. PICK items : items = [i \in 1..n |-> <<NoName, loaded[i]>>]
  OBVIOUS
<1>4. node = [kind |-> "sequence", text |-> NoName, items |-> items]
  BY <1>1, <1>2, <1>3, Zenon DEF FromVector, Sequence, NoName
<1>5. Len(items) = n
  BY <1>3, LengthIs
<1> QED
  BY <1>1, <1>3, <1>4, <1>5

(* and of a map. *)
LEMMA MapEntries ==
  ASSUME NEW n \in Nat, NEW w, NEW keys, keys = SetToSeq(DOMAIN w), DOMAIN keys = 1..n,
         NEW node, node = FromMap(w)
  PROVE  /\ DOMAIN node.items = 1..n /\ Len(node.items) = n
         /\ \A i \in 1..n : node.items[i][1] = keys[i] /\ node.items[i][2] = Load(w[keys[i]])
<1>1. PICK items : items = [i \in 1..n |-> <<keys[i], Load(w[keys[i]])>>]
  OBVIOUS
<1>2. node = [kind |-> "map", text |-> NoName, items |-> items]
  BY <1>1, Zenon DEF FromMap, NoName
<1>3. Len(items) = n
  BY <1>1, LengthIs
<1> QED
  BY <1>1, <1>2, <1>3

(* The map that ToMap makes of the values vec of the entries. *)
MapOf(node, vec) ==
  [k \in {node.items[i][1] : i \in DOMAIN node.items} |->
     vec[Min({i \in DOMAIN node.items : node.items[i][1] = k})]]

(* The entries of node have the keys, and are read as their values. *)
Reads(node, results, n, keys, val) ==
  /\ DOMAIN node.items = 1..n /\ DOMAIN results = 1..n
  /\ \A i \in 1..n : node.items[i][1] = keys[i] /\ results[i] = {val[keys[i]]}

(* A map whose keys differ is read entry by entry. *)
LEMMA MapIs ==
  ASSUME NEW n \in Nat, NEW D, NEW keys, Lists(keys, n, D),
         NEW node, NEW results, NEW val, Reads(node, results, n, keys, val)
  PROVE  ToMap(node, results) = {On(D, val)}
<1> USE DEF Lists, Reads
<1>1. PICK vec : vec = [i \in 1..n |-> val[keys[i]]]
  OBVIOUS
<1>2. Elements(results) = {On(1..n, vec)}
  <2>1. \A i \in 1..n : results[i] = {vec[i]}
    BY <1>1
  <2> QED
    BY <2>1, ElementsAre
<1>3. Elements(results) = {vec}
  BY <1>1, <1>2 DEF On
<1>4. ToMap(node, results) = {MapOf(node, v) : v \in Elements(results)}
  BY Zenon DEF ToMap, MapOf
<1>5. ToMap(node, results) = {MapOf(node, vec)}
  BY <1>3, <1>4
<1>6. {node.items[i][1] : i \in DOMAIN node.items} = D
  OBVIOUS
<1>7. ASSUME NEW k \in D PROVE vec[Min({i \in DOMAIN node.items : node.items[i][1] = k})] = val[k]
  <2>1. PICK i \in 1..n : keys[i] = k
    OBVIOUS
  <2>2. {j \in DOMAIN node.items : node.items[j][1] = k} = {i}
    BY <2>1
  <2>3. Min({i}) = i
    BY DEF Min
  <2>4. vec[i] = val[k]
    BY <1>1, <2>1
  <2> QED
    BY <2>2, <2>3, <2>4, Zenon
<1>8. MapOf(node, vec) = On(D, val)
  BY <1>6, <1>7 DEF MapOf, On
<1> QED
  BY <1>5, <1>8

(* The node of a string is read as the string, with the null node in place of an empty one. *)
LEMMA ScalarReads ==
  ASSUME NEW x
  PROVE  StringOf(Load(Scalar(x))) = {Reread(x)}
<1>1. \A y : Scalar(y).kind = "scalar" /\ Scalar(y).text = y
  BY DEF Scalar
<1>2. CASE x = NoName
  <2>1. Load(Scalar(x)) = Scalar("~")
    BY <1>1, <1>2, Zenon DEF Load, NoName
  <2>2. Reread(x) = "~"
    BY <1>2, Zenon DEF Reread, NoName
  <2>3. StringOf(Scalar("~")) = {"~"}
    BY <1>1, Zenon DEF StringOf
  <2> QED
    BY <2>1, <2>2, <2>3
<1>3. CASE x # NoName
  <2>1. Load(Scalar(x)) = Scalar(x)
    BY <1>1, <1>3, Zenon DEF Load, NoName
  <2>2. Reread(x) = x
    BY <1>3, Zenon DEF Reread, NoName
  <2>3. StringOf(Scalar(x)) = {x}
    BY <1>1, Zenon DEF StringOf
  <2> QED
    BY <2>1, <2>2, <2>3
<1> QED
  BY <1>2, <1>3

(* A sequence is written as it is. *)
LEMMA SequenceLoads ==
  ASSUME NEW node, node.kind = "sequence"
  PROVE  Load(node) = node
<1>1. node.kind # "scalar"
  BY Zenon
<1> QED
  BY <1>1, Zenon DEF Load

(* The values of a container that are read back. *)
RereadAll(v) == [i \in DOMAIN v |-> Reread(v[i])]

(* A vector of strings, of whatever length, *)
LEMMA VectorReadsBack ==
  ASSUME NEW n \in Nat, NEW v, DOMAIN v = 1..n
  PROVE  Elements(Strings(FromVector(Scalars(v)))) = {RereadAll(v)}
<1>1. PICK w : w = Scalars(v)
  OBVIOUS
<1>2. DOMAIN w = 1..n /\ \A i \in 1..n : w[i] = Scalar(v[i])
  BY <1>1 DEF Scalars
<1>3. PICK node : node = FromVector(w)
  OBVIOUS
<1>4. Len(node.items) = n /\ \A i \in 1..n : node.items[i][2] = Load(w[i])
  BY <1>2, <1>3, VectorEntries
<1>5. PICK results : results = Strings(node)
  OBVIOUS
<1>6. DOMAIN results = 1..n /\ \A i \in 1..n : results[i] = StringOf(node.items[i][2])
  BY <1>4, <1>5 DEF Strings
<1>7. PICK all : all = RereadAll(v)
  OBVIOUS
<1>8. all = On(1..n, all) /\ \A i \in 1..n : all[i] = Reread(v[i])
  BY <1>7 DEF RereadAll, On
<1>9. ASSUME NEW i \in 1..n PROVE results[i] = {all[i]}
  BY <1>2, <1>4, <1>6, <1>8, ScalarReads
<1>10. Elements(results) = {On(1..n, all)}
  BY <1>6, <1>9, ElementsAre
<1> QED
  BY <1>1, <1>3, <1>5, <1>7, <1>8, <1>10

(* and one without an empty string is the same again. *)
LEMMA InnerReadsBack ==
  ASSUME NEW v \in Vectors({"a"})
  PROVE  /\ Elements(Strings(FromVector(Scalars(v)))) = {v}
         /\ Load(FromVector(Scalars(v))) = FromVector(Scalars(v))
<1>1. PICK n \in 0..2 : v \in [1..n -> {"a"}]
  BY DEF Vectors
<1>2. n \in Nat /\ DOMAIN v = 1..n
  BY <1>1
<1>3. Reread("a") = "a"
  BY Zenon DEF Reread
<1>4. RereadAll(v) = v
  BY <1>1, <1>3 DEF RereadAll
<1>5. Elements(Strings(FromVector(Scalars(v)))) = {v}
  BY <1>2, <1>4, VectorReadsBack
<1>6. PICK w : w = Scalars(v)
  OBVIOUS
<1>7. DOMAIN w = 1..n
  BY <1>2, <1>6 DEF Scalars
<1>8. FromVector(w).kind = "sequence"
  BY <1>2, <1>7, VectorEntries
<1> QED
  BY <1>5, <1>6, <1>8, SequenceLoads

(* A set is read back as the values val of its nodes. *)
LEMMA SetReads ==
  ASSUME NEW N, IsFiniteSet(N), NEW node, node = FromSetOf(N), NEW results,
         DOMAIN results = 1..Len(node.items), NEW val,
         \A i \in 1..Len(node.items), x \in N : node.items[i][2] = Load(x) => results[i] = {val[x]}
  PROVE  ToSetOf(results) = {{val[x] : x \in N}}
<1>1. PICK q : q = SetToSeq(N)
  OBVIOUS
<1>2. PICK n \in Nat : q \in [1..n -> N] /\ \A x \in N : \E i \in 1..n : q[i] = x
  <2>1. PICK n \in Nat : Lists(q, n, N)
    BY <1>1, Listed
  <2> QED
    BY <2>1 DEF Lists
<1>3. node = FromVector(q) /\ DOMAIN q = 1..n
  BY <1>1, <1>2 DEF FromSetOf
<1>4. Len(node.items) = n /\ \A i \in 1..n : node.items[i][2] = Load(q[i])
  BY <1>3, VectorEntries
<1>5. PICK vec : vec = [i \in 1..n |-> val[q[i]]]
  OBVIOUS
<1>6. DOMAIN vec = 1..n /\ vec = On(1..n, vec) /\ \A i \in 1..n : vec[i] = val[q[i]]
  BY <1>5 DEF On
<1>7. ASSUME NEW i \in 1..n PROVE results[i] = {vec[i]}
  BY <1>2, <1>4, <1>6
<1>8. DOMAIN results = 1..n
  BY <1>4
<1>9. Elements(results) = {vec}
  BY <1>6, <1>7, <1>8, ElementsAre
<1>10. ToSetOf(results) = {Distinct(vec, vec)}
  BY <1>9 DEF ToSetOf
<1>11. Distinct(vec, vec) = {vec[i] : i \in 1..n}
  BY <1>6, DistinctAre
<1>12. {vec[i] : i \in 1..n} = {val[x] : x \in N}
  BY <1>2, <1>6
<1> QED
  BY <1>10, <1>11, <1>12

(* The image of a finite set is finite. *)
LEMMA ImageFinite ==
  ASSUME NEW S, IsFiniteSet(S), NEW f, DOMAIN f = S, f = [x \in S |-> f[x]]
  PROVE  IsFiniteSet({f[x] : x \in S})
<1>1. PICK T : T = {f[x] : x \in S}
  OBVIOUS
<1>2. f \in Surjection(S, T)
  BY <1>1 DEF Surjection
<1> QED
  BY <1>1, <1>2, FS_Surjection

(* The strings and the vectors are finitely many. *)
LEMMA DataFinite == IsFiniteSet(Texts) /\ IsFiniteSet({"k", "l"}) /\ IsFiniteSet(Vectors({"a"}))
<1>1. IsFiniteSet({NoName} \cup {"~"} \cup {"a"}) /\ IsFiniteSet({"k"} \cup {"l"})
  BY FS_Singleton, FS_AddElement
<1>2. Texts = {NoName} \cup {"~"} \cup {"a"}
  <2>1. \A x : x \in Texts <=> x = NoName \/ x = "~" \/ x = "a"
    BY Zenon DEF Texts, NoName
  <2> QED
    BY <2>1, Zenon
<1>3. {"k"} \cup {"l"} = {"k", "l"}
  OBVIOUS
<1>4. IsFiniteSet(0..2)
  <2>1. 0 \in Int /\ 2 \in Int
    OBVIOUS
  <2> QED
    BY <2>1, FS_Interval, Zenon
<1>5. PICK f : f = [n \in 0..2 |-> [i \in 1..n |-> "a"]]
  OBVIOUS
<1>6. Vectors({"a"}) = {f[n] : n \in 0..2}
  <2>1. ASSUME NEW n \in 0..2 PROVE [1..n -> {"a"}] = {f[n]}
    BY <1>5
  <2> QED
    BY <2>1 DEF Vectors
<1>7. IsFiniteSet({f[n] : n \in 0..2})
  BY <1>4, <1>5, ImageFinite
<1> QED
  BY <1>1, <1>2, <1>3, <1>6, <1>7

(* Vectors, *)
LEMMA VectorsReadBack ==
  /\ \A v \in Vectors(Texts) : Elements(Strings(FromVector(Scalars(v)))) = {RereadAll(v)}
  /\ \A v \in Vectors(Vectors({"a"})) : Elements(Nested(FromVector(Nest(v)))) = {v}
<1>1. ASSUME NEW v \in Vectors(Texts)
      PROVE  Elements(Strings(FromVector(Scalars(v)))) = {RereadAll(v)}
  <2>1. PICK n \in 0..2 : v \in [1..n -> Texts]
    BY DEF Vectors
  <2>2. n \in Nat /\ DOMAIN v = 1..n
    BY <2>1
  <2> QED
    BY <2>2, VectorReadsBack
<1>2. ASSUME NEW v \in Vectors(Vectors({"a"})) PROVE Elements(Nested(FromVector(Nest(v)))) = {v}
  <2>0. PICK V : V = Vectors({"a"})
    OBVIOUS
  <2>1. PICK n \in 0..2 : v \in [1..n -> V]
    BY <2>0 DEF Vectors
  <2>2. n \in Nat /\ DOMAIN v = 1..n /\ v = On(1..n, v) /\ \A i \in 1..n : v[i] \in Vectors({"a"})
    BY <2>0, <2>1 DEF On
  <2>3. PICK w : w = Nest(v)
    OBVIOUS
  <2>4. DOMAIN w = 1..n /\ \A i \in 1..n : w[i] = FromVector(Scalars(v[i]))
    BY <2>2, <2>3 DEF Nest
  <2>5. PICK node : node = FromVector(w)
    OBVIOUS
  <2>6. Len(node.items) = n /\ \A i \in 1..n : node.items[i][2] = Load(w[i])
    BY <2>2, <2>4, <2>5, VectorEntries
  <2>7. PICK results : results = Nested(node)
    OBVIOUS
  <2>8. DOMAIN results = 1..n /\ \A i \in 1..n : results[i] = Elements(Strings(node.items[i][2]))
    BY <2>6, <2>7 DEF Nested
  <2>9. ASSUME NEW i \in 1..n PROVE results[i] = {v[i]}
    BY <2>2, <2>4, <2>6, <2>8, InnerReadsBack
  <2>10. Elements(results) = {On(1..n, v)}
    BY <2>8, <2>9, ElementsAre
  <2> QED
    BY <2>2, <2>3, <2>5, <2>7, <2>10
<1> QED
  BY <1>1, <1>2

(* sets of strings, *)
LEMMA SetReadsBack ==
  ASSUME NEW s \in SUBSET Texts
  PROVE  ToSetOf(Strings(FromSetOf({Scalar(x) : x \in s}))) = {{Reread(x) : x \in s}}
<1>1. PICK N : N = {Scalar(x) : x \in s}
  OBVIOUS
<1>2. IsFiniteSet(N)
  <2>1. IsFiniteSet(s)
    BY DataFinite, FS_Subset
  <2>2. PICK f : f = [x \in s |-> Scalar(x)]
    OBVIOUS
  <2>3. IsFiniteSet({f[x] : x \in s})
    BY <2>1, <2>2, ImageFinite
  <2>4. {f[x] : x \in s} = N
    BY <1>1, <2>2
  <2> QED
    BY <2>3, <2>4
<1>3. PICK node : node = FromSetOf(N)
  OBVIOUS
<1>4. PICK results : results = Strings(node)
  OBVIOUS
<1>5. /\ DOMAIN results = 1..Len(node.items)
      /\ \A i \in 1..Len(node.items) : results[i] = StringOf(node.items[i][2])
  BY <1>4 DEF Strings
<1>6. PICK val : val = [x \in N |-> Reread(x.text)]
  OBVIOUS
<1>7. ASSUME NEW x \in s PROVE Scalar(x) \in N /\ val[Scalar(x)] = Reread(x)
  <2>1. Scalar(x) \in N /\ Scalar(x).text = x
    BY <1>1 DEF Scalar
  <2> QED
    BY <1>6, <2>1
<1>8. ASSUME NEW i \in 1..Len(node.items), NEW y \in N, node.items[i][2] = Load(y) PROVE results[i] = {val[y]}
  <2>1. PICK x \in s : y = Scalar(x)
    BY <1>1
  <2> QED
    BY <1>5, <1>7, <1>8, <2>1, ScalarReads
<1>9. ToSetOf(results) = {{val[y] : y \in N}}
  BY <1>2, <1>3, <1>5, <1>8, SetReads
<1>10. {val[y] : y \in N} = {Reread(x) : x \in s}
  BY <1>1, <1>7
<1> QED
  BY <1>1, <1>3, <1>4, <1>9, <1>10

(* sets of vectors, *)
LEMMA NestedSetReadsBack ==
  ASSUME NEW s \in SUBSET Vectors({"a"})
  PROVE  ToSetOf(Nested(FromSetOf({FromVector(Scalars(v)) : v \in s}))) = {s}
<1>1. PICK N : N = {FromVector(Scalars(v)) : v \in s}
  OBVIOUS
<1>2. IsFiniteSet(N)
  <2>1. IsFiniteSet(s)
    BY DataFinite, FS_Subset
  <2>2. PICK f : f = [v \in s |-> FromVector(Scalars(v))]
    OBVIOUS
  <2>3. IsFiniteSet({f[v] : v \in s})
    BY <2>1, <2>2, ImageFinite
  <2>4. {f[v] : v \in s} = N
    BY <1>1, <2>2
  <2> QED
    BY <2>3, <2>4
<1>3. PICK node : node = FromSetOf(N)
  OBVIOUS
<1>4. PICK results : results = Nested(node)
  OBVIOUS
<1>5. /\ DOMAIN results = 1..Len(node.items)
      /\ \A i \in 1..Len(node.items) : results[i] = Elements(Strings(node.items[i][2]))
  BY <1>4 DEF Nested
<1>6. PICK val : val = [x \in N |-> CHOOSE v \in s : Elements(Strings(x)) = {v}]
  OBVIOUS
<1>7. ASSUME NEW v \in s
      PROVE  /\ FromVector(Scalars(v)) \in N /\ val[FromVector(Scalars(v))] = v
             /\ Elements(Strings(Load(FromVector(Scalars(v))))) = {v}
  <2>1. PICK x : x = FromVector(Scalars(v))
    OBVIOUS
  <2>2. x \in N /\ Elements(Strings(x)) = {v} /\ Load(x) = x
    BY <1>1, <2>1, InnerReadsBack
  <2>3. val[x] = v
    BY <1>6, <2>2
  <2> QED
    BY <2>1, <2>2, <2>3
<1>8. ASSUME NEW i \in 1..Len(node.items), NEW y \in N, node.items[i][2] = Load(y) PROVE results[i] = {val[y]}
  <2>1. PICK v \in s : y = FromVector(Scalars(v))
    BY <1>1
  <2> QED
    BY <1>5, <1>7, <1>8, <2>1
<1>9. ToSetOf(results) = {{val[y] : y \in N}}
  BY <1>2, <1>3, <1>5, <1>8, SetReads
<1>10. {val[y] : y \in N} = s
  BY <1>1, <1>7
<1> QED
  BY <1>1, <1>3, <1>4, <1>9, <1>10

(* maps of strings, *)
LEMMA MapReadsBack ==
  ASSUME NEW m \in Maps(Texts), NEW node, node = FromMap(Scalars(m))
  PROVE  ToMap(node, Strings(node)) = {RereadAll(m)}
<1>1. PICK K \in SUBSET {"k", "l"} : m \in [K -> Texts]
  BY DEF Maps
<1>2. IsFiniteSet(K)
  BY DataFinite, FS_Subset
<1>3. PICK w : w = Scalars(m)
  OBVIOUS
<1>4. DOMAIN w = K /\ DOMAIN m = K /\ \A k \in K : w[k] = Scalar(m[k])
  BY <1>1, <1>3 DEF Scalars
<1>5. PICK keys : keys = SetToSeq(K)
  OBVIOUS
<1>6. PICK n \in Nat : Lists(keys, n, K)
  BY <1>2, <1>5, Listed
<1>7. /\ DOMAIN node.items = 1..n /\ Len(node.items) = n
      /\ \A i \in 1..n : node.items[i][1] = keys[i] /\ node.items[i][2] = Load(w[keys[i]])
  <2>1. DOMAIN keys = 1..n /\ keys = SetToSeq(DOMAIN w) /\ node = FromMap(w)
    BY <1>3, <1>4, <1>5, <1>6 DEF Lists
  <2> QED
    BY <2>1, MapEntries
<1>8. PICK results : results = Strings(node)
  OBVIOUS
<1>9. DOMAIN results = 1..n /\ \A i \in 1..n : results[i] = StringOf(node.items[i][2])
  BY <1>7, <1>8 DEF Strings
<1>10. PICK val : val = RereadAll(m)
  OBVIOUS
<1>11. val = On(K, val) /\ \A k \in K : val[k] = Reread(m[k])
  BY <1>4, <1>10 DEF RereadAll, On
<1>12. ASSUME NEW i \in 1..n PROVE results[i] = {val[keys[i]]}
  <2>1. PICK k \in K : keys[i] = k
    BY <1>6 DEF Lists
  <2>2. results[i] = StringOf(Load(Scalar(m[k])))
    BY <1>4, <1>7, <1>9, <2>1
  <2> QED
    BY <1>11, <2>1, <2>2, ScalarReads
<1>13. ToMap(node, results) = {On(K, val)}
  <2>1. Reads(node, results, n, keys, val)
    BY <1>7, <1>9, <1>12 DEF Reads
  <2> QED
    BY <1>6, <2>1, MapIs
<1> QED
  BY <1>8, <1>10, <1>11, <1>13

(* and maps of vectors. *)
LEMMA NestedMapReadsBack ==
  ASSUME NEW m \in Maps(Vectors({"a"})), NEW node, node = FromMap(Nest(m))
  PROVE  ToMap(node, Nested(node)) = {m}
<1>0. PICK V : V = Vectors({"a"})
  OBVIOUS
<1>1. PICK K \in SUBSET {"k", "l"} : m \in [K -> V]
  BY <1>0 DEF Maps
<1>2. IsFiniteSet(K)
  BY DataFinite, FS_Subset
<1>3. PICK w : w = Nest(m)
  OBVIOUS
<1>4. DOMAIN w = K /\ m = On(K, m) /\ \A k \in K : w[k] = FromVector(Scalars(m[k])) /\ m[k] \in Vectors({"a"})
  BY <1>0, <1>1, <1>3 DEF Nest, On
<1>5. PICK keys : keys = SetToSeq(K)
  OBVIOUS
<1>6. PICK n \in Nat : Lists(keys, n, K)
  BY <1>2, <1>5, Listed
<1>7. /\ DOMAIN node.items = 1..n /\ Len(node.items) = n
      /\ \A i \in 1..n : node.items[i][1] = keys[i] /\ node.items[i][2] = Load(w[keys[i]])
  <2>1. DOMAIN keys = 1..n /\ keys = SetToSeq(DOMAIN w) /\ node = FromMap(w)
    BY <1>3, <1>4, <1>5, <1>6 DEF Lists
  <2> QED
    BY <2>1, MapEntries
<1>8. PICK results : results = Nested(node)
  OBVIOUS
<1>9. DOMAIN results = 1..n /\ \A i \in 1..n : results[i] = Elements(Strings(node.items[i][2]))
  BY <1>7, <1>8 DEF Nested
<1>10. ASSUME NEW i \in 1..n PROVE results[i] = {m[keys[i]]}
  <2>1. PICK k \in K : keys[i] = k
    BY <1>6 DEF Lists
  <2>2. results[i] = Elements(Strings(Load(FromVector(Scalars(m[k])))))
    BY <1>4, <1>7, <1>9, <2>1
  <2> QED
    BY <1>4, <2>1, <2>2, InnerReadsBack
<1>11. ToMap(node, results) = {On(K, m)}
  <2>1. Reads(node, results, n, keys, m)
    BY <1>7, <1>9, <1>10 DEF Reads
  <2> QED
    BY <1>6, <2>1, MapIs
<1> QED
  BY <1>4, <1>8, <1>11

(* What ConfigVar::toString writes is read back by fromString: every       *)
(* container, up to its empty strings, and every value of "logs" that is   *)
(* reached, up to its appenders to the terminal.                           *)
THEOREM SavedReadsBackCorrect == Spec => []SavedReadsBack
<1>1. ContainersReadBack
  <2>1. \A v \in Vectors(Texts) : Elements(Strings(FromVector(Scalars(v)))) = {[i \in DOMAIN v |-> Reread(v[i])]}
    BY VectorsReadBack DEF RereadAll
  <2>2. \A s \in SUBSET Texts : ToSetOf(Strings(FromSetOf({Scalar(x) : x \in s}))) = {{Reread(x) : x \in s}}
    BY SetReadsBack
  <2>3. ASSUME NEW m \in Maps(Texts)
        PROVE  LET node == FromMap(Scalars(m))
               IN  ToMap(node, Strings(node)) = {[k \in DOMAIN m |-> Reread(m[k])]}
    BY MapReadsBack DEF RereadAll
  <2>4. \A v \in Vectors(Vectors({"a"})) : Elements(Nested(FromVector(Nest(v)))) = {v}
    BY VectorsReadBack
  <2>5. \A s \in SUBSET Vectors({"a"}) : ToSetOf(Nested(FromSetOf({FromVector(Scalars(v)) : v \in s}))) = {s}
    BY NestedSetReadsBack
  <2>6. \A m \in Maps(Vectors({"a"})) : LET node == FromMap(Nest(m)) IN ToMap(node, Nested(node)) = {m}
    BY NestedMapReadsBack
  <2> QED
    BY <2>1, <2>2, <2>3, <2>4, <2>5, <2>6, Zenon DEF ContainersReadBack
<1>2. ILog => SavedReadsBack
  <2> SUFFICES ASSUME ILog PROVE SavedReadsBack
    OBVIOUS
  <2>1. ASSUME NEW d \in m_val["logs"] PROVE d \in Defines
    BY DEF ILog, LogsOK, Values
  <2>2. ASSUME NEW d \in m_val["logs"]
        PROVE  LET files == {i \in 1..Len(d.appenders) : d.appenders[i].type = 1}
               IN  DefineFromYaml(DefineToYaml(d)) = [d EXCEPT !.appenders = Kept(@, files)]
    BY <2>1, DefineReadsBack, Zenon
  <2> QED
    BY <1>1, <2>2, Zenon DEF SavedReadsBack
<1> QED
  BY InitILog, StepILog, <1>2, PTL DEF Spec

-----------------------------------------------------------------------------
(* Texts that are put together. *)

(* One after the other. *)
Then(s, t) == s \o t

(* FlattenSeq, *)
Flat(ts, n) == CHOOSE flat : flat = [i \in 1..n |-> IF i = 1 THEN ts[i] ELSE flat[i - 1] \o ts[i]]
Same(ts, us, n) == \A i \in 1..n : ts[i] = us[i]
IsFlat(f, ts, n) == f = [i \in 1..n |-> IF i = 1 THEN ts[i] ELSE f[i - 1] \o ts[i]]

(* a recursive function, *)
LEMMA FlatIs ==
  ASSUME NEW C, NEW ts \in Seq(Seq(C)), NEW n \in Nat, n = Len(ts)
  PROVE  IsFlat(Flat(ts, n), ts, n) /\ \A i \in 1..n : Flat(ts, n)[i] \in Seq(C)
<1>1. PICK S : S = Seq(C)
  OBVIOUS
<1>2. \A i \in 1..n : ts[i] \in S
  BY <1>1, ElementOfSeq
<1>3. PICK g : g = [x \in (1..n) \X S |-> IF x[1] = 1 THEN ts[x[1]] ELSE x[2] \o ts[x[1]]]
  OBVIOUS
<1>4. ASSUME NEW i \in 1..n, NEW y \in S
      PROVE  /\ g[<<i, y>>] = IF i = 1 THEN ts[i] ELSE y \o ts[i]
             /\ ts[i] \in S /\ y \o ts[i] \in S
  <2>1. PICK x : x = <<i, y>>
    OBVIOUS
  <2>2. x[1] = i /\ x[2] = y /\ x \in (1..n) \X S
    BY <2>1
  <2>3. g[x] = IF i = 1 THEN ts[i] ELSE y \o ts[i]
    BY <1>3, <2>2
  <2>4. PICK u \in Seq(C) : u = ts[i]
    BY <1>1, <1>2
  <2>5. y \o u \in Seq(C)
    BY <1>1, <2>4, ConcatProperties
  <2> QED
    BY <1>1, <2>1, <2>3, <2>4, <2>5
<1>5. g \in [(1..n) \X S -> S]
  <2>1. ASSUME NEW x \in (1..n) \X S PROVE (IF x[1] = 1 THEN ts[x[1]] ELSE x[2] \o ts[x[1]]) \in S
    BY <1>4
  <2> QED
    BY <1>3, <2>1
<1>6. <<>> \in S
  BY <1>1, EmptySeq
<1>7. PICK h \in [0..n -> S] : Recurs(h, n, <<>>, g)
  BY <1>5, <1>6, Recursion
<1>8. PICK f : f = [i \in 1..n |-> h[i]]
  OBVIOUS
<1>9. ASSUME NEW i \in 1..n PROVE f[i] \in S /\ f[i] = IF i = 1 THEN ts[i] ELSE f[i - 1] \o ts[i]
  <2>0. i \in 0..n /\ i - 1 \in 0..n
    OBVIOUS
  <2>1. h[i - 1] \in S /\ h[i] \in S /\ f[i] = h[i]
    BY <1>7, <1>8, <2>0
  <2>2. PICK y \in S : y = h[i - 1]
    BY <2>1
  <2>3. f[i] = IF i = 1 THEN ts[i] ELSE y \o ts[i]
    BY <1>4, <1>7, <2>1, <2>2 DEF Recurs
  <2>4. i # 1 => f[i - 1] = y
    BY <1>8, <2>2
  <2> QED
    BY <2>1, <2>3, <2>4
<1>10. IsFlat(f, ts, n)
  <2>1. f = [i \in 1..n |-> IF i = 1 THEN ts[i] ELSE f[i - 1] \o ts[i]]
    BY <1>8, <1>9
  <2> QED
    BY <2>1 DEF IsFlat
<1>11. PICK k : k = Flat(ts, n)
  OBVIOUS
<1>12. IsFlat(k, ts, n)
  BY <1>10, <1>11 DEF Flat, IsFlat
<1>13. \A i \in 1..n : k[i] \in S
  <2> DEFINE Bad == {i \in 1..n : k[i] \notin S}
  <2> SUFFICES ASSUME Bad # {} PROVE FALSE
    OBVIOUS
  <2>1. Bad \subseteq Nat
    OBVIOUS
  <2>2. PICK i \in Bad : \A j \in Bad : i <= j
    <3> HIDE DEF Bad
    <3> QED
      BY <2>1, LeastElement
  <2>3. i \in 1..n /\ k[i] \notin S
    BY <2>2
  <2>4. k[i] = IF i = 1 THEN ts[i] ELSE k[i - 1] \o ts[i]
    BY <1>12, <2>3 DEF IsFlat
  <2>5. i # 1
    BY <1>2, <2>3, <2>4
  <2>6. i - 1 \in 1..n /\ i - 1 \notin Bad
    BY <2>2, <2>3, <2>5
  <2>7. PICK y \in S : y = k[i - 1]
    BY <2>6
  <2> QED
    BY <1>4, <2>3, <2>4, <2>5, <2>7
<1> QED
  BY <1>1, <1>11, <1>12, <1>13

(* that depends on what it is given only. *)
LEMMA FlatAgrees ==
  ASSUME NEW n \in Nat, NEW m \in Nat, n <= m, NEW ts, NEW us, Same(ts, us, n),
         NEW f, NEW g, IsFlat(f, ts, n), IsFlat(g, us, m)
  PROVE  Same(f, g, n)
<1> DEFINE Bad == {i \in 1..n : f[i] # g[i]}
<1> SUFFICES ASSUME Bad # {} PROVE FALSE
  BY DEF Same
<1>1. Bad \subseteq Nat
  OBVIOUS
<1>2. PICK i \in Bad : \A j \in Bad : i <= j
  <2> HIDE DEF Bad
  <2> QED
    BY <1>1, LeastElement
<1>3. i \in 1..n /\ i \in 1..m /\ f[i] # g[i]
  BY <1>2
<1>4. f[i] = IF i = 1 THEN ts[i] ELSE f[i - 1] \o ts[i]
  BY <1>3 DEF IsFlat
<1>5. g[i] = IF i = 1 THEN us[i] ELSE g[i - 1] \o us[i]
  BY <1>3 DEF IsFlat
<1>6. CASE i = 1
  BY <1>3, <1>4, <1>5, <1>6 DEF Same
<1>7. CASE i # 1
  <2>1. i - 1 \in 1..n /\ i - 1 \notin Bad
    BY <1>2, <1>3, <1>7
  <2>2. f[i - 1] = g[i - 1]
    BY <2>1
  <2> QED
    BY <1>3, <1>4, <1>5, <1>7, <2>2 DEF Same
<1> QED
  BY <1>6, <1>7

(* What FlattenSeq gives, *)
LEMMA FlattenIs ==
  ASSUME NEW C, NEW ts \in Seq(Seq(C))
  PROVE  FlattenSeq(ts) \in Seq(C) /\ FlattenSeq(<<>>) = <<>>
<1>1. PICK n \in Nat : n = Len(ts)
  BY LenProperties
<1>2. CASE n = 0
  <2>1. FlattenSeq(ts) = ts /\ ts = <<>>
    BY <1>1, <1>2, EmptySeq DEF FlattenSeq
  <2> QED
    BY <2>1, EmptySeq
<1>3. CASE n # 0
  <2>1. FlattenSeq(ts) = Flat(ts, n)[n]
    BY <1>1, <1>3 DEF FlattenSeq, Flat
  <2>2. FlattenSeq(ts) \in Seq(C)
    BY <1>1, <1>3, <2>1, FlatIs
  <2>3. FlattenSeq(<<>>) = <<>>
    BY EmptySeq DEF FlattenSeq
  <2> QED
    BY <2>2, <2>3
<1> QED
  BY <1>2, <1>3

(* one text at a time. *)
LEMMA FlattenAppend ==
  ASSUME NEW C, NEW ts \in Seq(Seq(C)), NEW t \in Seq(C)
  PROVE  FlattenSeq(Append(ts, t)) = Then(FlattenSeq(ts), t)
<1>1. PICK n \in Nat : n = Len(ts)
  BY LenProperties
<1>2. PICK us \in Seq(Seq(C)) : us = Append(ts, t)
  BY AppendProperties
<1>3. Len(us) = n + 1 /\ us[n + 1] = t /\ \A i \in 1..n : us[i] = ts[i]
  BY <1>1, <1>2, AppendProperties
<1>4. PICK m \in Nat : m = n + 1
  OBVIOUS
<1>5. FlattenSeq(us) = Flat(us, m)[m]
  BY <1>3, <1>4 DEF FlattenSeq, Flat
<1>6. PICK g : g = Flat(us, m)
  OBVIOUS
<1>7. IsFlat(g, us, m)
  BY <1>3, <1>4, <1>6, FlatIs
<1>8. g[m] = IF m = 1 THEN us[m] ELSE g[m - 1] \o us[m]
  <2>1. m \in 1..m
    BY <1>4
  <2> QED
    BY <1>7, <2>1 DEF IsFlat
<1>9. CASE n = 0
  <2>1. FlattenSeq(ts) = <<>>
    BY <1>1, <1>9, EmptySeq DEF FlattenSeq
  <2>2. Then(<<>>, t) = t
    BY ConcatEmptySeq DEF Then
  <2> QED
    BY <1>2, <1>3, <1>4, <1>5, <1>6, <1>8, <1>9, <2>1, <2>2
<1>10. CASE n # 0
  <2>1. FlattenSeq(ts) = Flat(ts, n)[n]
    BY <1>1, <1>10 DEF FlattenSeq, Flat
  <2>2. PICK f : f = Flat(ts, n)
    OBVIOUS
  <2>3. IsFlat(f, ts, n)
    BY <1>1, <2>2, FlatIs
  <2>4. n <= m /\ n \in 1..n /\ Same(ts, us, n)
    BY <1>3, <1>4, <1>10 DEF Same
  <2>5. Same(f, g, n)
    BY <1>7, <2>3, <2>4, FlatAgrees
  <2>6. f[n] = g[n]
    BY <2>4, <2>5 DEF Same
  <2>7. g[m] = g[n] \o t
    BY <1>3, <1>4, <1>8, <1>10
  <2> QED
    BY <1>2, <1>5, <1>6, <2>1, <2>2, <2>6, <2>7 DEF Then
<1> QED
  BY <1>9, <1>10

(* What a function makes of the elements of a sequence, *)
Mapped(f, s) == [i \in 1..Len(s) |-> f[s[i]]]

MapsNext(f, s, x) == Mapped(f, Append(s, x)) = Append(Mapped(f, s), f[x])

(* one element at a time. *)
LEMMA MappedIs ==
  ASSUME NEW S, NEW T, NEW f \in [S -> T], NEW s \in Seq(S), NEW x \in S
  PROVE  /\ Mapped(f, s) \in Seq(T) /\ Len(Mapped(f, s)) = Len(s)
         /\ Mapped(f, <<>>) = <<>>
         /\ MapsNext(f, s, x)
<1>1. PICK n \in Nat : n = Len(s)
  BY LenProperties
<1>2. \A i \in 1..n : s[i] \in S
  BY <1>1, ElementOfSeq
<1>3. PICK m : m = [i \in 1..n |-> f[s[i]]]
  OBVIOUS
<1>4. m \in [1..n -> T]
  BY <1>2, <1>3
<1>5. m \in Seq(T) /\ Len(m) = n /\ m = Mapped(f, s)
  BY <1>1, <1>3, <1>4, SeqDef DEF Mapped
<1>6. PICK u \in Seq(S) : u = Append(s, x)
  BY AppendProperties
<1>7. Len(u) = n + 1 /\ u[n + 1] = x /\ \A i \in 1..n : u[i] = s[i]
  BY <1>1, <1>6, AppendProperties
<1>8. PICK r : r = [i \in 1..n + 1 |-> f[u[i]]]
  OBVIOUS
<1>9. \A i \in 1..n + 1 : u[i] \in S
  BY <1>6, <1>7, ElementOfSeq
<1>10. r \in [1..n + 1 -> T]
  BY <1>8, <1>9
<1>11. n + 1 \in Nat
  OBVIOUS
<1>12. r \in Seq(T) /\ Len(r) = n + 1 /\ r = Mapped(f, u)
  BY <1>7, <1>8, <1>10, <1>11, SeqDef DEF Mapped
<1>13. PICK a \in Seq(T) : a = Append(m, f[x])
  BY <1>5, AppendProperties
<1>14. Len(a) = n + 1 /\ a[n + 1] = f[x] /\ \A i \in 1..n : a[i] = m[i]
  BY <1>5, <1>13, AppendProperties
<1>15. ASSUME NEW i \in 1..n + 1 PROVE r[i] = a[i]
  <2>1. CASE i \in 1..n
    BY <1>3, <1>7, <1>8, <1>14, <2>1
  <2>2. CASE i = n + 1
    BY <1>7, <1>8, <1>14, <2>2
  <2> QED
    BY <2>1, <2>2
<1>16. r = a
  BY <1>12, <1>14, <1>15, SeqEqual
<1>17. Mapped(f, <<>>) = <<>>
  BY EmptySeq DEF Mapped
<1> QED
  BY <1>1, <1>5, <1>6, <1>12, <1>13, <1>16, <1>17 DEF MapsNext

(* The characters of patterns, with the word for an error. *)
Glyphs == Chars \cup {"pattern_error"}
Items == [text : Seq(Glyphs), fmt : Seq(Glyphs), type : {0, 1}]

Escape(c) == IF c = "%" THEN <<"%", "%">> ELSE <<c>>
Escapes == [c \in Glyphs |-> Escape(c)]
Writings == [item \in Items |-> Written(item)]
WrittenAll(vec) == FlattenSeq([i \in 1..Len(vec) |-> Written(vec[i])])

(* Literal text is written character by character. *)
LEMMA EscapedIs ==
  ASSUME NEW text \in Seq(Glyphs), NEW c \in Glyphs
  PROVE  /\ Escaped(text) \in Seq(Glyphs) /\ Escape(c) \in Seq(Glyphs)
         /\ Escaped(Append(text, c)) = Then(Escaped(text), Escape(c))
<1>1. ASSUME NEW d \in Glyphs PROVE Escape(d) \in Seq(Glyphs)
  <2>1. "%" \in Glyphs
    BY DEF Glyphs, Chars
  <2>2. <<"%", "%">> \in Seq(Glyphs) /\ <<d>> \in Seq(Glyphs)
    BY <2>1
  <2> QED
    BY <2>2 DEF Escape
<1>2. Escapes \in [Glyphs -> Seq(Glyphs)]
  BY <1>1 DEF Escapes
<1>3. ASSUME NEW t \in Seq(Glyphs) PROVE Escaped(t) = FlattenSeq(Mapped(Escapes, t)) /\ Mapped(Escapes, t) \in Seq(Seq(Glyphs))
  <2>1. PICK n \in Nat : n = Len(t)
    BY LenProperties
  <2>2. \A i \in 1..n : t[i] \in Glyphs
    BY <2>1, ElementOfSeq
  <2>3. [i \in 1..n |-> Escape(t[i])] = [i \in 1..n |-> Escapes[t[i]]]
    BY <2>2 DEF Escapes
  <2>4. Escaped(t) = FlattenSeq([i \in 1..n |-> Escape(t[i])])
    BY <2>1, Zenon DEF Escaped, Escape
  <2>5. Mapped(Escapes, t) \in Seq(Seq(Glyphs))
    BY <1>2, MappedIs
  <2> QED
    BY <2>1, <2>3, <2>4, <2>5 DEF Mapped
<1>4. PICK m \in Seq(Seq(Glyphs)) : m = Mapped(Escapes, text)
  BY <1>3
<1>5. PICK u \in Seq(Glyphs) : u = Append(text, c)
  BY AppendProperties
<1>6. Mapped(Escapes, u) = Append(m, Escapes[c])
  <2>1. MapsNext(Escapes, text, c)
    BY <1>2, MappedIs
  <2> QED
    BY <1>4, <1>5, <2>1 DEF MapsNext
<1>7. Escapes[c] = Escape(c)
  BY DEF Escapes
<1>8. Escaped(u) = FlattenSeq(Append(m, Escape(c)))
  BY <1>3, <1>5, <1>6, <1>7
<1>9. FlattenSeq(Append(m, Escape(c))) = Then(FlattenSeq(m), Escape(c))
  BY <1>1, <1>4, FlattenAppend
<1>10. Escaped(text) = FlattenSeq(m) /\ FlattenSeq(m) \in Seq(Glyphs)
  BY <1>3, <1>4, FlattenIs
<1> QED
  BY <1>1, <1>5, <1>8, <1>9, <1>10

(* No text is written as none. *)
LEMMA EscapedEmpty == Escaped(<<>>) = <<>>
<1>1. [i \in 1..Len(<<>>) |-> IF <<>>[i] = "%" THEN <<"%", "%">> ELSE <<<<>>[i]>>] = <<>>
  BY EmptySeq
<1>2. <<>> \in Seq(Seq(Glyphs))
  BY EmptySeq
<1>3. FlattenSeq(<<>>) = <<>>
  BY <1>2, FlattenIs
<1> QED
  BY <1>1, <1>3 DEF Escaped

(* What an item is written as. *)
LEMMA WrittenIs ==
  ASSUME NEW item \in Items
  PROVE  Written(item) \in Seq(Glyphs)
<1>1. item.text \in Seq(Glyphs) /\ item.fmt \in Seq(Glyphs)
  BY DEF Items
<1>2. PICK t \in Seq(Glyphs), f \in Seq(Glyphs) : t = item.text /\ f = item.fmt
  BY <1>1
<1>3. <<"%">> \in Seq(Glyphs) /\ <<"{">> \in Seq(Glyphs) /\ <<"}">> \in Seq(Glyphs) /\ <<>> \in Seq(Glyphs)
  <2>1. "%" \in Glyphs /\ "{" \in Glyphs /\ "}" \in Glyphs
    BY DEF Glyphs, Chars
  <2>2. <<>> \in Seq(Glyphs) /\ \A d \in Glyphs : <<d>> \in Seq(Glyphs)
    OBVIOUS
  <2> QED
    BY <2>1, <2>2, Zenon
<1>4. Escaped(t) \in Seq(Glyphs)
  <2>1. "%" \in Glyphs
    BY DEF Glyphs, Chars
  <2> QED
    BY <2>1, EscapedIs
<1>5. <<"%">> \o t \in Seq(Glyphs) /\ <<"{">> \o f \in Seq(Glyphs)
  BY <1>3, ConcatProperties
<1>6. (<<"{">> \o f) \o <<"}">> \in Seq(Glyphs)
  BY <1>3, <1>5, ConcatProperties
<1>7. (<<"%">> \o t) \o <<>> \in Seq(Glyphs) /\ (<<"%">> \o t) \o ((<<"{">> \o f) \o <<"}">>) \in Seq(Glyphs)
  BY <1>3, <1>5, <1>6, ConcatProperties
<1> QED
  BY <1>2, <1>4, <1>7 DEF Written

(* Items are written one after the other. *)
LEMMA WrittenAppend ==
  ASSUME NEW vec \in Seq(Items), NEW item \in Items
  PROVE  WrittenAll(vec) \in Seq(Glyphs) /\ WrittenAll(Append(vec, item)) = Then(WrittenAll(vec), Written(item))
<1>1. Writings \in [Items -> Seq(Glyphs)]
  BY WrittenIs DEF Writings
<1>2. ASSUME NEW v \in Seq(Items) PROVE WrittenAll(v) = FlattenSeq(Mapped(Writings, v)) /\ Mapped(Writings, v) \in Seq(Seq(Glyphs))
  <2>1. PICK n \in Nat : n = Len(v)
    BY LenProperties
  <2>2. \A i \in 1..n : v[i] \in Items
    BY <2>1, ElementOfSeq
  <2>3. [i \in 1..n |-> Written(v[i])] = [i \in 1..n |-> Writings[v[i]]]
    BY <2>2 DEF Writings
  <2>4. WrittenAll(v) = FlattenSeq([i \in 1..n |-> Written(v[i])])
    BY <2>1, Zenon DEF WrittenAll
  <2>5. Mapped(Writings, v) \in Seq(Seq(Glyphs))
    BY <1>1, MappedIs
  <2> QED
    BY <2>1, <2>3, <2>4, <2>5 DEF Mapped
<1>3. PICK m \in Seq(Seq(Glyphs)) : m = Mapped(Writings, vec)
  BY <1>2
<1>4. PICK u \in Seq(Items) : u = Append(vec, item)
  BY AppendProperties
<1>5. Mapped(Writings, u) = Append(m, Writings[item])
  <2>1. MapsNext(Writings, vec, item)
    BY <1>1, MappedIs
  <2> QED
    BY <1>3, <1>4, <2>1 DEF MapsNext
<1>6. Writings[item] = Written(item) /\ Written(item) \in Seq(Glyphs)
  BY WrittenIs DEF Writings
<1>7. WrittenAll(u) = FlattenSeq(Append(m, Written(item)))
  BY <1>2, <1>4, <1>5, <1>6
<1>8. FlattenSeq(Append(m, Written(item))) = Then(FlattenSeq(m), Written(item))
  BY <1>3, <1>6, FlattenAppend
<1>9. WrittenAll(vec) = FlattenSeq(m) /\ FlattenSeq(m) \in Seq(Glyphs)
  BY <1>2, <1>3, FlattenIs
<1> QED
  BY <1>4, <1>7, <1>8, <1>9

(* The items before any is found. *)
LEMMA WrittenNone == WrittenAll(<<>>) = <<>>
<1>1. [i \in 1..Len(<<>>) |-> Written(<<>>[i])] = <<>>
  BY EmptySeq
<1>2. <<>> \in Seq(Seq(Glyphs))
  BY EmptySeq
<1>3. FlattenSeq(<<>>) = <<>>
  BY <1>2, FlattenIs
<1> QED
  BY <1>1, <1>3 DEF WrittenAll

-----------------------------------------------------------------------------
(* LogFormatter::init cuts a pattern faithfully. *)

(* A set of naturals contains its least element. *)
LEMMA MinIs ==
  ASSUME NEW T, T \subseteq Nat, T # {}
  PROVE  Min(T) \in T
<1>1. \E n \in T : \A m \in T : n <= m
  BY LeastElement
<1> QED
  BY <1>1 DEF Min

(* A piece of a pattern, *)
LEMMA PieceIs ==
  ASSUME NEW C, NEW p \in Seq(C), NEW m \in Nat \ {0}, NEW n \in Int, n <= Len(p)
  PROVE  SubSeq(p, m, n) \in Seq(C)
<1>1. Len(p) \in Nat /\ \A i \in 1..Len(p) : p[i] \in C
  BY ElementOfSeq, LenProperties
<1>2. m \in Int /\ \A i \in m..n : p[i] \in C
  BY <1>1
<1> QED
  BY <1>2, SubSeqProperties

(* Neighbours join, *)
Joins(p, m, k, n) == Then(SubSeq(p, m, k), SubSeq(p, k + 1, n)) = SubSeq(p, m, n)

(* wherever a piece is cut. *)
LEMMA PiecesJoin ==
  ASSUME NEW C, NEW p \in Seq(C), NEW m \in Nat \ {0}, NEW k \in Nat, NEW n \in Nat,
         m <= k + 1, k <= n, n <= Len(p)
  PROVE  Joins(p, m, k, n)
<1>1. PICK len \in Nat : len = Len(p)
  BY LenProperties
<1>2. m \in 1..len + 1 /\ k \in m - 1..len /\ n \in k..len
  BY <1>1
<1>3. SubSeq(p, m, k) \o SubSeq(p, k + 1, n) = SubSeq(p, m, n)
  BY <1>1, <1>2, ConcatAdjacentSubSeq
<1> QED
  BY <1>3 DEF Then, Joins

(* One character of it. *)
LEMMA CharIs ==
  ASSUME NEW C, NEW p \in Seq(C), NEW i \in 1..Len(p)
  PROVE  SubSeq(p, i, i) = <<p[i]>> /\ p[i] \in C
<1>1. p[i] \in C /\ Len(p) \in Nat
  BY ElementOfSeq, LenProperties
<1>2. i \in Int /\ \A j \in i..i : p[j] \in C
  BY <1>1
<1>3. PICK s : s = SubSeq(p, i, i)
  OBVIOUS
<1>4. s \in Seq(C) /\ Len(s) = 1 /\ s[1] = p[i]
  <2>1. s \in Seq(C)
    BY <1>2, <1>3, SubSeqProperties
  <2>2. Len(s) = IF i <= i THEN i - i + 1 ELSE 0
    BY <1>2, <1>3, SubSeqProperties
  <2>3. \A j \in 1..i - i + 1 : s[j] = p[i + j - 1]
    BY <1>2, <1>3, SubSeqProperties
  <2>4. s[1] = p[i + 1 - 1]
    BY <1>2, <2>3
  <2> QED
    BY <1>2, <2>1, <2>2, <2>4
<1>5. <<p[i]>> \in Seq(C) /\ Len(<<p[i]>>) = 1 /\ <<p[i]>>[1] = p[i]
  BY <1>1
<1>6. s = <<p[i]>>
  BY <1>4, <1>5, SeqEqual
<1> QED
  BY <1>1, <1>3, <1>6

(* A format as it is written. *)
Open == "{"
Close == "}"
Braced(fmt) == IF fmt = <<>> THEN <<>> ELSE <<Open>> \o fmt \o <<Close>>

(* What the inner loop makes of the braces at begin: the text in them and  *)
(* the place behind them, unless they do not close.                        *)
FormatFound(p, begin, len, str, k) ==
  /\ k.str = str /\ k.fmt \in Seq(Chars) /\ k.n \in begin + 1..len + 1 /\ k.fmt_status \in {0, 1}
  /\ k.fmt_status = 0 => WrittenEmpty(p) \/ Braced(k.fmt) = SubSeq(p, begin, k.n - 1)

(* The inner loop finds the format between the braces. *)
LEMMA FormatIs ==
  ASSUME NEW p \in Seq(Chars), NEW len \in Nat, len = Len(p), NEW begin \in 1..len, p[begin] = Open,
         NEW str, NEW k, k = ScanFormat(p, begin, str)
  PROVE  FormatFound(p, begin, len, str, k)
<1> USE DEF FormatFound
<1>1. PICK ends : ends = {n \in begin + 1 .. len : p[n] = Close}
  OBVIOUS
<1>2. CASE ends = {}
  <2>1. k = [str |-> str, fmt |-> <<>>, n |-> len + 1, fmt_status |-> 1]
    BY <1>1, <1>2, Zenon DEF ScanFormat, Close
  <2> QED
    BY <2>1, EmptySeq
<1>3. CASE ends # {}
  <2>1. ends \subseteq Nat
    BY <1>1
  <2>2. PICK e \in ends : e = Min(ends)
    BY <1>3, <2>1, MinIs
  <2>3. e \in begin + 1..len /\ p[e] = Close
    BY <1>1, <2>2
  <2>4. PICK fmt : fmt = SubSeq(p, begin + 1, e - 1)
    OBVIOUS
  <2>5. k = [str |-> str, fmt |-> fmt, n |-> e + 1, fmt_status |-> 0]
    BY <1>1, <1>3, <2>2, <2>4, Zenon DEF ScanFormat, Close
  <2>6. /\ fmt \in Seq(Chars) /\ SubSeq(p, begin, begin) \in Seq(Chars)
        /\ Then(SubSeq(p, begin, begin), fmt) = SubSeq(p, begin, e - 1)
    <3>1. PICK d \in Nat : d = e - 1 /\ begin <= d /\ d <= len
      BY <2>3
    <3>2. Joins(p, begin, begin, d)
      BY <3>1, PiecesJoin
    <3>3. begin + 1 \in Nat \ {0} /\ begin \in Nat \ {0} /\ begin <= Len(p) /\ d <= Len(p)
      BY <3>1
    <3>4. SubSeq(p, begin + 1, d) \in Seq(Chars) /\ SubSeq(p, begin, begin) \in Seq(Chars)
      BY <3>1, <3>3, PieceIs
    <3> QED
      BY <2>4, <3>1, <3>2, <3>4 DEF Joins
  <2>7. Then(SubSeq(p, begin, e - 1), SubSeq(p, e, e)) = SubSeq(p, begin, e)
    <3>1. PICK d \in Nat : d = e - 1 /\ begin <= d /\ d <= len /\ d + 1 = e /\ d <= e /\ e \in Nat /\ e <= len
      BY <2>3
    <3>2. begin \in Nat \ {0} /\ begin <= d + 1
      BY <3>1
    <3>3. Joins(p, begin, d, e)
      BY <3>1, <3>2, PiecesJoin
    <3> QED
      BY <3>1, <3>3 DEF Joins
  <2>8. SubSeq(p, begin, begin) = <<Open>> /\ SubSeq(p, e, e) = <<Close>>
    BY <2>3, CharIs
  <2>9. fmt # <<>> => Braced(fmt) = SubSeq(p, begin, e)
    BY <2>6, <2>7, <2>8 DEF Braced, Then
  <2>10. fmt = <<>> => WrittenEmpty(p)
    <3>1. Len(fmt) = IF begin + 1 <= e - 1 THEN (e - 1) - (begin + 1) + 1 ELSE 0
      <4>1. begin + 1 \in Int /\ e - 1 \in Int /\ \A i \in begin + 1..e - 1 : p[i] \in Chars
        BY <2>3, ElementOfSeq
      <4> QED
        BY <2>4, <4>1, SubSeqProperties
    <3>2. fmt = <<>> => e = begin + 1
      BY <2>3, <3>1, EmptySeq
    <3>3. e = begin + 1 => begin \in 1..len - 1 /\ p[begin + 1] = Close
      BY <2>3
    <3>4. (\E i \in 1..len - 1 : p[i] = Open /\ p[i + 1] = Close) => WrittenEmpty(p)
      BY Zenon DEF WrittenEmpty, Open, Close
    <3> QED
      BY <3>2, <3>3, <3>4
  <2> QED
    BY <2>3, <2>5, <2>6, <2>9, <2>10
<1> QED
  BY <1>2, <1>3

(* The key and the format that an item was written with *)
KeyFound(p, i, k) ==
  /\ k.str \in Seq(Chars) /\ k.fmt \in Seq(Chars) /\ k.n \in i + 1..Len(p) + 1 /\ k.fmt_status \in {0, 1}
  /\ k.fmt_status = 0 => WrittenEmpty(p) \/ Then(k.str, Braced(k.fmt)) = SubSeq(p, i + 1, k.n - 1)

(* are found by the inner loop. *)
LEMMA KeyIs ==
  ASSUME NEW p \in Seq(Chars), NEW len \in Nat, len = Len(p), NEW i \in 1..len, NEW k, k = ScanKey(p, i)
  PROVE  KeyFound(p, i, k)
<1> USE DEF KeyFound
<1>1. PICK stops : stops = {n \in i + 1 .. len : p[n] \notin Letters \cup {Close}}
  OBVIOUS
<1>2. PICK n : n = IF stops = {} THEN len + 1 ELSE Min(stops)
  OBVIOUS
<1>3. n \in i + 1..len + 1 /\ (stops # {} => n \in i + 1..len)
  <2>1. CASE stops = {}
    BY <1>2, <2>1
  <2>2. CASE stops # {}
    <3>1. stops \subseteq Nat
      BY <1>1
    <3>2. Min(stops) \in stops
      BY <2>2, <3>1, MinIs
    <3> QED
      BY <1>1, <1>2, <2>2, <3>2
  <2> QED
    BY <2>1, <2>2
<1>4. PICK str : str = SubSeq(p, i + 1, n - 1)
  OBVIOUS
<1>5. k = IF stops # {} /\ p[n] = Open THEN ScanFormat(p, n, str)
          ELSE [str |-> str, fmt |-> <<>>, n |-> n, fmt_status |-> 0]
  BY <1>1, <1>2, <1>4, Zenon DEF ScanKey, Open, Close
<1>6. str \in Seq(Chars)
  <2>1. i + 1 \in Int /\ n - 1 \in Int /\ \A j \in i + 1..n - 1 : p[j] \in Chars
    BY <1>3, ElementOfSeq
  <2> QED
    BY <1>4, <2>1, SubSeqProperties
<1>7. CASE ~(stops # {} /\ p[n] = Open)
  <2>1. k.str = str /\ k.fmt = <<>> /\ k.n = n /\ k.fmt_status = 0
    BY <1>5, <1>7
  <2>2. Then(str, Braced(<<>>)) = str /\ <<>> \in Seq(Chars)
    BY <1>6, ConcatEmptySeq, EmptySeq DEF Then, Braced
  <2> QED
    BY <1>3, <1>4, <1>6, <2>1, <2>2
<1>8. CASE stops # {} /\ p[n] = Open
  <2>1. k = ScanFormat(p, n, str) /\ n \in 1..len
    BY <1>3, <1>5, <1>8
  <2>2. /\ k.str = str /\ k.fmt \in Seq(Chars) /\ k.n \in n + 1..len + 1 /\ k.fmt_status \in {0, 1}
        /\ k.fmt_status = 0 => WrittenEmpty(p) \/ Braced(k.fmt) = SubSeq(p, n, k.n - 1)
    <3>1. FormatFound(p, n, len, str, k)
      BY <1>8, <2>1, FormatIs
    <3> QED
      BY <3>1 DEF FormatFound
  <2>3. Then(SubSeq(p, i + 1, n - 1), SubSeq(p, n, k.n - 1)) = SubSeq(p, i + 1, k.n - 1)
    <3>0. PICK m \in n + 1..len + 1 : m = k.n
      BY <2>2
    <3>1. PICK a, b, c : a = i + 1 /\ b = n - 1 /\ c = m - 1
      OBVIOUS
    <3>2. a \in Nat \ {0} /\ b \in Nat /\ c \in Nat /\ b + 1 = n /\ a <= b + 1 /\ b <= c /\ c <= len
      BY <1>3, <2>1, <3>0, <3>1
    <3>3. Joins(p, a, b, c)
      BY <3>2, PiecesJoin
    <3> QED
      BY <3>0, <3>1, <3>2, <3>3 DEF Joins
  <2>4. k.n \in i + 1..len + 1
    BY <1>3, <2>2
  <2> QED
    BY <1>4, <1>6, <2>2, <2>3, <2>4
<1> QED
  BY <1>7, <1>8

(* Literal items are apart, and the last item is no literal. *)
LiteralsApart(vec) == \A i \in 1..Len(vec) - 1 : vec[i].type = 1 \/ vec[i+1].type = 1
EndsInItem(vec) == vec # <<>> => vec[Len(vec)].type = 1

(* They stay apart when an item follows, or a literal after an item. *)
LEMMA StaysApart ==
  ASSUME NEW vec \in Seq(Items), LiteralsApart(vec), NEW item \in Items, item.type = 1 \/ EndsInItem(vec)
  PROVE  LiteralsApart(Append(vec, item)) /\ (item.type = 1 => EndsInItem(Append(vec, item)))
<1>1. PICK n \in Nat : n = Len(vec)
  BY LenProperties
<1>2. PICK u \in Seq(Items) : u = Append(vec, item)
  BY AppendProperties
<1>3. Len(u) = n + 1 /\ u[n + 1] = item /\ \A i \in 1..n : u[i] = vec[i]
  BY <1>1, <1>2, AppendProperties
<1>4. n # 0 => vec # <<>>
  BY <1>1, EmptySeq
<1>5. ASSUME NEW i \in 1..n PROVE u[i].type = 1 \/ u[i + 1].type = 1
  <2>1. CASE i < n
    <3>1. i \in 1..n - 1 /\ i + 1 \in 1..n
      BY <2>1
    <3>2. vec[i].type = 1 \/ vec[i + 1].type = 1
      BY <1>1, <3>1 DEF LiteralsApart
    <3> QED
      BY <1>3, <3>1, <3>2
  <2>2. CASE i = n
    BY <1>1, <1>3, <1>4, <2>2 DEF EndsInItem
  <2> QED
    BY <2>1, <2>2
<1>6. LiteralsApart(u)
  BY <1>3, <1>5 DEF LiteralsApart
<1>7. item.type = 1 => EndsInItem(u)
  BY <1>3 DEF EndsInItem
<1> QED
  BY <1>2, <1>6, <1>7

(* The literal text is written where it was found. *)
LEMMA LiteralIs ==
  ASSUME NEW vec \in Seq(Items), NEW nstr \in Seq(Chars), NEW w, w = vec \o Literal(nstr)
  PROVE  /\ w \in Seq(Items)
         /\ LiteralsApart(vec) /\ EndsInItem(vec) => LiteralsApart(w)
         /\ WrittenAll(w) = Then(WrittenAll(vec), Escaped(nstr))
<1>0. nstr \in Seq(Glyphs)
  <2>1. Chars \subseteq Glyphs
    BY DEF Glyphs
  <2> QED
    BY <2>1, SeqMonotonic
<1>1. CASE nstr = <<>>
  <2>1. w = vec
    BY <1>1, ConcatEmptySeq DEF Literal
  <2>2. PICK a \in Seq(Glyphs) : a = WrittenAll(vec)
    <3>1. [text |-> nstr, fmt |-> <<>>, type |-> 0] \in Items
      BY <1>0, EmptySeq DEF Items
    <3> QED
      BY <3>1, WrittenAppend
  <2>3. Then(a, <<>>) = a
    BY <2>2, ConcatEmptySeq DEF Then
  <2> QED
    BY <1>1, <2>1, <2>2, <2>3, EscapedEmpty
<1>2. CASE nstr # <<>>
  <2>1. PICK item : item = [text |-> nstr, fmt |-> <<>>, type |-> 0]
    OBVIOUS
  <2>2. item \in Items
    BY <1>0, <2>1, EmptySeq DEF Items
  <2>3. w = Append(vec, item)
    BY <1>2, <2>1, <2>2, AppendIsConcat DEF Literal
  <2>4. Written(item) = Escaped(nstr)
    <3>1. item.type = 0 /\ item.text = nstr
      BY <2>1
    <3> QED
      BY <3>1, Zenon DEF Written
  <2>5. WrittenAll(Append(vec, item)) = Then(WrittenAll(vec), Written(item))
    BY <2>2, WrittenAppend
  <2>6. w \in Seq(Items)
    BY <2>2, <2>3, AppendProperties
  <2> QED
    BY <2>2, <2>3, <2>4, <2>5, <2>6, StaysApart
<1> QED
  BY <1>1, <1>2

(* The variables of the loop. *)
Percent == "%"
LoopVars(p) == [i : 1..Len(p) + 1, nstr : Seq(Chars), vec : Seq(Items), m_error : BOOLEAN]

RoundCases(p, s, q, key, item, error) ==
    \/ s.i > Len(p) /\ q = s
    \/ /\ s.i <= Len(p) /\ p[s.i] # Percent
       /\ q = [i |-> s.i + 1, nstr |-> Append(s.nstr, p[s.i]), vec |-> s.vec, m_error |-> s.m_error]
    \/ /\ s.i < Len(p) /\ p[s.i] = Percent /\ p[s.i + 1] = Percent
       /\ q = [i |-> s.i + 2, nstr |-> Append(s.nstr, Percent), vec |-> s.vec, m_error |-> s.m_error]
    \/ /\ s.i <= Len(p) /\ p[s.i] = Percent /\ key.fmt_status = 0
       /\ q = [i |-> key.n, nstr |-> <<>>, vec |-> Append(s.vec \o Literal(s.nstr), item), m_error |-> s.m_error]
    \/ /\ s.i <= Len(p)
       /\ q = [i |-> s.i + 1, nstr |-> s.nstr, vec |-> Append(s.vec, error), m_error |-> TRUE]

(* What a round does with them. *)
LEMMA RoundIs ==
  ASSUME NEW p \in Seq(Chars), NEW s \in LoopVars(p), NEW q, q = Round(p, s),
         NEW key, key = ScanKey(p, s.i),
         NEW item, item = [text |-> key.str, fmt |-> key.fmt, type |-> 1],
         NEW error, error = [text |-> <<"pattern_error">>, fmt |-> key.fmt, type |-> 0]
  PROVE  RoundCases(p, s, q, key, item, error)
<1> USE DEF RoundCases
<1>1. s = [i |-> s.i, nstr |-> s.nstr, vec |-> s.vec, m_error |-> s.m_error] /\ s.i \in Nat /\ Len(p) \in Nat
  <2>1. Len(p) \in Nat
    BY LenProperties
  <2> QED
    BY <2>1 DEF LoopVars
<1>2. q = IF s.i > Len(p) THEN s
          ELSE IF p[s.i] # Percent THEN [s EXCEPT !.i = @ + 1, !.nstr = Append(@, p[s.i])]
          ELSE IF s.i < Len(p) /\ p[s.i + 1] = Percent THEN [s EXCEPT !.i = @ + 2, !.nstr = Append(@, Percent)]
          ELSE IF key.fmt_status = 0
          THEN [s EXCEPT !.i = key.n, !.nstr = <<>>, !.vec = Append(@ \o Literal(s.nstr), item)]
          ELSE [s EXCEPT !.i = @ + 1, !.m_error = TRUE, !.vec = Append(@, error)]
  BY Zenon DEF Round, Percent
<1>3. PICK a, b, c, d, e :
        /\ a = Append(s.nstr, p[s.i]) /\ b = Append(s.nstr, Percent)
        /\ c = Append(s.vec \o Literal(s.nstr), item) /\ d = Append(s.vec, error) /\ e = p[s.i]
  OBVIOUS
<1>4. CASE s.i > Len(p)
  BY <1>2, <1>4
<1>5. CASE s.i <= Len(p) /\ e # Percent
  <2>1. q = [s EXCEPT !.i = s.i + 1, !.nstr = a]
    BY <1>1, <1>2, <1>3, <1>5
  <2>2. q = [i |-> s.i + 1, nstr |-> a, vec |-> s.vec, m_error |-> s.m_error]
    BY <1>1, <2>1
  <2> QED
    BY <1>3, <1>5, <2>2
<1>6. CASE s.i < Len(p) /\ e = Percent /\ p[s.i + 1] = Percent
  <2>1. q = [s EXCEPT !.i = s.i + 2, !.nstr = b]
    BY <1>1, <1>2, <1>3, <1>6
  <2>2. q = [i |-> s.i + 2, nstr |-> b, vec |-> s.vec, m_error |-> s.m_error]
    BY <1>1, <2>1
  <2> QED
    BY <1>3, <1>6, <2>2
<1>7. CASE s.i <= Len(p) /\ e = Percent /\ ~(s.i < Len(p) /\ p[s.i + 1] = Percent) /\ key.fmt_status = 0
  <2>1. q = [s EXCEPT !.i = key.n, !.nstr = <<>>, !.vec = c]
    BY <1>1, <1>2, <1>3, <1>7
  <2>2. q = [i |-> key.n, nstr |-> <<>>, vec |-> c, m_error |-> s.m_error]
    BY <1>1, <2>1
  <2> QED
    BY <1>3, <1>7, <2>2
<1>8. CASE s.i <= Len(p) /\ e = Percent /\ ~(s.i < Len(p) /\ p[s.i + 1] = Percent) /\ key.fmt_status # 0
  <2>1. q = [s EXCEPT !.i = s.i + 1, !.m_error = TRUE, !.vec = d]
    BY <1>1, <1>2, <1>3, <1>8
  <2>2. q = [i |-> s.i + 1, nstr |-> s.nstr, vec |-> d, m_error |-> TRUE]
    BY <1>1, <2>1
  <2> QED
    BY <1>3, <1>8, <2>2
<1> HIDE DEF RoundCases
<1> QED
  BY <1>1, <1>4, <1>5, <1>6, <1>7, <1>8

(* The loop invariant: the items, with the text collected for the next     *)
(* literal, are what was read of the pattern.                              *)
SoFar(p, s) == Then(WrittenAll(s.vec), Escaped(s.nstr)) = SubSeq(p, 1, s.i - 1)
Cut(p, s) == LiteralsApart(s.vec) /\ EndsInItem(s.vec) /\ (WrittenEmpty(p) \/ SoFar(p, s))
LoopInv(p, s) == s \in LoopVars(p) /\ (s.m_error \/ Cut(p, s))

Assoc(a, b, c) == Then(Then(a, b), c) = Then(a, Then(b, c))

(* Three pieces. *)
LEMMA ThenIs ==
  ASSUME NEW C, NEW a \in Seq(C), NEW b \in Seq(C), NEW c \in Seq(C)
  PROVE  /\ Then(a, b) \in Seq(C) /\ Assoc(a, b, c)
         /\ Then(a, <<>>) = a
<1>1. a \o b \in Seq(C)
  BY ConcatProperties
<1>2. (a \o b) \o c = a \o (b \o c)
  BY ConcatAssociative
<1>3. a \o <<>> = a
  BY ConcatEmptySeq
<1> QED
  BY <1>1, <1>2, <1>3 DEF Then, Assoc

(* The characters belong to Glyphs. *)
LEMMA CharsAre ==
  /\ Chars \subseteq Glyphs /\ Percent \in Chars
  /\ \A t \in Seq(Chars) : t \in Seq(Glyphs)
<1>1. Chars \subseteq Glyphs
  BY DEF Glyphs
<1>2. Percent \in Chars
  BY Zenon DEF Chars, Percent
<1> QED
  BY <1>1, <1>2, SeqMonotonic

(* A character that stands for itself. *)
LEMMA CharRound ==
  ASSUME NEW p \in Seq(Chars), NEW s \in LoopVars(p), NEW m \in Nat, m \in {s.i, s.i + 1}, m <= Len(p), SoFar(p, s),
         NEW c \in Chars, Escape(c) = SubSeq(p, s.i, m),
         NEW q, q.i = m + 1, q.nstr = Append(s.nstr, c), q.vec = s.vec
  PROVE  SoFar(p, q)
<1>1. s.i \in Nat \ {0} /\ s.nstr \in Seq(Chars) /\ s.vec \in Seq(Items)
  BY LenProperties DEF LoopVars
<1>2. PICK i \in Nat \ {0} : i = s.i
  BY <1>1
<1>3. PICK j \in Nat : j = i - 1
  BY <1>2
<1>4. PICK w \in Seq(Glyphs) : w = WrittenAll(s.vec)
  <2>1. [text |-> <<>>, fmt |-> <<>>, type |-> 0] \in Items
    BY EmptySeq DEF Items
  <2> QED
    BY <1>1, <2>1, WrittenAppend
<1>5. PICK t \in Seq(Glyphs) : t = Escaped(s.nstr)
  BY <1>1, CharsAre, EscapedIs
<1>6. c \in Glyphs /\ s.nstr \in Seq(Glyphs)
  BY <1>1, CharsAre
<1>7. Escaped(q.nstr) = Then(t, Escape(c)) /\ Escape(c) \in Seq(Glyphs)
  BY <1>5, <1>6, EscapedIs
<1>8. Then(w, Then(t, Escape(c))) = Then(Then(w, t), Escape(c))
  <2>1. Assoc(w, t, Escape(c))
    BY <1>4, <1>5, <1>7, ThenIs
  <2> QED
    BY <2>1 DEF Assoc
<1>9. Then(w, t) = SubSeq(p, 1, j)
  BY <1>2, <1>3, <1>4, <1>5 DEF SoFar
<1>10. Joins(p, 1, j, m)
  <2>1. m = i \/ m = i + 1
    BY <1>2
  <2>2. 1 \in Nat \ {0} /\ 1 <= j + 1 /\ j <= m
    BY <1>3, <2>1
  <2> QED
    BY <2>2, PiecesJoin
<1>11. Then(SubSeq(p, 1, j), Escape(c)) = SubSeq(p, 1, m)
  <2>1. j + 1 = s.i
    BY <1>2, <1>3
  <2> QED
    BY <1>10, <2>1 DEF Joins
<1>12. q.i - 1 = m
  OBVIOUS
<1> QED
  BY <1>4, <1>7, <1>8, <1>9, <1>11, <1>12 DEF SoFar

(* The loop invariant after an item. *)
ItemCut(p, s, q) ==
  /\ q.vec \in Seq(Items) /\ q.i \in 1..Len(p) + 1 /\ q.i > s.i
  /\ LiteralsApart(s.vec) /\ EndsInItem(s.vec) => LiteralsApart(q.vec) /\ EndsInItem(q.vec)
  /\ SoFar(p, s) => WrittenEmpty(p) \/ SoFar(p, q)

(* An item is cut out with the literal text before it. *)
LEMMA ItemRound ==
  ASSUME NEW p \in Seq(Chars), NEW s \in LoopVars(p), s.i <= Len(p), p[s.i] = Percent,
         NEW key, key = ScanKey(p, s.i), key.fmt_status = 0,
         NEW item, item = [text |-> key.str, fmt |-> key.fmt, type |-> 1],
         NEW q, q.i = key.n, q.nstr = <<>>, q.vec = Append(s.vec \o Literal(s.nstr), item)
  PROVE  ItemCut(p, s, q)
<1> USE DEF ItemCut
<1>1. PICK len \in Nat : len = Len(p)
  BY LenProperties
<1>2. s.i \in 1..len /\ s.nstr \in Seq(Chars) /\ s.vec \in Seq(Items)
  BY <1>1 DEF LoopVars
<1>3. PICK i \in 1..len : i = s.i
  BY <1>2
<1>4. /\ key.str \in Seq(Chars) /\ key.fmt \in Seq(Chars) /\ key.n \in i + 1..len + 1
      /\ WrittenEmpty(p) \/ Then(key.str, Braced(key.fmt)) = SubSeq(p, i + 1, key.n - 1)
  <2>1. key = ScanKey(p, i)
    BY <1>3
  <2>2. KeyFound(p, i, key)
    BY <1>1, <2>1, KeyIs
  <2> QED
    BY <1>1, <2>2 DEF KeyFound
<1>5. PICK n \in i + 1..len + 1 : n = key.n
  BY <1>4
<1>6. item \in Items /\ item.type = 1
  <2>1. key.str \in Seq(Glyphs) /\ key.fmt \in Seq(Glyphs)
    BY <1>4, CharsAre
  <2> QED
    BY <2>1 DEF Items
<1>7. PICK w : w = s.vec \o Literal(s.nstr)
  OBVIOUS
<1>8. /\ w \in Seq(Items)
      /\ LiteralsApart(s.vec) /\ EndsInItem(s.vec) => LiteralsApart(w)
      /\ WrittenAll(w) = Then(WrittenAll(s.vec), Escaped(s.nstr))
  BY <1>2, <1>7, LiteralIs
<1>9. q.vec = Append(w, item) /\ q.vec \in Seq(Items)
  BY <1>6, <1>7, <1>8, AppendProperties
<1>10. LiteralsApart(s.vec) /\ EndsInItem(s.vec) => LiteralsApart(q.vec) /\ EndsInItem(q.vec)
  BY <1>6, <1>8, <1>9, StaysApart
<1>11. ASSUME SoFar(p, s), ~WrittenEmpty(p) PROVE SoFar(p, q)
  <2>1. PICK j, d : j = i - 1 /\ d = n - 1
    OBVIOUS
  <2>0. i \in Nat /\ i >= 1 /\ n \in Nat /\ i + 1 <= n /\ n <= len + 1
    BY <1>3, <1>5
  <2>2. j \in Nat /\ d \in Nat /\ j + 1 = i /\ j <= d /\ i <= d /\ d <= len
    BY <2>0, <2>1
  <2>3. WrittenAll(w) = SubSeq(p, 1, j)
    <3>1. Then(WrittenAll(s.vec), Escaped(s.nstr)) = SubSeq(p, 1, s.i - 1)
      BY <1>11 DEF SoFar
    <3>2. s.i - 1 = j
      BY <1>3, <2>1
    <3> QED
      BY <1>8, <3>1, <3>2, Zenon
  <2>4. PICK a \in Seq(Glyphs), b \in Seq(Glyphs) : a = key.str /\ b = Braced(key.fmt)
    <3>1. key.str \in Seq(Glyphs) /\ key.fmt \in Seq(Glyphs)
      BY <1>4, CharsAre
    <3>2. Braced(key.fmt) \in Seq(Glyphs)
      <4>1. Open \in Glyphs /\ Close \in Glyphs
        BY Zenon DEF Open, Close, Glyphs, Chars
      <4>2. PICK f \in Seq(Glyphs) : f = key.fmt
        BY <3>1
      <4>3. <<Open>> \in Seq(Glyphs) /\ <<Close>> \in Seq(Glyphs)
        BY <4>1
      <4>4. <<Open>> \o f \in Seq(Glyphs)
        BY <4>3, ConcatProperties
      <4>5. (<<Open>> \o f) \o <<Close>> \in Seq(Glyphs)
        BY <4>3, <4>4, ConcatProperties
      <4> QED
        BY <4>2, <4>5 DEF Braced
    <3> QED
      BY <3>1, <3>2
  <2>5. <<Percent>> \in Seq(Glyphs)
    <3>1. Percent \in Glyphs
      BY CharsAre
    <3> QED
      BY <3>1
  <2>6. Written(item) = Then(Then(<<Percent>>, a), b)
    <3>1. item.type # 0 /\ item.text = a /\ item.fmt = key.fmt
      BY <2>4
    <3>2. b = IF key.fmt = <<>> THEN <<>> ELSE <<Open>> \o key.fmt \o <<Close>>
      BY <2>4, Zenon DEF Braced
    <3> QED
      BY <3>1, <3>2, Zenon DEF Written, Then, Percent, Open, Close
  <2>7. Then(Then(<<Percent>>, a), b) = Then(<<Percent>>, Then(a, b))
    <3>1. Assoc(<<Percent>>, a, b)
      BY <2>4, <2>5, ThenIs
    <3> QED
      BY <3>1 DEF Assoc
  <2>8. <<Percent>> = SubSeq(p, i, i)
    BY <1>1, <1>3, CharIs
  <2>9. Then(a, b) = SubSeq(p, i + 1, d)
    BY <1>4, <1>5, <1>11, <2>1, <2>4
  <2>10. Joins(p, i, i, d) /\ Joins(p, 1, j, d)
    <3>1. i \in Nat \ {0} /\ i \in Nat /\ i <= i + 1 /\ 1 \in Nat \ {0} /\ 1 <= j + 1 /\ d <= Len(p)
      BY <1>1, <2>2
    <3> QED
      BY <2>2, <3>1, PiecesJoin
  <2>11. Written(item) = SubSeq(p, i, d)
    BY <2>6, <2>7, <2>8, <2>9, <2>10 DEF Joins
  <2>12. WrittenAll(q.vec) = Then(WrittenAll(w), Written(item))
    BY <1>6, <1>8, <1>9, WrittenAppend
  <2>13. WrittenAll(q.vec) = SubSeq(p, 1, d)
    BY <2>2, <2>3, <2>10, <2>11, <2>12 DEF Joins
  <2>14. WrittenAll(q.vec) \in Seq(Glyphs)
    BY <1>6, <1>9, WrittenAppend
  <2>15. Then(WrittenAll(q.vec), <<>>) = WrittenAll(q.vec)
    BY <2>14, ThenIs
  <2> QED
    BY <1>5, <2>1, <2>13, <2>15, EscapedEmpty DEF SoFar
<1>12. q.i \in 1..Len(p) + 1 /\ q.i > s.i
  BY <1>1, <1>3, <1>5
<1> QED
  BY <1>6, <1>9, <1>10, <1>11, <1>12

(* Two characters. *)
LEMMA TwoChars ==
  ASSUME NEW c
  PROVE  Then(<<c>>, <<c>>) = <<c, c>>
<1>1. <<c>> \in Seq({c}) /\ Len(<<c>>) = 1 /\ <<c, c>> \in Seq({c}) /\ Len(<<c, c>>) = 2
  OBVIOUS
<1>2. Append(<<c>>, c) = <<c, c>>
  <2>1. PICK s, u : s = <<c>> /\ u = <<c, c>>
    OBVIOUS
  <2>2. s \in Seq({c}) /\ u \in Seq({c}) /\ Len(s) = 1 /\ Len(u) = 2 /\ u[1] = c /\ u[2] = c /\ s[1] = c /\ c \in {c}
    BY <2>1
  <2>3. PICK w \in Seq({c}) : w = Append(s, c)
    BY <2>2, AppendProperties
  <2>4. Len(w) = 2 /\ w[2] = c /\ w[1] = c
    <3>1. Len(w) = Len(s) + 1
      BY <2>2, <2>3, AppendProperties
    <3>2. w[Len(s) + 1] = c
      BY <2>2, <2>3, AppendProperties
    <3>3. \A i \in 1..Len(s) : w[i] = s[i]
      BY <2>2, <2>3, AppendProperties
    <3> QED
      BY <2>2, <3>1, <3>2, <3>3
  <2>5. w = u
    BY <2>2, <2>3, <2>4, SeqEqual
  <2> QED
    BY <2>1, <2>3, <2>5
<1>3. Append(<<c>>, c) = <<c>> \o <<c>>
  <2>1. c \in {c}
    OBVIOUS
  <2> QED
    BY <1>1, <2>1, AppendIsConcat
<1> QED
  BY <1>2, <1>3 DEF Then

(* A round keeps the loop invariant and takes a character, if there is one. *)
LEMMA RoundKeeps ==
  ASSUME NEW p \in Seq(Chars), NEW s \in LoopVars(p), NEW q, q = Round(p, s)
  PROVE  /\ q \in LoopVars(p) /\ (LoopInv(p, s) => LoopInv(p, q))
         /\ s.i <= Len(p) => q.i > s.i
         /\ s.i > Len(p) => q = s
<1>1. PICK len \in Nat : len = Len(p)
  BY LenProperties
<1>2. s.i \in 1..len + 1 /\ s.nstr \in Seq(Chars) /\ s.vec \in Seq(Items) /\ s.m_error \in BOOLEAN
  BY <1>1 DEF LoopVars
<1>3. PICK key, item, error :
        /\ key = ScanKey(p, s.i) /\ item = [text |-> key.str, fmt |-> key.fmt, type |-> 1]
        /\ error = [text |-> <<"pattern_error">>, fmt |-> key.fmt, type |-> 0]
  OBVIOUS
<1>4. CASE s.i > len /\ q = s
  BY <1>1, <1>2, <1>4
<1>5. CASE /\ s.i <= len /\ p[s.i] # Percent
           /\ q = [i |-> s.i + 1, nstr |-> Append(s.nstr, p[s.i]), vec |-> s.vec, m_error |-> s.m_error]
  <2>1. PICK c \in Chars : c = p[s.i]
    BY <1>1, <1>2, <1>5, ElementOfSeq
  <2>2. PICK text \in Seq(Chars) : text = Append(s.nstr, c)
    BY <1>2, <2>1, AppendProperties
  <2>3. /\ q.i = s.i + 1 /\ q.nstr = Append(s.nstr, c) /\ q.vec = s.vec /\ q.m_error = s.m_error
        /\ q = [i |-> s.i + 1, nstr |-> text, vec |-> s.vec, m_error |-> s.m_error]
    BY <1>5, <2>1, <2>2
  <2>4. s.i + 1 \in 1..len + 1 /\ s.i \in 1..len /\ s.i \in Nat
    BY <1>2, <1>5
  <2>5. q \in LoopVars(p)
    BY <1>1, <1>2, <2>3, <2>4 DEF LoopVars
  <2>6. Escape(c) = <<c>>
    <3>1. c # Percent
      BY <1>5, <2>1
    <3> QED
      BY <3>1, Zenon DEF Escape, Percent
  <2>7. SubSeq(p, s.i, s.i) = <<c>>
    BY <1>1, <2>1, <2>4, CharIs
  <2>8. SoFar(p, s) => SoFar(p, q)
    <3>1. PICK m \in Nat : m = s.i
      BY <2>4
    <3>2. m \in {s.i, s.i + 1} /\ m <= Len(p) /\ q.i = m + 1 /\ Escape(c) = SubSeq(p, s.i, m)
      BY <1>1, <1>5, <2>3, <2>6, <2>7, <3>1
    <3> QED
      BY <2>3, <3>1, <3>2, CharRound
  <2> QED
    BY <1>1, <1>5, <2>3, <2>4, <2>5, <2>8 DEF LoopInv, Cut
<1>6. CASE /\ s.i < len /\ p[s.i] = Percent /\ p[s.i + 1] = Percent
           /\ q = [i |-> s.i + 2, nstr |-> Append(s.nstr, Percent), vec |-> s.vec, m_error |-> s.m_error]
  <2>1. PICK m \in Nat : m = s.i + 1
    BY <1>2
  <2>2. PICK text \in Seq(Chars) : text = Append(s.nstr, Percent)
    BY <1>2, CharsAre, AppendProperties
  <2>3. q.nstr = Append(s.nstr, Percent) /\ q = [i |-> s.i + 2, nstr |-> text, vec |-> s.vec, m_error |-> s.m_error]
    BY <1>6, <2>2
  <2>4. q.i = s.i + 2 /\ q.vec = s.vec /\ q.m_error = s.m_error
    BY <2>3
  <2>5. m + 1 = s.i + 2 /\ m + 1 \in 1..len + 1 /\ s.i \in 1..len /\ m \in 1..len /\ s.i \in Nat \ {0}
    <3>1. PICK i \in 1..len + 1 : i = s.i
      BY <1>2
    <3>2. i < len /\ m = i + 1
      BY <1>6, <2>1, <3>1
    <3>3. m + 1 = i + 2 /\ m + 1 \in 1..len + 1 /\ i \in 1..len /\ m \in 1..len /\ i \in Nat \ {0}
      BY <3>2
    <3> QED
      BY <3>1, <3>3
  <2>6. q \in LoopVars(p)
    BY <1>1, <1>2, <2>3, <2>5 DEF LoopVars
  <2>7. Escape(Percent) = SubSeq(p, s.i, m)
    <3>1. Escape(Percent) = <<Percent, Percent>>
      BY Zenon DEF Escape, Percent
    <3>2. SubSeq(p, s.i, s.i) = <<Percent>> /\ SubSeq(p, m, m) = <<Percent>>
      <4>1. p[s.i] = Percent /\ p[m] = Percent /\ s.i \in 1..Len(p) /\ m \in 1..Len(p)
        BY <1>1, <1>6, <2>1, <2>5
      <4>2. SubSeq(p, s.i, s.i) = <<p[s.i]>> /\ SubSeq(p, m, m) = <<p[m]>>
        BY <4>1, CharIs
      <4> QED
        BY <4>1, <4>2
    <3>3. s.i <= s.i + 1 /\ s.i <= m /\ m <= Len(p) /\ s.i \in Nat
      BY <1>1, <2>1, <2>5
    <3>4. Joins(p, s.i, s.i, m)
      BY <2>5, <3>3, PiecesJoin
    <3>5. Then(<<Percent>>, <<Percent>>) = <<Percent, Percent>>
      BY TwoChars
    <3> QED
      BY <2>1, <3>1, <3>2, <3>4, <3>5 DEF Joins
  <2>8. SoFar(p, s) => SoFar(p, q)
    <3>1. m \in {s.i, s.i + 1} /\ m <= Len(p) /\ q.i = m + 1 /\ Percent \in Chars
      BY <1>1, <2>1, <2>4, <2>5, CharsAre
    <3> QED
      BY <2>3, <2>4, <2>7, <3>1, CharRound
  <2> QED
    BY <1>1, <1>6, <2>4, <2>5, <2>6, <2>8 DEF LoopInv, Cut
<1>7. CASE /\ s.i <= len /\ p[s.i] = Percent /\ key.fmt_status = 0
           /\ q = [i |-> key.n, nstr |-> <<>>, vec |-> Append(s.vec \o Literal(s.nstr), item), m_error |-> s.m_error]
  <2>1. PICK w : w = Append(s.vec \o Literal(s.nstr), item)
    OBVIOUS
  <2>0. q = [i |-> key.n, nstr |-> <<>>, vec |-> w, m_error |-> s.m_error]
    BY <1>7, <2>1
  <2>2. q.i = key.n /\ q.nstr = <<>> /\ q.vec = w /\ q.m_error = s.m_error
    BY <2>0
  <2>3. /\ q.vec \in Seq(Items) /\ q.i \in 1..len + 1 /\ q.i > s.i
        /\ LiteralsApart(s.vec) /\ EndsInItem(s.vec) => LiteralsApart(q.vec) /\ EndsInItem(q.vec)
        /\ SoFar(p, s) => WrittenEmpty(p) \/ SoFar(p, q)
    <3>1. q.vec = Append(s.vec \o Literal(s.nstr), item) /\ s.i <= Len(p)
      BY <1>1, <1>7, <2>1, <2>2
    <3>2. ItemCut(p, s, q)
      BY <1>3, <1>7, <2>2, <3>1, ItemRound
    <3> QED
      BY <1>1, <3>2 DEF ItemCut
  <2>4. <<>> \in Seq(Chars)
    BY EmptySeq
  <2>5. q \in LoopVars(p)
    BY <1>1, <1>2, <2>0, <2>2, <2>3, <2>4 DEF LoopVars
  <2>6. LoopInv(p, s) => LoopInv(p, q)
    BY <2>2, <2>3, <2>5 DEF LoopInv, Cut
  <2>7. s.i <= Len(p) /\ ~(s.i > Len(p)) /\ q.i > s.i
    BY <1>1, <1>2, <1>7, <2>3
  <2> QED
    BY <2>5, <2>6, <2>7
<1>8. CASE s.i <= len /\ q = [i |-> s.i + 1, nstr |-> s.nstr, vec |-> Append(s.vec, error), m_error |-> TRUE]
  <2>1. s.i \in 1..len /\ s.i + 1 \in 1..len + 1
    BY <1>2, <1>8
  <2>2. error \in Items
    <3>1. KeyFound(p, s.i, key)
      BY <1>1, <1>3, <2>1, KeyIs
    <3>2. key.fmt \in Seq(Glyphs)
      BY <3>1, CharsAre DEF KeyFound
    <3>3. <<"pattern_error">> \in Seq(Glyphs)
      <4>1. "pattern_error" \in Glyphs
        BY DEF Glyphs
      <4> QED
        BY <4>1
    <3> QED
      BY <1>3, <3>2, <3>3 DEF Items
  <2>3. PICK w \in Seq(Items) : w = Append(s.vec, error)
    BY <1>2, <2>2, AppendProperties
  <2>4. q = [i |-> s.i + 1, nstr |-> s.nstr, vec |-> w, m_error |-> TRUE]
    BY <1>8, <2>3
  <2>5. q \in LoopVars(p) /\ q.m_error /\ q.i = s.i + 1
    BY <1>1, <1>2, <2>1, <2>4 DEF LoopVars
  <2> QED
    BY <1>1, <1>8, <2>1, <2>5 DEF LoopInv
<1>9. RoundCases(p, s, q, key, item, error)
  BY <1>3, RoundIs
<1> QED
  BY <1>1, <1>4, <1>5, <1>6, <1>7, <1>8, <1>9 DEF RoundCases

(* The loop, *)
Start == [i |-> 1, nstr |-> <<>>, vec |-> <<>>, m_error |-> FALSE]
Rounds(p, n) == CHOOSE after : after = [r \in 0..n |-> IF r = 0 THEN Start ELSE Round(p, after[r - 1])]

(* a recursive function, *)
LEMMA RoundsAre ==
  ASSUME NEW p \in Seq(Chars), NEW n \in Nat, NEW h, h = Rounds(p, n)
  PROVE  h[0] = Start /\ \A r \in 1..n : h[r] = Round(p, h[r - 1])
<1>1. PICK S : S = LoopVars(p)
  OBVIOUS
<1>2. PICK g : g = [x \in (1..n) \X S |-> Round(p, x[2])]
  OBVIOUS
<1>3. ASSUME NEW r \in 1..n, NEW y \in S PROVE g[<<r, y>>] = Round(p, y) /\ Round(p, y) \in S
  <2>1. PICK x : x = <<r, y>>
    OBVIOUS
  <2>2. x[2] = y /\ x \in (1..n) \X S
    BY <2>1
  <2>3. Round(p, y) \in S
    BY <1>1, RoundKeeps
  <2> QED
    BY <1>2, <2>1, <2>2, <2>3
<1>4. g \in [(1..n) \X S -> S]
  <2>1. ASSUME NEW x \in (1..n) \X S PROVE Round(p, x[2]) \in S
    BY <1>3
  <2> QED
    BY <1>2, <2>1
<1>5. Start \in S
  <2>1. Len(p) \in Nat
    BY LenProperties
  <2> QED
    BY <1>1, <2>1, EmptySeq DEF Start, LoopVars
<1>6. PICK f \in [0..n -> S] : Recurs(f, n, Start, g)
  BY <1>4, <1>5, Recursion
<1>7. ASSUME NEW r \in 0..n PROVE f[r] = IF r = 0 THEN Start ELSE Round(p, f[r - 1])
  <2>1. CASE r = 0
    BY <1>6, <2>1 DEF Recurs
  <2>2. CASE r # 0
    <3>1. r \in 1..n /\ r - 1 \in 0..n
      BY <2>2
    <3>2. PICK y \in S : y = f[r - 1]
      BY <1>6, <3>1
    <3> QED
      BY <1>3, <1>6, <2>2, <3>1, <3>2 DEF Recurs
  <2> QED
    BY <2>1, <2>2
<1>8. f = [r \in 0..n |-> IF r = 0 THEN Start ELSE Round(p, f[r - 1])]
  BY <1>6, <1>7
<1>9. h = [r \in 0..n |-> IF r = 0 THEN Start ELSE Round(p, h[r - 1])]
  BY <1>8 DEF Rounds
<1>10. h[0] = Start
  <2>1. 0 \in 0..n
    OBVIOUS
  <2> QED
    BY <1>9, <2>1
<1>11. ASSUME NEW r \in 1..n PROVE h[r] = Round(p, h[r - 1])
  <2>1. r \in 0..n /\ r # 0
    OBVIOUS
  <2> QED
    BY <1>9, <2>1
<1> QED
  BY <1>10, <1>11

(* reads the whole pattern. *)
LEMMA LoopIs ==
  ASSUME NEW p \in Seq(Chars), NEW s, s = Loop(p)
  PROVE  LoopInv(p, s) /\ s.i = Len(p) + 1
<1>1. PICK n \in Nat : n = Len(p)
  BY LenProperties
<1>2. PICK h : h = Rounds(p, n)
  OBVIOUS
<1>3. s = h[n]
  BY <1>1, <1>2 DEF Loop, Rounds, Start
<1>4. h[0] = Start /\ \A r \in 1..n : h[r] = Round(p, h[r - 1])
  BY <1>2, RoundsAre
<1>5. LoopInv(p, Start)
  <2>1. Start \in LoopVars(p)
    BY <1>1, EmptySeq DEF Start, LoopVars
  <2>2. Start.vec = <<>> /\ Start.nstr = <<>> /\ Start.i - 1 = 0
    BY DEF Start
  <2>3. LiteralsApart(<<>>) /\ EndsInItem(<<>>)
    BY EmptySeq DEF LiteralsApart, EndsInItem
  <2>4. SubSeq(p, 1, 0) = <<>>
    BY SubSeqEmpty
  <2>5. Then(<<>>, <<>>) = <<>>
    BY DEF Then
  <2>6. SoFar(p, Start)
    BY <2>2, <2>4, <2>5, WrittenNone, EscapedEmpty DEF SoFar
  <2> QED
    BY <2>1, <2>2, <2>3, <2>6 DEF LoopInv, Cut
<1>6. \A r \in 0..n : LoopInv(p, h[r]) /\ h[r].i >= r + 1
  <2> DEFINE Bad == {r \in 0..n : ~(LoopInv(p, h[r]) /\ h[r].i >= r + 1)}
  <2> SUFFICES ASSUME Bad # {} PROVE FALSE
    OBVIOUS
  <2>1. Bad \subseteq Nat
    OBVIOUS
  <2>2. PICK r \in Bad : \A j \in Bad : r <= j
    <3> HIDE DEF Bad
    <3> QED
      BY <2>1, LeastElement
  <2>3. r \in 0..n /\ ~(LoopInv(p, h[r]) /\ h[r].i >= r + 1)
    BY <2>2
  <2>4. r # 0
    BY <1>4, <1>5, <2>3 DEF Start
  <2>5. r \in 1..n /\ r - 1 \in 0..n /\ r - 1 \notin Bad
    BY <2>2, <2>3, <2>4
  <2>6. PICK y : y = h[r - 1]
    OBVIOUS
  <2>7. LoopInv(p, y) /\ y.i >= r /\ y \in LoopVars(p) /\ y.i \in 1..n + 1
    BY <1>1, <2>5, <2>6 DEF LoopInv, LoopVars
  <2>8. PICK q : q = Round(p, y)
    OBVIOUS
  <2>9. h[r] = q
    BY <1>4, <2>5, <2>6, <2>8
  <2>10. LoopInv(p, q) /\ (y.i <= n => q.i > y.i) /\ (y.i > n => q = y)
    BY <1>1, <2>7, <2>8, RoundKeeps
  <2>11. q.i \in 1..n + 1
    BY <1>1, <2>10 DEF LoopInv, LoopVars
  <2>12. q.i >= r + 1
    BY <2>5, <2>7, <2>10, <2>11
  <2> QED
    BY <2>3, <2>9, <2>10, <2>12
<1>7. LoopInv(p, s) /\ s.i >= n + 1
  BY <1>3, <1>6
<1>8. s.i \in 1..n + 1
  BY <1>1, <1>7 DEF LoopInv, LoopVars
<1> QED
  BY <1>1, <1>7, <1>8

(* Every pattern that init() accepts is cut without losing, adding or      *)
(* reordering a character, whatever its length and letters.                *)
LEMMA EveryPatternFaithful ==
  ASSUME NEW p \in Seq(Chars), ~init(p).m_error, NEW vec, vec = init(p).vec
  PROVE  /\ WrittenEmpty(p) \/ WrittenAll(vec) = p
         /\ LiteralsApart(vec)
<1>1. PICK s : s = Loop(p)
  OBVIOUS
<1>2. LoopInv(p, s) /\ s.i = Len(p) + 1
  BY <1>1, LoopIs
<1>3. init(p) = [vec |-> s.vec \o Literal(s.nstr), m_error |-> s.m_error]
  BY <1>1, Zenon DEF init
<1>4. ~s.m_error /\ vec = s.vec \o Literal(s.nstr)
  <2>1. PICK w, r : w = s.vec \o Literal(s.nstr) /\ r = init(p)
    OBVIOUS
  <2>2. r = [vec |-> w, m_error |-> s.m_error]
    BY <1>3, <2>1
  <2>3. r.vec = w /\ r.m_error = s.m_error
    BY <2>2
  <2> QED
    BY <2>1, <2>3
<1>5. s.vec \in Seq(Items) /\ s.nstr \in Seq(Chars) /\ Cut(p, s)
  BY <1>2, <1>4 DEF LoopInv, LoopVars
<1>6. LiteralsApart(vec) /\ WrittenAll(vec) = Then(WrittenAll(s.vec), Escaped(s.nstr))
  BY <1>4, <1>5, LiteralIs DEF Cut
<1>7. SoFar(p, s) => WrittenAll(vec) = p
  <2>1. Len(p) \in Nat /\ s.i - 1 = Len(p)
    BY <1>2, LenProperties
  <2>2. SubSeq(p, 1, Len(p)) = p
    BY SubSeqFull
  <2> QED
    BY <1>6, <2>1, <2>2 DEF SoFar
<1> QED
  BY <1>5, <1>6, <1>7 DEF Cut

(* Every appender has a formatter, and the formatters do what their        *)
(* patterns say: Logger::setFormatter, addAppender and LogFormatter::init. *)
THEOREM FormatterSoundCorrect == Spec => []FormatterSound
<1>1. AllFaithful
  <2> SUFFICES ASSUME NEW p \in Patterns, ~isError(p) PROVE p \in Faithful
    BY DEF AllFaithful
  <2>1. PICK n \in Nat : p \in [1..n -> Chars]
    BY DEF Patterns
  <2>2. p \in Seq(Chars)
    BY <2>1, SeqDef
  <2>3. ~init(p).m_error
    BY Zenon DEF isError
  <2>4. PICK vec : vec = init(p).vec
    OBVIOUS
  <2>5. (WrittenEmpty(p) \/ WrittenAll(vec) = p) /\ LiteralsApart(vec)
    BY <2>2, <2>3, <2>4, EveryPatternFaithful
  <2> QED
    BY <2>4, <2>5, Zenon DEF Faithful, WrittenAll, LiteralsApart
<1>2. ILog => AppendersFormatted
  BY DEF ILog, LoggersOK
<1>3. ILog => FormatterSound
  BY <1>1, <1>2 DEF FormatterSound
<1> QED
  BY InitILog, StepILog, <1>3, PTL DEF Spec
=============================================================================
