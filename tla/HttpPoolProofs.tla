--------------------------- MODULE HttpPoolProofs ---------------------------
(***************************************************************************)
(* Proofs about HttpPool, for any number of clients, connections and       *)
(* requests: the pool's bookkeeping is exact, and a client only ever gets  *)
(* the response to its own request.                                        *)
(***************************************************************************)
EXTENDS HttpPool, TLAPS, FiniteSetTheorems, SequenceTheorems

PcOf == {"idle", "connect", "send", "recv", "body", "release"}
Using == {"send", "recv", "body", "release"}
Record == [pc : PcOf, conn : 0..MaxConns, req : Nat, got : Nat, pooled : BOOLEAN]
Parts == Nat \X {"head", "bare", "body"}
SessOf == {"none", "backlog", "recv", "respond", "respond_close", "closed"}

\* The types of what the arguments look at.
PoolTypes ==
    /\ m_conns \in Seq(Conns) /\ m_total \in Int /\ m_request \in [Conns -> Nat]
    /\ conns \in 0..MaxConns /\ objects \in SUBSET Conns
    /\ cl \in [Clients -> Record] /\ reqs \in Nat
NetTypes ==
    /\ backlog \in Seq(Conns) /\ sess \in [Conns -> SessOf]
    /\ c2s \in [Conns -> Seq(Nat)] /\ s2c \in [Conns -> Seq(Parts)]
    /\ cli \in [Conns -> BOOLEAN]

-----------------------------------------------------------------------------
(* The inductive invariant of the pool *)

Holders == {d \in Clients : cl[d].pooled /\ cl[d].conn # 0}
Idle == {m_conns[i] : i \in 1..Len(m_conns)}

\* A client has a connection in the calls that use one, and the numbers of
\* connections are given out in order.
HasConn ==
    \A c \in Clients : /\ cl[c].conn <= conns
                       /\ cl[c].conn # 0 <=> cl[c].pc \in Using
                       /\ cl[c].pc = "idle" => ~cl[c].pooled
\* No connection has two owners: two clients, two places in the pool, or one of each.
OneOwner ==
    /\ \A c, d \in Clients : c # d /\ cl[c].conn # 0 => cl[c].conn # cl[d].conn
    /\ \A i, j \in 1..Len(m_conns) : i # j => m_conns[i] # m_conns[j]
    /\ \A c \in Clients : \A i \in 1..Len(m_conns) : m_conns[i] # cl[c].conn
\* What is in the pool may be given out.
Kept ==
    \A i \in 1..Len(m_conns) :
        /\ m_conns[i] <= conns /\ Usable(m_conns[i])
        /\ m_request[m_conns[i]] < m_maxRequest
\* The connections that exist are those of the pool and of its clients, and the
\* three ways to count them agree.
Counted ==
    /\ m_total = Cardinality(objects)
    /\ objects = InUse \cup Idle
    /\ Cardinality(objects) = Len(m_conns) + Cardinality(Holders)

IPoolExact == PoolTypes /\ NetTypes /\ HasConn /\ OneOwner /\ Kept /\ Counted

-----------------------------------------------------------------------------
(* The inductive invariant of the responses *)

NoHead(s) == \A i \in 1..Len(s) : s[i][2] = "body"
OneHead(s, r) ==
    \A i \in 1..Len(s) : s[i][2] # "body" => /\ s[i][1] = r
                                            /\ \A j \in 1..Len(s) : j # i => s[j][2] = "body"

\* Nothing of an earlier request is on the way but bodies nobody read.
Clean(k) == c2s[k] = <<>> /\ NoHead(s2c[k])
\* The request r is on its way, or the one response that answers it, or neither.
Waits(k, r) == Clean(k) \/ (c2s[k] = <<r>> /\ NoHead(s2c[k])) \/ (c2s[k] = <<>> /\ OneHead(s2c[k], r))

\* A connection nobody made yet carries nothing, and a closed one nothing to the
\* client.
Wires ==
    \A k \in Conns : /\ k > conns => c2s[k] = <<>> /\ s2c[k] = <<>>
                     /\ ~cli[k] => s2c[k] = <<>>
\* A session answers only what it received.
Answers == \A k \in Conns : sess[k] \in {"respond", "respond_close"} => c2s[k] # <<>>
\* A client sends on a connection that is clean, gives it back clean or closed,
\* and what it got is the answer to its request.
ExchangeOf(c) ==
    /\ cl[c].pc \in {"send", "recv", "body"} => cli[cl[c].conn]
    /\ cl[c].pc \in {"send", "body"} => Clean(cl[c].conn)
    /\ cl[c].pc = "release" /\ cli[cl[c].conn] => Clean(cl[c].conn)
    /\ cl[c].pc = "recv" => Waits(cl[c].conn, cl[c].req)
    /\ cl[c].pc \in {"idle", "connect", "send", "recv"} => cl[c].got = 0
    /\ cl[c].got # 0 => cl[c].got = cl[c].req
Exchange == \A c \in Clients : ExchangeOf(c)
IdleClean == \A i \in 1..Len(m_conns) : Clean(m_conns[i])

IResponse == IPoolExact /\ Answers /\ Wires /\ Exchange /\ IdleClean

-----------------------------------------------------------------------------
(* The steps of the server *)

\* What a step of the server does to a connection: nothing, it drops what was
\* sent to it, or it answers the first request.
ServerMoves(k) ==
    \/ c2s'[k] \in {c2s[k], <<>>} /\ s2c'[k] = s2c[k]
    \/ /\ c2s[k] # <<>> /\ c2s'[k] \in {Tail(c2s[k]), <<>>}
       /\ \/ ~cli[k] /\ s2c'[k] = s2c[k]
          \/ cli[k] /\ \E body \in BOOLEAN : s2c'[k] = s2c[k] \o Response(Head(c2s[k]), body)

\* Closing the listening socket resets the connections that were not accepted.
LEMMA ResetStep ==
    ASSUME NetTypes, Answers, ResetIfClosed, UNCHANGED <<s2c, cli>>
    PROVE  NetTypes' /\ Answers' /\ \A k \in Conns : ServerMoves(k)
<1>1. CASE listening' = {}
  <2>1. /\ backlog' = <<>>
        /\ sess' = [k \in Conns |-> IF k \in Pending THEN "closed" ELSE sess[k]]
        /\ c2s' = [k \in Conns |-> IF k \in Pending THEN <<>> ELSE c2s[k]]
    BY <1>1 DEF ResetIfClosed
  <2>2. NetTypes'
    BY <2>1 DEF NetTypes, SessOf
  <2>3. Answers' /\ \A k \in Conns : ServerMoves(k)
    BY <2>1 DEF NetTypes, Answers, ServerMoves
  <2> QED
    BY <2>2, <2>3
<1>2. CASE listening' # {}
  BY <1>2 DEF NetTypes, Answers, ResetIfClosed, ServerMoves
<1> QED
  BY <1>1, <1>2

\* accept() takes a connection from the backlog.
LEMMA AcceptStep ==
    ASSUME NetTypes, Answers, NEW ok \in BOOLEAN, backlog # <<>>, Accept(ok), UNCHANGED <<s2c, cli>>
    PROVE  NetTypes' /\ Answers' /\ \A k \in Conns : ServerMoves(k)
<1>1. Head(backlog) \in Conns /\ Tail(backlog) \in Seq(Conns)
  BY HeadTailProperties DEF NetTypes
<1>2. QED
  BY <1>1 DEF NetTypes, Answers, Accept, ServerMoves, SessOf

\* sendResponse appends the head of the response to the first request, and its
\* body, to what is on the way to a client that did not close.
LEMMA AnswerStep ==
    ASSUME NetTypes, Answers, NEW k \in Conns, NEW body \in BOOLEAN, SendResponse(k, body)
    PROVE  NetTypes' /\ Answers' /\ \A l \in Conns : ServerMoves(l)
<1>1. /\ c2s[k] # <<>> /\ c2s[k] \in Seq(Nat) /\ s2c[k] \in Seq(Parts)
  BY DEF NetTypes, Answers, SendResponse
<1>2. Head(c2s[k]) \in Nat /\ Tail(c2s[k]) \in Seq(Nat)
  BY <1>1, HeadTailProperties
<1>3. Response(Head(c2s[k]), body) \in Seq(Parts)
  <2> DEFINE r == Head(c2s[k])
  <2>1. <<r, "head">> \in Parts /\ <<r, "body">> \in Parts /\ <<r, "bare">> \in Parts
    BY <1>2 DEF Parts
  <2>2. CASE body
    <3> HIDE DEF Parts, r
    <3>1. << <<r, "head">>, <<r, "body">> >> \in Seq(Parts)
      BY <2>1
    <3> QED
      BY <3>1, <2>2 DEF Response, r
  <2>3. CASE ~body
    <3> HIDE DEF Parts, r
    <3>1. << <<r, "bare">> >> \in Seq(Parts)
      BY <2>1
    <3> QED
      BY <3>1, <2>3 DEF Response, r
  <2> QED
    BY <2>2, <2>3
<1>4. s2c[k] \o Response(Head(c2s[k]), body) \in Seq(Parts)
  BY <1>1, <1>3, ConcatProperties
<1>5. NetTypes'
  BY <1>1, <1>2, <1>4 DEF NetTypes, SendResponse, serverVars, SessOf
<1>6. Answers'
  BY <1>1 DEF NetTypes, Answers, SendResponse
<1>7. \A l \in Conns : ServerMoves(l)
  <2> SUFFICES ASSUME NEW l \in Conns PROVE ServerMoves(l)
    OBVIOUS
  <2>1. CASE l # k
    BY <2>1 DEF NetTypes, SendResponse, ServerMoves
  <2>2. CASE l = k
    BY <2>2, <1>1, <1>2, <1>4 DEF NetTypes, SendResponse, ServerMoves
  <2> QED
    BY <2>1, <2>2
<1> QED
  BY <1>5, <1>6, <1>7

\* Every step of the server.
LEMMA ServerStep ==
    ASSUME NetTypes, Answers, ServerNext
    PROVE  NetTypes' /\ Answers' /\ cli' = cli /\ \A k \in Conns : ServerMoves(k)
<1> USE DEF netVars, serverVars
<1> DEFINE Same == UNCHANGED <<backlog, netVars>>
<1>0. Same => NetTypes' /\ Answers' /\ cli' = cli /\ \A k \in Conns : ServerMoves(k)
  BY DEF NetTypes, Answers, ServerMoves
<1>1. CASE Bind \/ Start \/ Stop
  BY <1>0, <1>1 DEF Bind, Start, Stop
<1>2. CASE BindFails
  BY <1>2, ResetStep DEF BindFails
<1>3. CASE StopJob
  BY <1>3, ResetStep DEF StopJob
<1>4. ASSUME NEW l \in Loops, LoopCheck(l)
      PROVE  Same
  BY <1>4 DEF LoopCheck
<1>5. ASSUME NEW l \in Loops, LoopAccept(l)
      PROVE  Same \/ (NetTypes' /\ Answers' /\ cli' = cli /\ \A k \in Conns : ServerMoves(k))
  <2>1. CASE loops[l].sock \in listening
    BY <1>5, <2>1, AcceptStep DEF LoopAccept
  <2>2. CASE loops[l].sock \notin listening
    BY <1>5, <2>2 DEF LoopAccept
  <2> QED
    BY <2>1, <2>2
<1>6. ASSUME NEW k \in Conns, RecvRequest(k)
      PROVE  NetTypes' /\ Answers' /\ cli' = cli /\ \A l \in Conns : ServerMoves(l)
  BY <1>6 DEF RecvRequest, NetTypes, Answers, ServerMoves, SessOf
<1>7. ASSUME NEW k \in Conns, RecvFails(k)
      PROVE  NetTypes' /\ Answers' /\ cli' = cli /\ \A l \in Conns : ServerMoves(l)
  BY <1>7 DEF RecvFails, NetTypes, Answers, ServerMoves, SessOf
<1>8. ASSUME NEW k \in Conns, NEW body \in BOOLEAN, SendResponse(k, body)
      PROVE  NetTypes' /\ Answers' /\ cli' = cli /\ \A l \in Conns : ServerMoves(l)
  BY <1>8, AnswerStep DEF SendResponse
<1> QED
  BY <1>0, <1>1, <1>2, <1>3, <1>4, <1>5, <1>6, <1>7, <1>8 DEF ServerNext, Session

-----------------------------------------------------------------------------
(* The pool's bookkeeping *)

\* The start: no connection.
LEMMA PoolInit == Init => IPoolExact
<1> SUFFICES ASSUME Init PROVE IPoolExact
  OBVIOUS
<1> USE PoolAssumption, ServerAssumption DEF Init, ServerInit
<1>1. PoolTypes
  BY DEF PoolTypes, Conns, Record, IdleClient, PcOf
<1>2. NetTypes
  BY DEF NetTypes, SessOf
<1>3. HasConn /\ OneOwner /\ Kept
  BY DEF HasConn, OneOwner, Kept, IdleClient, Using
<1>4. Holders = {} /\ InUse = {} /\ Idle = {}
  BY DEF Holders, InUse, Idle, IdleClient
<1>5. Counted
  BY <1>4, FS_EmptySet DEF Counted
<1> QED
  BY <1>1, <1>2, <1>3, <1>5 DEF IPoolExact

\* The sets that are counted are finite.
LEMMA FiniteParts ==
    ASSUME PoolTypes
    PROVE  IsFiniteSet(objects) /\ IsFiniteSet(Holders) /\ Cardinality(Holders) \in Nat
<1>1. IsFiniteSet(Conns)
  BY ServerAssumption, FS_Interval DEF Conns
<1>2. IsFiniteSet(objects)
  BY <1>1, FS_Subset DEF PoolTypes
<1>3. IsFiniteSet(Holders)
  BY PoolAssumption, FS_Subset DEF Holders
<1> QED
  BY <1>2, <1>3, FS_CardinalityType

\* Only client c takes a step.
Others(c) == cl' \in [Clients -> Record] /\ \A d \in Clients : d # c => cl'[d] = cl[d]
\* Its call goes on, at pc p and with got = g.
GoesOn(c, p, g) ==
    /\ Others(c) /\ cl'[c].pc = p /\ cl'[c].got = g
    /\ cl'[c].conn = cl[c].conn /\ cl'[c].req = cl[c].req /\ cl'[c].pooled = cl[c].pooled
\* It has no connection, before and after.
NoConn(c, p) == Others(c) /\ cl[c].conn = 0 /\ cl'[c].conn = 0 /\ cl'[c].got = 0 /\ cl'[c].pc = p

\* A step of one client that neither takes nor gives back a connection, and
\* closes none but its own.
LEMMA OwnStep ==
    ASSUME IPoolExact, NEW c \in Clients, Others(c),
           cl'[c].conn = cl[c].conn, cl'[c].pooled = cl[c].pooled \/ cl'[c].conn = 0,
           cl'[c].conn # 0 <=> cl'[c].pc \in Using, cl'[c].pc = "idle" => ~cl'[c].pooled,
           UNCHANGED <<m_conns, m_total, m_request, objects>>,
           reqs' \in Nat, conns' \in 0..MaxConns, conns <= conns',
           NetTypes', \A k \in Conns : k # cl[c].conn => cli'[k] = cli[k]
    PROVE  IPoolExact'
<1> USE DEF IPoolExact
<1>1. PoolTypes'
  BY DEF PoolTypes, Others
<1>2. /\ \A d \in Clients : d # c => cl'[d] = cl[d]
      /\ \A d \in Clients : cl'[d].conn = cl[d].conn
      /\ \A d \in Clients : cl[d].conn # 0 => cl'[d].pooled = cl[d].pooled
  BY DEF Others
<1>3. HasConn'
  <2> SUFFICES ASSUME NEW d \in Clients
               PROVE  /\ cl'[d].conn <= conns'
                      /\ cl'[d].conn # 0 <=> cl'[d].pc \in Using
                      /\ cl'[d].pc = "idle" => ~cl'[d].pooled
    BY DEF HasConn
  <2>1. cl[d].conn \in Nat /\ cl[d].conn <= conns /\ conns \in Nat /\ conns' \in Nat
    BY <1>1, ServerAssumption DEF PoolTypes, Record, HasConn
  <2>2. cl'[d].conn <= conns'
    BY <2>1, <1>2
  <2> QED
    BY <2>2, <1>2 DEF HasConn
<1>4. OneOwner'
  BY <1>2 DEF OneOwner
<1>5. Kept'
  <2> SUFFICES ASSUME NEW i \in 1..Len(m_conns)
               PROVE  /\ m_conns[i] <= conns' /\ cli'[m_conns[i]] = cli[m_conns[i]]
    BY DEF Kept, Usable
  <2>1. m_conns[i] \in Conns /\ m_conns[i] # cl[c].conn /\ m_conns[i] <= conns
    BY DEF PoolTypes, OneOwner, Kept
  <2>2. conns \in Nat /\ conns' \in Nat /\ conns <= conns'
    BY <1>1, ServerAssumption DEF PoolTypes
  <2>3. m_conns[i] \in Nat
    BY <2>1 DEF Conns
  <2>4. m_conns[i] <= conns'
    BY <2>1, <2>2, <2>3
  <2>5. cli'[m_conns[i]] = cli[m_conns[i]]
    BY <2>1
  <2> QED
    BY <2>4, <2>5
<1>6. Holders' = Holders
  BY <1>2 DEF Holders
<1>7. InUse' = {cl'[d].conn : d \in Holders'} /\ InUse = {cl[d].conn : d \in Holders}
  BY DEF InUse, Holders
<1>8. InUse' = InUse
  BY <1>2, <1>6, <1>7 DEF Holders
<1>9. Counted'
  BY <1>6, <1>8 DEF Counted, Idle
<1> QED
  BY <1>1, <1>3, <1>4, <1>5, <1>9

\* close() of one connection.
LEMMA CloseStep ==
    ASSUME NetTypes, NEW ks, Close(ks), UNCHANGED <<backlog, sess, c2s>>
    PROVE  NetTypes' /\ \A k \in Conns : k \notin ks => cli'[k] = cli[k] /\ s2c'[k] = s2c[k]
BY DEF NetTypes, Close

\* Close of no connection changes nothing.
LEMMA CloseNone ==
    ASSUME NetTypes, Close({})
    PROVE  cli' = cli /\ s2c' = s2c
BY DEF NetTypes, Close

\* What is left of a sequence from its m-th element on.
LEMMA DropFirst ==
    ASSUME NEW S, NEW s \in Seq(S), NEW m \in Nat, m # 0
    PROVE  LET t == SubSeq(s, m, Len(s))
           IN  /\ t \in Seq(S) /\ Len(t) \in Nat
               /\ m <= Len(s) + 1 => Len(t) = Len(s) + 1 - m
               /\ \A i \in 1..Len(t) : m + i - 1 \in 1..Len(s) /\ t[i] = s[m + i - 1]
<1> DEFINE t == SubSeq(s, m, Len(s))
<1>1. Len(s) \in Nat /\ \A i \in 1..Len(s) : s[i] \in S
  BY ElementOfSeq, LenProperties
<1>2. \A i \in m..Len(s) : i \in 1..Len(s)
  BY <1>1
<1>3. /\ t \in Seq(S)
      /\ Len(t) = IF m <= Len(s) THEN Len(s) - m + 1 ELSE 0
      /\ \A i \in 1..Len(s) - m + 1 : t[i] = s[m + i - 1]
  BY <1>1, <1>2, SubSeqProperties, m \in Int, Len(s) \in Int
<1> HIDE DEF t
<1>4. m <= Len(s) + 1 => Len(t) = Len(s) + 1 - m
  BY <1>1, <1>3
<1>5. ASSUME NEW i \in 1..Len(t)
      PROVE  m + i - 1 \in 1..Len(s) /\ t[i] = s[m + i - 1]
  BY <1>1, <1>3
<1> QED
  BY <1>1, <1>3, <1>4, <1>5 DEF t

\* What is left of a sequence without its first element.
LEMMA DropOne ==
    ASSUME NEW S, NEW s \in Seq(S), s # <<>>, NEW t, t = SubSeq(s, 2, Len(s))
    PROVE  /\ Len(t) = Len(s) - 1 /\ t \in Seq(S)
           /\ \A i \in 1..Len(t) : t[i] = s[i + 1]
<1>1. PICK m \in Nat : m = 2
  OBVIOUS
<1>2. /\ t \in Seq(S) /\ Len(t) \in Nat
      /\ m <= Len(s) + 1 => Len(t) = Len(s) + 1 - m
      /\ \A i \in 1..Len(t) : t[i] = s[m + i - 1]
  <2>1. t = SubSeq(s, m, Len(s)) /\ m # 0
    BY <1>1
  <2> QED
    BY <2>1, DropFirst
<1>3. Len(s) \in Nat /\ Len(s) >= 1
  BY EmptySeq
<1>4. Len(t) = Len(s) - 1
  BY <1>1, <1>2, <1>3
<1>5. \A i \in 1..Len(t) : m + i - 1 = i + 1
  BY <1>1, <1>2
<1> QED
  BY <1>2, <1>4, <1>5

\* getConnection drops nothing: everything in the pool may be given out, so the
\* pool is empty or its first connection is taken.
LEMMA GetEffect ==
    ASSUME IPoolExact, NEW c \in Clients, getConnection(c)
    PROVE  /\ UNCHANGED <<m_total, objects, cli, s2c>>
           /\ \/ /\ m_conns = <<>> /\ m_conns' = m_conns
                 /\ cl' = [cl EXCEPT ![c] = [pc |-> "connect", req |-> reqs', got |-> 0, conn |-> 0, pooled |-> TRUE]]
              \/ /\ m_conns # <<>> /\ Len(m_conns') = Len(m_conns) - 1 /\ m_conns' \in Seq(Conns)
                 /\ \A i \in 1..Len(m_conns') : m_conns'[i] = m_conns[i + 1]
                 /\ cl' = [cl EXCEPT ![c] = [pc |-> "send", req |-> reqs', got |-> 0, conn |-> m_conns[1], pooled |-> TRUE]]
<1> DEFINE some == \E i \in 1..Len(m_conns) : Usable(m_conns[i])
           n == IF some THEN First ELSE Len(m_conns)
           invalid == {m_conns[i] : i \in {j \in 1..n : ~Usable(m_conns[j])}}
<1>1. /\ m_conns' = SubSeq(m_conns, n + 1, Len(m_conns))
      /\ m_total' = m_total - Cardinality(invalid)
      /\ Delete(invalid)
      /\ cl' = [cl EXCEPT ![c] = [pc |-> IF some THEN "send" ELSE "connect", req |-> reqs', got |-> 0,
                                  conn |-> IF some THEN m_conns[n] ELSE 0, pooled |-> TRUE]]
  BY DEF getConnection
<1>2. m_conns \in Seq(Conns) /\ Len(m_conns) \in Nat /\ m_total \in Int
  BY DEF IPoolExact, PoolTypes
<1>3. \A i \in 1..Len(m_conns) : Usable(m_conns[i])
  BY DEF IPoolExact, Kept
<1>4. CASE m_conns = <<>>
  <2>1. ~some /\ n = 0
    BY <1>4
  <2>2. invalid = {}
    BY <2>1
  <2>3. UNCHANGED <<m_total, objects, cli, s2c>>
    <3> HIDE DEF invalid
    <3>1. Close({}) /\ objects' = objects \ {} /\ m_total' = m_total - Cardinality({})
      BY <1>1, <2>2 DEF Delete
    <3>2. NetTypes /\ Cardinality({}) = 0
      BY FS_EmptySet DEF IPoolExact
    <3> QED
      BY <3>1, <3>2, <1>2, CloseNone
  <2>4. m_conns' = m_conns
    BY <1>1, <1>4, <2>1
  <2> QED
    BY <1>1, <1>4, <2>1, <2>3, <2>4
<1>5. CASE m_conns # <<>>
  <2>1. 1 \in 1..Len(m_conns) /\ some
    BY <1>2, <1>3, <1>5
  <2>2. First = 1
    <3>1. \E i \in 1..Len(m_conns) : Usable(m_conns[i]) /\ \A j \in 1..i-1 : ~Usable(m_conns[j])
      BY <2>1, <1>3
    <3>2. /\ First \in 1..Len(m_conns) /\ \A j \in 1..First-1 : ~Usable(m_conns[j])
      BY <3>1 DEF First
    <3> QED
      BY <3>2, <1>3, <2>1, <1>2
  <2>3. n = 1
    BY <2>1, <2>2
  <2>4. invalid = {}
    BY <2>3, <2>1, <1>3
  <2>5. UNCHANGED <<m_total, objects, cli, s2c>>
    <3> HIDE DEF invalid
    <3>1. Close({}) /\ objects' = objects \ {} /\ m_total' = m_total - Cardinality({})
      BY <1>1, <2>4 DEF Delete
    <3>2. NetTypes /\ Cardinality({}) = 0
      BY FS_EmptySet DEF IPoolExact
    <3> QED
      BY <3>1, <3>2, <1>2, CloseNone
  <2>6. m_conns' = SubSeq(m_conns, 2, Len(m_conns))
    <3>1. m_conns' = SubSeq(m_conns, n + 1, Len(m_conns)) /\ n + 1 = 2
      BY <1>1, <2>3
    <3> HIDE DEF n
    <3> QED
      BY ONLY <3>1
  <2>7. /\ Len(m_conns') = Len(m_conns) - 1 /\ m_conns' \in Seq(Conns)
        /\ \A i \in 1..Len(m_conns') : m_conns'[i] = m_conns[i + 1]
    BY ONLY <2>6, <1>2, <1>5, DropOne
  <2>8. cl' = [cl EXCEPT ![c] = [pc |-> "send", req |-> reqs', got |-> 0, conn |-> m_conns[1], pooled |-> TRUE]]
    BY <1>1, <2>1, <2>3
  <2> QED
    BY <1>5, <2>5, <2>7, <2>8
<1> QED
  BY <1>4, <1>5

\* getConnection.
LEMMA GetStep ==
    ASSUME IPoolExact, NEW c \in Clients, getConnection(c)
    PROVE  IPoolExact'
<1> USE DEF IPoolExact
<1>1. /\ cl[c].pc = "idle" /\ cl[c].conn = 0 /\ ~cl[c].pooled
      /\ reqs' = reqs + 1 /\ reqs' \in Nat
  <2>1. cl[c].pc = "idle" /\ reqs' = reqs + 1
    BY DEF getConnection
  <2>2. cl[c].conn = 0 /\ ~cl[c].pooled
    BY <2>1 DEF HasConn, Using
  <2> QED
    BY <2>1, <2>2 DEF PoolTypes
<1>2. UNCHANGED <<backlog, sess, c2s, m_request, conns, m_total, objects, cli, s2c>>
  BY GetEffect DEF getConnection, serverVars
<1>3. NetTypes'
  BY <1>2 DEF NetTypes
<1>4. conns \in 0..MaxConns /\ conns \in Nat
  BY DEF PoolTypes
<1>5. CASE m_conns = <<>>
  <2> DEFINE e == [pc |-> "connect", req |-> reqs', got |-> 0, conn |-> 0, pooled |-> TRUE]
  <2>1. m_conns' = m_conns /\ cl' = [cl EXCEPT ![c] = e]
    BY GetEffect, <1>5
  <2>2. e \in Record /\ e.conn = 0 /\ e.pc = "connect"
    BY <1>1, ServerAssumption DEF Record, PcOf
  <2> HIDE DEF e
  <2>3. Others(c) /\ cl'[c] = e
    BY <2>1, <2>2 DEF PoolTypes, Others
  <2>4. conns' \in 0..MaxConns /\ conns <= conns' /\ \A k \in Conns : k # cl[c].conn => cli'[k] = cli[k]
    BY <1>2, <1>4
  <2>5. e.conn # 0 <=> e.pc \in Using
    BY <2>2 DEF Using
  <2> QED
    BY OwnStep, <1>1, <1>2, <1>3, <2>1, <2>2, <2>3, <2>4, <2>5
<1>6. CASE m_conns # <<>>
  <2> DEFINE k == m_conns[1]
             e == [pc |-> "send", req |-> reqs', got |-> 0, conn |-> k, pooled |-> TRUE]
  <2>1. /\ Len(m_conns') = Len(m_conns) - 1 /\ m_conns' \in Seq(Conns)
        /\ \A i \in 1..Len(m_conns') : m_conns'[i] = m_conns[i + 1]
        /\ cl' = [cl EXCEPT ![c] = e]
    BY GetEffect, <1>6
  <2>2. Len(m_conns) \in Nat /\ Len(m_conns') \in Nat /\ 1 \in 1..Len(m_conns) /\ k \in Conns
        /\ \A i \in 1..Len(m_conns') : i + 1 \in 1..Len(m_conns) /\ i + 1 # 1
    BY <1>6, <2>1 DEF PoolTypes
  <2>3. k # 0 /\ k \in Nat /\ k <= conns
    BY <2>2, ServerAssumption DEF Conns, Kept
  <2>4. e \in Record /\ e.conn = k /\ e.pc = "send" /\ e.pooled
    BY <1>1, <2>2, <2>3, ServerAssumption DEF Record, PcOf, Conns
  <2> HIDE DEF e
  <2>5. /\ cl'[c] = e /\ \A d \in Clients : d # c => cl'[d] = cl[d]
    BY <2>1 DEF PoolTypes
  <2>6. PoolTypes'
    BY <1>1, <1>2, <2>1, <2>4 DEF PoolTypes
  <2>7. HasConn'
    BY <1>2, <2>3, <2>4, <2>5 DEF HasConn, Using
  <2>8. OneOwner'
    <3>1. \A d \in Clients : k # cl[d].conn
      BY <2>2 DEF OneOwner
    <3>2. \A a, b \in Clients : a # b /\ cl'[a].conn # 0 => cl'[a].conn # cl'[b].conn
      BY <3>1, <2>4, <2>5, <1>1 DEF OneOwner
    <3>3. \A i, j \in 1..Len(m_conns') : i # j => m_conns'[i] # m_conns'[j]
      BY <2>1, <2>2 DEF OneOwner
    <3>4. \A d \in Clients : \A i \in 1..Len(m_conns') : m_conns'[i] # cl'[d].conn
      BY <2>1, <2>2, <2>4, <2>5 DEF OneOwner
    <3> QED
      BY <3>2, <3>3, <3>4 DEF OneOwner
  <2>9. Kept'
    BY <1>2, <2>1, <2>2 DEF Kept, Usable
  <2>10. Holders' = Holders \cup {c} /\ c \notin Holders
    BY <1>1, <2>3, <2>4, <2>5 DEF Holders
  <2>11. Cardinality(Holders') = Cardinality(Holders) + 1
    BY <2>10, FiniteParts, FS_AddElement
  <2>12. InUse' = InUse \cup {k}
    <3>1. InUse' = {cl'[d].conn : d \in Holders'} /\ InUse = {cl[d].conn : d \in Holders}
      BY DEF InUse, Holders
    <3>2. \A d \in Holders : cl'[d].conn = cl[d].conn
      BY <2>5, <2>10 DEF Holders
    <3> QED
      BY <3>1, <3>2, <2>10, <2>4, <2>5
  <2>13. Idle = Idle' \cup {k}
    <3>1. \A i \in 1..Len(m_conns) : i = 1 \/ (i - 1 \in 1..Len(m_conns') /\ m_conns'[i - 1] = m_conns[i])
      BY <2>1, <2>2
    <3> QED
      BY <3>1, <2>1, <2>2 DEF Idle
  <2>14. Counted'
    <3>1. objects' = InUse' \cup Idle'
      BY <1>2, <2>12, <2>13 DEF Counted
    <3>2. Cardinality(objects) = Len(m_conns) + Cardinality(Holders) /\ Cardinality(Holders) \in Nat
      BY FiniteParts DEF Counted
    <3>3. Cardinality(objects) = Len(m_conns') + Cardinality(Holders')
      BY <3>2, <2>1, <2>2, <2>11
    <3> QED
      BY <1>2, <3>1, <3>3 DEF Counted
  <2> QED
    BY <1>3, <2>6, <2>7, <2>8, <2>9, <2>14
<1> QED
  BY <1>5, <1>6

\* The connections in use are those of the clients that hold one of the pool.
LEMMA InUseIs == InUse = {cl[d].conn : d \in Holders}
BY DEF InUse, Holders

\* Socket::connect makes a connection with a new number, which is one of the
\* pool's if getConnection made it.
LEMMA ConnectStep ==
    ASSUME IPoolExact, NEW c \in Clients, Connect(c)
    PROVE  IPoolExact'
<1> USE DEF IPoolExact
<1> DEFINE k == conns + 1
           e == [cl[c] EXCEPT !.pc = "send", !.conn = k]
<1>1. /\ cl[c].pc = "connect" /\ conns < MaxConns /\ conns' = k
      /\ cli' = [cli EXCEPT ![k] = TRUE]
      /\ sess' = [sess EXCEPT ![k] = "backlog"]
      /\ backlog' = Append(backlog, k)
      /\ objects' = (IF cl[c].pooled THEN objects \cup {k} ELSE objects)
      /\ m_total' = (IF cl[c].pooled THEN m_total + 1 ELSE m_total)
      /\ UNCHANGED <<c2s, s2c, m_conns, m_request, reqs>>
  BY DEF Connect
<1>2. conns \in Nat /\ k \in Conns /\ k \in 0..MaxConns /\ k # 0 /\ k > conns /\ cl[c] \in Record
  BY <1>1, ServerAssumption DEF PoolTypes, Conns
<1>3. cl' = [cl EXCEPT ![c] = e]
  BY <1>1, <1>2 DEF Connect, PoolTypes
<1>4. e \in Record /\ e.pc = "send" /\ e.conn = k /\ e.pooled = cl[c].pooled
  BY <1>2 DEF Record, PcOf
<1> HIDE DEF e, k
<1>5. cl'[c] = e /\ \A d \in Clients : d # c => cl'[d] = cl[d]
  BY <1>3 DEF PoolTypes
<1>6. cl[c].conn = 0 /\ \A d \in Clients : cl[d].conn \in Nat /\ cl[d].conn <= conns /\ cl[d].conn # k
  <2>1. cl[c].conn = 0
    BY <1>1 DEF HasConn, Using
  <2>2. \A d \in Clients : cl[d].conn \in Nat /\ cl[d].conn <= conns
    BY ServerAssumption DEF HasConn, PoolTypes, Record
  <2>3. \A d \in Clients : cl[d].conn # k
    BY <2>2, <1>2
  <2> QED
    BY <2>1, <2>2, <2>3
<1>7. \A i \in 1..Len(m_conns) : m_conns[i] # k /\ m_conns[i] \in Conns
  <2> SUFFICES ASSUME NEW i \in 1..Len(m_conns) PROVE m_conns[i] # k /\ m_conns[i] \in Conns
    OBVIOUS
  <2>1. m_conns[i] \in Conns
    BY DEF PoolTypes
  <2>2. m_conns[i] <= conns
    BY DEF Kept
  <2>3. m_conns[i] \in Nat
    BY <2>1 DEF Conns
  <2> QED
    BY <1>2, <2>1, <2>2, <2>3
<1>8. k \notin objects
  <2>1. k \notin Idle
    BY <1>7 DEF Idle
  <2>2. k \notin InUse
    BY <1>6, InUseIs DEF Holders
  <2> QED
    BY <2>1, <2>2 DEF Counted
<1>9. PoolTypes'
  BY <1>1, <1>2, <1>3, <1>4 DEF PoolTypes
<1>10. NetTypes'
  BY <1>1, <1>2, AppendProperties DEF NetTypes, SessOf
<1>11. HasConn'
  BY <1>1, <1>2, <1>4, <1>5, <1>6 DEF HasConn, Using
<1>12. OneOwner'
  <2>1. \A a, b \in Clients : a # b /\ cl'[a].conn # 0 => cl'[a].conn # cl'[b].conn
    BY <1>4, <1>5, <1>6 DEF OneOwner
  <2>2. \A d \in Clients : \A i \in 1..Len(m_conns) : m_conns[i] # cl'[d].conn
    BY <1>4, <1>5, <1>7 DEF OneOwner
  <2> QED
    BY <1>1, <2>1, <2>2 DEF OneOwner
<1>13. Kept'
  <2> SUFFICES ASSUME NEW i \in 1..Len(m_conns)
               PROVE  m_conns[i] <= k /\ cli'[m_conns[i]] = cli[m_conns[i]]
    BY <1>1 DEF Kept, Usable
  <2>1. m_conns[i] <= conns /\ m_conns[i] \in Conns /\ m_conns[i] \in Nat
    BY <1>7, ServerAssumption DEF Kept, Conns
  <2> QED
    <3>1. cli'[m_conns[i]] = cli[m_conns[i]]
      BY <2>1, <1>1, <1>7 DEF NetTypes
    <3> QED
      BY <3>1, <2>1, <1>2
<1>14. Counted'
  <2>1. Cardinality(objects) = Len(m_conns) + Cardinality(Holders) /\ Cardinality(Holders) \in Nat
        /\ Len(m_conns) \in Nat /\ IsFiniteSet(objects) /\ IsFiniteSet(Holders)
        /\ m_total = Cardinality(objects) /\ objects = InUse \cup Idle
    BY FiniteParts DEF Counted, PoolTypes
  <2>2. c \notin Holders /\ Idle' = Idle
    BY <1>1, <1>6 DEF Holders, Idle
  <2>3. InUse' = {cl'[d].conn : d \in Holders'}
    BY DEF InUse, Holders
  <2>4. \A d \in Holders : cl'[d].conn = cl[d].conn
    BY <1>5, <2>2 DEF Holders
  <2>5. CASE cl[c].pooled
    <3>1. Holders' = Holders \cup {c}
      BY <2>5, <1>2, <1>4, <1>5 DEF Holders
    <3>2. Cardinality(Holders') = Cardinality(Holders) + 1 /\ Cardinality(objects') = Cardinality(objects) + 1
      BY <3>1, <2>1, <2>2, <2>5, <1>1, <1>8, FS_AddElement
    <3>3. InUse' = InUse \cup {k}
      BY <2>3, <2>4, <3>1, <1>4, <1>5, InUseIs
    <3>4. objects' = InUse' \cup Idle'
      BY <3>3, <2>1, <2>2, <2>5, <1>1
    <3>5. m_total' = Cardinality(objects') /\ Cardinality(objects') = Len(m_conns') + Cardinality(Holders')
      BY <3>2, <2>1, <2>5, <1>1
    <3> QED
      BY <3>4, <3>5 DEF Counted
  <2>6. CASE ~cl[c].pooled
    <3>1. Holders' = Holders
      BY <2>6, <1>4, <1>5, <2>2 DEF Holders
    <3>2. InUse' = InUse
      BY <2>3, <2>4, <3>1, InUseIs
    <3> QED
      BY <3>1, <3>2, <2>1, <2>2, <2>6, <1>1 DEF Counted
  <2> QED
    BY <2>5, <2>6
<1> QED
  BY <1>9, <1>10, <1>11, <1>12, <1>13, <1>14

\* A call returns: its connection goes back to the pool, or is deleted.
LEMMA ReturnStep ==
    ASSUME IPoolExact, NEW c \in Clients, Return(c)
    PROVE  IPoolExact'
<1> USE DEF IPoolExact
<1> DEFINE k == cl[c].conn
           drop == \/ ~cli[k]
                   \/ m_createTime + m_maxAliveTime >= Now
                   \/ m_request[k] + 1 >= m_maxRequest
<1>1. /\ cl[c].pc = "release" /\ cl' = [cl EXCEPT ![c] = IdleClient]
      /\ UNCHANGED <<backlog, sess, c2s, conns, reqs>>
  BY DEF Return, serverVars
<1>2. k \in 0..MaxConns /\ k # 0 /\ k \in Conns /\ k \in Nat /\ k <= conns
  <2>1. k \in 0..MaxConns /\ k # 0 /\ k <= conns
    BY <1>1 DEF HasConn, PoolTypes, Record, Using
  <2> QED
    BY <2>1, ServerAssumption DEF Conns
<1>3. IdleClient \in Record /\ IdleClient.pc = "idle" /\ IdleClient.conn = 0 /\ ~IdleClient.pooled
  BY ServerAssumption DEF IdleClient, Record, PcOf
<1>4. cl'[c] = IdleClient /\ \A d \in Clients : d # c => cl'[d] = cl[d]
  BY <1>1 DEF PoolTypes
<1>5. HasConn'
  BY <1>1, <1>3, <1>4, ServerAssumption DEF HasConn, Using, PoolTypes
<1>6. \A a, b \in Clients : a # b /\ cl'[a].conn # 0 => cl'[a].conn # cl'[b].conn
  BY <1>3, <1>4 DEF OneOwner
<1>7. \A d \in Clients : d # c => cl[d].conn # k
  BY <1>2 DEF OneOwner
<1>8. \A i \in 1..Len(m_conns) : m_conns[i] # k /\ m_conns[i] \in Conns /\ m_conns[i] # 0
  BY ServerAssumption DEF OneOwner, PoolTypes, Conns
<1>9. k \notin Idle
  BY <1>8 DEF Idle
<1>10. /\ Cardinality(objects) = Len(m_conns) + Cardinality(Holders) /\ Cardinality(Holders) \in Nat
       /\ Len(m_conns) \in Nat /\ IsFiniteSet(objects) /\ IsFiniteSet(Holders)
       /\ m_total = Cardinality(objects) /\ objects = InUse \cup Idle
  BY FiniteParts DEF Counted, PoolTypes
<1>11. InUse' = {cl'[d].conn : d \in Holders'}
  BY DEF InUse, Holders
<1>12. \A d \in Holders \ {c} : cl'[d].conn = cl[d].conn
  BY <1>4 DEF Holders
<1>13. Holders' = Holders \ {c}
  BY <1>3, <1>4 DEF Holders
<1>14. InUse' = InUse \ {k}
  <2>1. \A d \in Holders \ {c} : cl[d].conn # k
    BY <1>7 DEF Holders
  <2>2. \A d \in Holders : cl[d].conn # k => d # c
    OBVIOUS
  <2> HIDE DEF k
  <2> QED
    BY <1>11, <1>12, <1>13, <2>1, <2>2, InUseIs
<1>15. CASE cl[c].pooled /\ ~drop
  <2>1. /\ m_request' = [m_request EXCEPT ![k] = @ + 1]
        /\ m_conns' = Append(m_conns, k) /\ UNCHANGED <<m_total, objects, cli, s2c>>
    BY <1>15 DEF Return, ReleasePtr
  <2>2. /\ cli[k] /\ ~(m_createTime + m_maxAliveTime > Now) /\ m_request[k] + 1 < m_maxRequest
        /\ m_request[k] \in Nat
    <3>1. m_request[k] \in Nat /\ cli[k]
      BY <1>2, <1>15 DEF PoolTypes
    <3> QED
      BY <3>1, <1>15, PoolAssumption DEF m_createTime
  <2> HIDE DEF drop, k
  <2>3. /\ m_conns' \in Seq(Conns) /\ Len(m_conns') = Len(m_conns) + 1
        /\ \A i \in 1..Len(m_conns) : m_conns'[i] = m_conns[i]
        /\ m_conns'[Len(m_conns) + 1] = k
    BY <2>1, <1>2, AppendProperties DEF PoolTypes
  <2>4. \A i \in 1..Len(m_conns') : i \in 1..Len(m_conns) \/ i = Len(m_conns) + 1
    BY <2>3, <1>10
  <2>5. PoolTypes'
    BY <1>1, <1>2, <1>3, <2>1, <2>3, <2>2 DEF PoolTypes
  <2>6. NetTypes'
    BY <1>1, <2>1 DEF NetTypes
  <2>7. OneOwner'
    <3>1. \A i, j \in 1..Len(m_conns') : i # j => m_conns'[i] # m_conns'[j]
      BY <2>3, <2>4, <1>8 DEF OneOwner
    <3>2. ASSUME NEW d \in Clients, NEW i \in 1..Len(m_conns') PROVE m_conns'[i] # cl'[d].conn
      <4>1. CASE d = c
        BY <4>1, <2>3, <2>4, <1>3, <1>4, <1>8, <1>2
      <4>2. CASE d # c
        BY <4>2, <2>3, <2>4, <1>4, <1>7 DEF OneOwner
      <4> QED
        BY <4>1, <4>2
    <3> QED
      BY <1>6, <3>1, <3>2 DEF OneOwner
  <2>8. Kept'
    <3> SUFFICES ASSUME NEW i \in 1..Len(m_conns')
                 PROVE  /\ m_conns'[i] <= conns /\ cli[m_conns'[i]] /\ ~(m_createTime + m_maxAliveTime > Now)
                        /\ m_request'[m_conns'[i]] < m_maxRequest
      BY <1>1, <2>1 DEF Kept, Usable, m_createTime
    <3>1. CASE i \in 1..Len(m_conns)
      <4>1. m_request'[m_conns[i]] = m_request[m_conns[i]]
        BY <3>1, <2>1, <1>8 DEF PoolTypes
      <4> QED
        BY <3>1, <4>1, <2>3 DEF Kept, Usable
    <3>2. CASE i = Len(m_conns) + 1
      <4>1. m_request'[k] = m_request[k] + 1
        BY <2>1, <1>2 DEF PoolTypes
      <4> QED
        BY <3>2, <4>1, <2>2, <2>3, <1>2
    <3> QED
      BY <3>1, <3>2, <2>4
  <2>9. c \in Holders /\ k \in InUse
    BY <1>15, <1>2, InUseIs DEF Holders, k
  <2>10. Cardinality(Holders') = Cardinality(Holders) - 1
    BY <2>9, <1>10, <1>13, FS_RemoveElement
  <2>11. Idle' = Idle \cup {k}
    BY <2>3, <2>4, <1>10 DEF Idle
  <2>12. objects' = InUse' \cup Idle'
    BY <2>1, <2>9, <2>11, <1>10, <1>14
  <2>13. m_total' = Cardinality(objects') /\ Cardinality(objects') = Len(m_conns') + Cardinality(Holders')
    BY <2>1, <2>3, <2>10, <1>10
  <2> QED
    BY <1>5, <2>5, <2>6, <2>7, <2>8, <2>12, <2>13 DEF Counted
<1>16. CASE ~cl[c].pooled \/ drop
  <2>1. /\ Delete({k}) /\ m_conns' = m_conns /\ objects' = objects \ {k}
        /\ \/ cl[c].pooled /\ m_total' = m_total - 1 /\ m_request' = [m_request EXCEPT ![k] = 0]
           \/ ~cl[c].pooled /\ m_total' = m_total /\ m_request' = m_request
    BY <1>16 DEF Return, ReleasePtr, Delete
  <2> HIDE DEF drop, k
  <2>2. NetTypes' /\ \A l \in Conns : l # k => cli'[l] = cli[l]
    BY <2>1, <1>1, CloseStep DEF Delete
  <2>3. PoolTypes'
    BY <1>1, <1>2, <1>3, <2>1 DEF PoolTypes
  <2>4. OneOwner'
    BY <1>3, <1>4, <1>6, <1>8, <2>1 DEF OneOwner
  <2>5. Kept'
    <3> SUFFICES ASSUME NEW i \in 1..Len(m_conns)
                 PROVE  cli'[m_conns[i]] = cli[m_conns[i]] /\ m_request'[m_conns[i]] = m_request[m_conns[i]]
      BY <1>1, <2>1 DEF Kept, Usable, m_createTime
    <3> QED
      BY <1>8, <2>1, <2>2 DEF PoolTypes
  <2>6. Idle' = Idle
    BY <2>1 DEF Idle
  <2>7. objects' = InUse' \cup Idle'
    BY <2>1, <2>6, <1>9, <1>10, <1>14
  <2>8. CASE cl[c].pooled
    <3>1. c \in Holders /\ k \in InUse
      BY <2>8, <1>2, InUseIs DEF Holders, k
    <3>2. Cardinality(Holders') = Cardinality(Holders) - 1 /\ Cardinality(objects') = Cardinality(objects) - 1
      BY <3>1, <2>1, <1>10, <1>13, FS_RemoveElement
    <3>3. m_total' = Cardinality(objects') /\ Cardinality(objects') = Len(m_conns') + Cardinality(Holders')
      BY <3>2, <2>1, <2>8, <1>10
    <3> QED
      BY <1>5, <2>2, <2>3, <2>4, <2>5, <2>7, <3>3 DEF Counted
  <2>9. CASE ~cl[c].pooled
    <3>1. Holders' = Holders
      BY <2>9, <1>13 DEF Holders
    <3>2. k \notin InUse
      BY <2>9, <1>7, InUseIs DEF Holders, k
    <3>3. objects' = objects
      BY <3>2, <2>1, <1>9, <1>10
    <3> QED
      BY <1>5, <2>1, <2>2, <2>3, <2>4, <2>5, <2>7, <2>9, <3>1, <3>3, <1>10 DEF Counted
  <2> QED
    BY <2>8, <2>9
<1> QED
  BY <1>15, <1>16

\* A call goes on with the connection it has.
LEMMA UseStep ==
    ASSUME IPoolExact, NEW c \in Clients, cl[c].pc \in Using, NEW p \in Using, NEW g, GoesOn(c, p, g),
           UNCHANGED <<m_conns, m_total, m_request, conns, objects, reqs>>,
           NetTypes', \A k \in Conns : k # cl[c].conn => cli'[k] = cli[k]
    PROVE  IPoolExact'
<1>1. reqs \in Nat /\ conns \in 0..MaxConns /\ conns <= conns
  BY ServerAssumption DEF IPoolExact, PoolTypes
<1>2. cl[c].conn # 0 /\ p # "idle"
  BY DEF IPoolExact, HasConn, Using
<1>3. cl'[c].conn # 0 <=> cl'[c].pc \in Using
  BY <1>2 DEF GoesOn
<1> QED
  BY OwnStep, <1>1, <1>2, <1>3 DEF GoesOn

\* A call that has no connection begins, or ends without one.
LEMMA NoConnStep ==
    ASSUME IPoolExact, NEW c \in Clients, NEW p \in {"idle", "connect"}, NoConn(c, p), ~cl'[c].pooled,
           UNCHANGED <<m_conns, m_total, m_request, objects>>,
           reqs' \in Nat, conns' \in 0..MaxConns, conns <= conns',
           NetTypes', cli' = cli
    PROVE  IPoolExact'
<1>1. cl'[c].conn # 0 <=> cl'[c].pc \in Using
  BY DEF NoConn, Using
<1>2. \A k \in Conns : k # cl[c].conn => cli'[k] = cli[k]
  OBVIOUS
<1> QED
  BY OwnStep, <1>1, <1>2 DEF NoConn

\* A part is taken from what arrived.
LEMMA TakeStep ==
    ASSUME IPoolExact, NEW c \in Clients, cl[c].conn # 0, NEW n \in Nat, Take(c, n),
           UNCHANGED <<backlog, sess, c2s, cli>>
    PROVE  NetTypes'
<1>1. cl[c].conn \in Conns
  BY ServerAssumption DEF IPoolExact, PoolTypes, Record, Conns
<1>2. s2c[cl[c].conn] \in Seq(Parts) /\ n + 1 \in Nat /\ n + 1 # 0
  BY <1>1 DEF IPoolExact, NetTypes
<1>3. SubSeq(s2c[cl[c].conn], n + 1, Len(s2c[cl[c].conn])) \in Seq(Parts)
  BY <1>2, DropFirst
<1> QED
  BY <1>1, <1>3 DEF Take, IPoolExact, NetTypes

\* A client that has no connection has none to keep.
LEMMA HasNone ==
    ASSUME IPoolExact, NEW c \in Clients, cl[c].pc \in {"idle", "connect"}
    PROVE  cl[c].conn = 0
BY DEF IPoolExact, HasConn, Using

\* One that has one has a connection that was made.
LEMMA HasOne ==
    ASSUME IPoolExact, NEW c \in Clients, cl[c].pc \in Using
    PROVE  cl[c].conn # 0 /\ cl[c].conn \in Conns /\ cl[c].conn <= conns
BY ServerAssumption DEF IPoolExact, HasConn, PoolTypes, Record, Conns

\* A step that sets pc only.
LEMMA NewPc ==
    ASSUME IPoolExact, NEW c \in Clients, NEW p \in PcOf, cl' = [cl EXCEPT ![c].pc = p]
    PROVE  GoesOn(c, p, cl[c].got) /\ cl[c].got \in Nat
BY DEF IPoolExact, PoolTypes, Record, GoesOn, Others
\* A step that sets pc and got.
LEMMA NewPcGot ==
    ASSUME IPoolExact, NEW c \in Clients, NEW p \in PcOf, NEW g \in Nat,
           cl' = [cl EXCEPT ![c].pc = p, ![c].got = g]
    PROVE  GoesOn(c, p, g)
BY DEF IPoolExact, PoolTypes, Record, GoesOn, Others

\* A call without a connection ends.
LEMMA NoCall ==
    ASSUME IPoolExact, NEW c \in Clients, cl[c].conn = 0, cl' = [cl EXCEPT ![c] = IdleClient]
    PROVE  NoConn(c, "idle") /\ ~cl'[c].pooled
<1>1. IdleClient \in Record /\ IdleClient.pc = "idle" /\ IdleClient.conn = 0 /\ IdleClient.got = 0 /\ ~IdleClient.pooled
  BY ServerAssumption DEF IdleClient, Record, PcOf
<1> QED
  BY <1>1 DEF IPoolExact, PoolTypes, NoConn, Others
\* DoRequest begins one.
LEMMA NewCall ==
    ASSUME IPoolExact, NEW c \in Clients, cl[c].conn = 0, NEW r \in Nat,
           cl' = [cl EXCEPT ![c] = [IdleClient EXCEPT !.pc = "connect", !.req = r]]
    PROVE  NoConn(c, "connect") /\ ~cl'[c].pooled
<1> DEFINE e == [IdleClient EXCEPT !.pc = "connect", !.req = r]
<1>1. IdleClient \in Record /\ IdleClient.conn = 0 /\ IdleClient.got = 0 /\ IdleClient.pooled = FALSE
  BY ServerAssumption DEF IdleClient, Record, PcOf
<1>2. e \in Record /\ e.pc = "connect" /\ e.conn = 0 /\ e.got = 0 /\ e.pooled = FALSE
  BY <1>1 DEF Record, PcOf
<1>3. cl' = [cl EXCEPT ![c] = e]
  OBVIOUS
<1> HIDE DEF e
<1> QED
  BY <1>2, <1>3 DEF IPoolExact, PoolTypes, NoConn, Others

\* The part that arrived first.
LEMMA FirstPart ==
    ASSUME IPoolExact, NEW c \in Clients, cl[c].pc \in Using, Arrived(c)
    PROVE  /\ s2c[cl[c].conn] \in Seq(Parts) /\ 1 \in 1..Len(s2c[cl[c].conn])
           /\ Part(c) = s2c[cl[c].conn][1] /\ Part(c)[1] \in Nat
           /\ Part(c)[2] \in {"head", "bare", "body"}
<1>1. cl[c].conn \in Conns
  BY HasOne
<1>2. s2c[cl[c].conn] \in Seq(Parts) /\ s2c[cl[c].conn] # <<>>
  BY <1>1 DEF IPoolExact, NetTypes, Arrived
<1>3. Len(s2c[cl[c].conn]) \in Nat /\ Len(s2c[cl[c].conn]) # 0
  BY <1>2, EmptySeq, LenProperties
<1>4. 1 \in 1..Len(s2c[cl[c].conn]) /\ Part(c) = s2c[cl[c].conn][1]
  BY <1>2, <1>3 DEF Part
<1>5. Part(c) \in Parts
  BY <1>2, <1>4
<1> QED
  BY <1>2, <1>4, <1>5 DEF Parts

\* A failed call closes its connection.
LEMMA FailStep ==
    ASSUME IPoolExact, NEW c \in Clients, cl[c].pc \in Using, Fail(c),
           UNCHANGED <<backlog, sess, c2s, m_conns, m_total, m_request, conns, objects, reqs>>
    PROVE  IPoolExact'
<1>1. Close({cl[c].conn}) /\ NetTypes
  BY DEF Fail, IPoolExact
<1>2. NetTypes' /\ \A k \in Conns : k # cl[c].conn => cli'[k] = cli[k]
  BY <1>1, CloseStep
<1>3. "release" \in Using /\ "release" \in PcOf /\ 0 \in Nat
  BY DEF Using, PcOf
<1>4. GoesOn(c, "release", 0)
  BY <1>3, NewPcGot DEF Fail
<1> QED
  BY UseStep, <1>2, <1>3, <1>4

\* The pool is exact after every step of a client.
LEMMA ClientPool ==
    ASSUME IPoolExact, NEW c \in Clients,
           getConnection(c) \/ DoRequest(c) \/ RecvTimeout(c) \/ ClientStep(c)
    PROVE  IPoolExact'
<1> USE DEF serverVars, netVars
<1>0. /\ reqs \in Nat /\ conns \in 0..MaxConns /\ conns \in Nat /\ conns <= conns /\ NetTypes
      /\ UNCHANGED <<backlog, netVars>> => NetTypes'
  BY ServerAssumption DEF IPoolExact, PoolTypes, NetTypes
<1>1. CASE getConnection(c)
  BY <1>1, GetStep
<1>2. CASE DoRequest(c)
  <2>1. reqs' \in Nat /\ cl[c].conn = 0 /\ "connect" \in {"idle", "connect"}
    BY <1>0, <1>2, HasNone DEF DoRequest
  <2>2. NoConn(c, "connect") /\ ~cl'[c].pooled
    BY <1>2, <2>1, NewCall DEF DoRequest
  <2> QED
    BY <1>0, <1>2, <2>1, <2>2, NoConnStep DEF DoRequest
<1>3. CASE Connect(c)
  BY <1>3, ConnectStep
<1>4. "idle" \in {"idle", "connect"}
  OBVIOUS
<1>5. CASE HandshakeFails(c)
  <2>1. /\ cl[c].conn = 0 /\ conns' = conns + 1 /\ conns' \in 0..MaxConns /\ conns <= conns' /\ conns' \in Conns
        /\ reqs' \in Nat
    BY <1>0, <1>5, HasNone, ServerAssumption DEF HandshakeFails, Conns
  <2>2. NetTypes'
    BY <1>0, <1>5, <2>1, AppendProperties DEF HandshakeFails, NetTypes, SessOf
  <2>3. NoConn(c, "idle") /\ ~cl'[c].pooled
    BY <1>5, <2>1, NoCall DEF HandshakeFails
  <2> QED
    BY <1>4, <1>5, <2>1, <2>2, <2>3, NoConnStep DEF HandshakeFails
<1>6. CASE ConnectFails(c)
  <2>1. cl[c].conn = 0
    BY <1>6, HasNone DEF ConnectFails
  <2>2. NoConn(c, "idle") /\ ~cl'[c].pooled
    BY <1>6, <2>1, NoCall DEF ConnectFails
  <2> QED
    BY <1>0, <1>4, <1>6, <2>1, <2>2, NoConnStep DEF ConnectFails
<1>7. CASE SendRequest(c)
  <2>1. cl[c].pc \in Using /\ "recv" \in Using /\ "recv" \in PcOf
    BY <1>7 DEF SendRequest, Using, PcOf
  <2>2. cl[c].conn \in Conns /\ cl[c].req \in Nat
    BY <2>1, HasOne DEF IPoolExact, PoolTypes, Record
  <2>3. NetTypes'
    BY <1>0, <1>7, <2>2, AppendProperties DEF SendRequest, Send, NetTypes
  <2>4. GoesOn(c, "recv", cl[c].got)
    BY <1>7, <2>1, NewPc DEF SendRequest
  <2> QED
    BY <1>7, <2>1, <2>3, <2>4, UseStep DEF SendRequest
<1>8. CASE SendFails(c)
  <2>1. cl[c].pc \in Using /\ "release" \in Using /\ "release" \in PcOf
    BY <1>8 DEF SendFails, Using, PcOf
  <2>2. GoesOn(c, "release", cl[c].got)
    BY <1>8, <2>1, NewPc DEF SendFails
  <2> QED
    BY <1>0, <1>8, <2>1, <2>2, UseStep DEF SendFails
<1>9. CASE RecvHead(c)
  <2>1. /\ cl[c].pc \in Using /\ cl[c].conn # 0 /\ 1 \in Nat /\ Part(c)[1] \in Nat
    BY <1>9, FirstPart, HasOne DEF RecvHead, Using
  <2>2. PICK p \in Using : cl' = [cl EXCEPT ![c].pc = p, ![c].got = Part(c)[1]]
    BY <1>9 DEF RecvHead, Using
  <2>3. GoesOn(c, p, Part(c)[1])
    BY <2>1, <2>2, NewPcGot DEF Using, PcOf
  <2>4. NetTypes'
    BY <1>9, <2>1, TakeStep DEF RecvHead
  <2> QED
    BY <1>9, <2>1, <2>3, <2>4, UseStep DEF RecvHead
<1>10. CASE RecvHeadPieces(c)
  <2>1. /\ cl[c].pc \in Using /\ "release" \in Using /\ "release" \in PcOf /\ cl[c].conn # 0 /\ Part(c)[1] \in Nat
    BY <1>10, FirstPart, HasOne DEF RecvHeadPieces, Using, PcOf
  <2>2. GoesOn(c, "release", Part(c)[1])
    BY <1>10, <2>1, NewPcGot DEF RecvHeadPieces
  <2>3. \E n \in Nat : Take(c, n)
    BY <1>10 DEF RecvHeadPieces, BodyTaken
  <2>4. NetTypes'
    BY <1>10, <2>1, <2>3, TakeStep DEF RecvHeadPieces
  <2> QED
    BY <1>10, <2>1, <2>2, <2>4, UseStep DEF RecvHeadPieces
<1>11. CASE RecvBody(c)
  <2>1. cl[c].pc \in Using /\ "release" \in Using /\ "release" \in PcOf /\ cl[c].conn # 0 /\ 1 \in Nat
    BY <1>11, HasOne DEF RecvBody, Using, PcOf
  <2>2. GoesOn(c, "release", cl[c].got)
    BY <1>11, <2>1, NewPc DEF RecvBody
  <2>3. NetTypes'
    BY <1>11, <2>1, TakeStep DEF RecvBody
  <2> QED
    BY <1>11, <2>1, <2>2, <2>3, UseStep DEF RecvBody
<1>12. CASE RecvGarbage(c) \/ RecvClosed(c) \/ RecvTimeout(c)
  <2>1. cl[c].pc \in Using
    BY <1>12 DEF RecvGarbage, RecvClosed, RecvTimeout, Using
  <2> QED
    BY <1>12, <2>1, FailStep DEF RecvGarbage, RecvClosed, RecvTimeout
<1>13. CASE Return(c)
  BY <1>13, ReturnStep
<1> QED
  BY <1>1, <1>2, <1>3, <1>5, <1>6, <1>7, <1>8, <1>9, <1>10, <1>11, <1>12, <1>13 DEF ClientStep

\* A client changes nothing a session waits for but to send a request.
LEMMA ClientAnswers ==
    ASSUME IPoolExact, Answers, NEW c \in Clients,
           getConnection(c) \/ DoRequest(c) \/ RecvTimeout(c) \/ ClientStep(c)
    PROVE  Answers'
<1> USE DEF netVars
<1>1. NetTypes /\ conns \in Nat
  BY DEF IPoolExact, PoolTypes
<1>2. CASE UNCHANGED <<sess, c2s>>
  BY <1>2 DEF Answers
<1>3. CASE Connect(c) \/ HandshakeFails(c)
  BY <1>1, <1>3 DEF Connect, HandshakeFails, Answers, NetTypes
<1>4. CASE SendRequest(c)
  <2>1. cl[c].conn \in Conns /\ cl[c].req \in Nat
    <3>1. cl[c].pc \in Using
      BY <1>4 DEF SendRequest, Using
    <3> QED
      BY <3>1, HasOne DEF IPoolExact, PoolTypes, Record
  <2>2. Append(c2s[cl[c].conn], cl[c].req) # <<>>
    <3>1. c2s[cl[c].conn] \in Seq(Nat)
      BY <1>1, <2>1 DEF NetTypes
    <3> QED
      BY <2>1, <3>1, AppendProperties
  <2> QED
    BY <1>1, <1>4, <2>1, <2>2 DEF SendRequest, Send, Answers, NetTypes
<1> QED
  BY <1>2, <1>3, <1>4 DEF getConnection, DoRequest, RecvTimeout, ClientStep, ConnectFails, SendFails,
     RecvHead, RecvHeadPieces, RecvBody, RecvGarbage, RecvClosed, Return

\* A step of the server leaves the pool alone.
LEMMA ServerPool ==
    ASSUME IPoolExact, NetTypes', cli' = cli, UNCHANGED poolVars
    PROVE  IPoolExact'
BY DEF IPoolExact, PoolTypes, HasConn, OneOwner, Kept, Usable, Counted, InUse, Idle, Holders, poolVars

\* The invariant of the pool is kept by every step.
LEMMA PoolStep == IPoolExact /\ Answers /\ [Next]_vars => IPoolExact' /\ Answers'
<1> SUFFICES ASSUME IPoolExact, Answers, [Next]_vars PROVE IPoolExact' /\ Answers'
  OBVIOUS
<1>1. CASE ServerNext /\ UNCHANGED poolVars
  BY <1>1, ServerStep, ServerPool DEF IPoolExact
<1>2. ASSUME NEW c \in Clients, getConnection(c) \/ DoRequest(c) \/ RecvTimeout(c) \/ ClientStep(c)
      PROVE  IPoolExact' /\ Answers'
  BY <1>2, ClientPool, ClientAnswers
<1>3. CASE UNCHANGED vars
  BY <1>3, ServerPool DEF vars, serverVars, netVars, IPoolExact, NetTypes, Answers
<1> QED
  BY <1>1, <1>2, <1>3 DEF Next

\* The pool's bookkeeping is exact (HttpConnectionPool::getConnection and
\* ReleasePtr): every connection of the pool is in m_conns once or used by one
\* client, m_total counts them, and those in m_conns may be given out.
THEOREM PoolExactCorrect == Spec => []PoolExact
<1>1. Init => IPoolExact /\ Answers
  BY PoolInit DEF Init, ServerInit, Answers
<1>2. IPoolExact => PoolExact
  BY DEF IPoolExact, Kept, Counted, Idle, Holders, PoolExact
<1> QED
  BY <1>1, <1>2, PoolStep, PTL DEF Spec

-----------------------------------------------------------------------------
(* Responses *)

\* A response put behind bodies nobody read is the only head.
LEMMA AnswerHead ==
    ASSUME NEW s \in Seq(Parts), NEW r \in Nat, NEW body \in BOOLEAN, NoHead(s)
    PROVE  OneHead(s \o Response(r, body), r)
<1> DEFINE a == Response(r, body)
           t == s \o a
<1>1. /\ a \in Seq(Parts) /\ Len(a) \in Nat /\ 1 \in 1..Len(a) /\ a[1][1] = r
      /\ \A i \in 1..Len(a) : i # 1 => a[i][2] = "body"
  <2>1. <<r, "head">> \in Parts /\ <<r, "body">> \in Parts /\ <<r, "bare">> \in Parts
    BY DEF Parts
  <2>2. CASE body
    <3>1. a = << <<r, "head">>, <<r, "body">> >>
      BY <2>2 DEF Response
    <3> HIDE DEF a
    <3>2. Len(a) = 2 /\ a[1] = <<r, "head">> /\ a[2] = <<r, "body">>
      BY <3>1
    <3> HIDE DEF Parts
    <3>3. a \in Seq(Parts)
      BY <3>1, <2>1
    <3> QED
      BY <3>2, <3>3
  <2>3. CASE ~body
    <3>1. a = << <<r, "bare">> >>
      BY <2>3 DEF Response
    <3> HIDE DEF a
    <3>2. Len(a) = 1 /\ a[1] = <<r, "bare">>
      BY <3>1
    <3> HIDE DEF Parts
    <3>3. a \in Seq(Parts)
      BY <3>1, <2>1
    <3> QED
      BY <3>2, <3>3
  <2> QED
    BY <2>2, <2>3
<1> HIDE DEF a
<1>2. /\ Len(s) \in Nat /\ Len(t) = Len(s) + Len(a)
      /\ \A i \in 1..Len(t) : t[i] = IF i <= Len(s) THEN s[i] ELSE a[i - Len(s)]
  BY <1>1, ConcatProperties
<1> HIDE DEF t
<1>3. ASSUME NEW i \in 1..Len(t), i # Len(s) + 1
      PROVE  t[i][2] = "body"
  <2>1. CASE i <= Len(s)
    <3>1. i \in 1..Len(s) /\ t[i] = s[i]
      BY <2>1, <1>2
    <3> QED
      BY <3>1 DEF NoHead
  <2>2. CASE ~(i <= Len(s))
    <3>1. i - Len(s) \in 1..Len(a) /\ i - Len(s) # 1 /\ t[i] = a[i - Len(s)]
      BY <2>2, <1>1, <1>2, <1>3
    <3> QED
      BY <3>1, <1>1
  <2> QED
    BY <2>1, <2>2
<1>4. t[Len(s) + 1][1] = r
  <2>1. Len(s) + 1 \in 1..Len(t) /\ (Len(s) + 1) - Len(s) = 1 /\ ~(Len(s) + 1 <= Len(s))
    BY <1>1, <1>2
  <2> QED
    BY <2>1, <1>1, <1>2
<1>5. OneHead(t, r)
  BY <1>3, <1>4 DEF OneHead
<1> QED
  BY <1>5 DEF t, a

\* A clean connection stays clean when the server steps.
LEMMA CleanStays ==
    ASSUME NEW k \in Conns, Clean(k), ServerMoves(k)
    PROVE  Clean(k)'
BY DEF Clean, ServerMoves

\* One that waits for an answer goes on waiting, or the answer is sent.
LEMMA WaitsStays ==
    ASSUME NetTypes, NEW k \in Conns, NEW r \in Nat, Waits(k, r), ServerMoves(k)
    PROVE  Waits(k, r)'
<1>1. CASE Clean(k)
  BY <1>1, CleanStays DEF Waits
<1>2. CASE c2s[k] = <<>> /\ OneHead(s2c[k], r)
  BY <1>2 DEF Waits, ServerMoves
<1>3. CASE c2s[k] = <<r>> /\ NoHead(s2c[k])
  <2>1. CASE c2s'[k] \in {c2s[k], <<>>} /\ s2c'[k] = s2c[k]
    BY <1>3, <2>1 DEF Waits, Clean
  <2>2. Head(c2s[k]) = r /\ Tail(c2s[k]) = <<>>
    BY <1>3
  <2>3. CASE c2s'[k] = <<>> /\ s2c'[k] = s2c[k]
    BY <1>3, <2>3 DEF Waits, Clean
  <2>4. ASSUME NEW body \in BOOLEAN, c2s'[k] = <<>>, s2c'[k] = s2c[k] \o Response(r, body)
        PROVE  Waits(k, r)'
    <3>1. s2c[k] \in Seq(Parts)
      BY DEF NetTypes
    <3>2. OneHead(s2c'[k], r)
      BY <1>3, <2>4, <3>1, AnswerHead
    <3> QED
      BY <2>4, <3>2 DEF Waits
  <2> QED
    BY <2>1, <2>2, <2>3, <2>4 DEF ServerMoves
<1> QED
  BY <1>1, <1>2, <1>3 DEF Waits

\* A step of the server keeps the invariant of the responses.
LEMMA ServerResponse ==
    ASSUME IResponse, ServerNext, UNCHANGED poolVars
    PROVE  Wires' /\ Exchange' /\ IdleClean'
<1> USE DEF IResponse
<1>1. NetTypes /\ cli' = cli /\ \A k \in Conns : ServerMoves(k)
  BY ServerStep DEF IPoolExact
<1>2. UNCHANGED <<cl, m_conns, conns>>
  BY DEF poolVars
<1>3. Wires'
  <2> SUFFICES ASSUME NEW k \in Conns
               PROVE  /\ k > conns => c2s'[k] = <<>> /\ s2c'[k] = <<>>
                      /\ ~cli[k] => s2c'[k] = <<>>
    BY <1>1, <1>2 DEF Wires
  <2>1. ServerMoves(k)
    BY <1>1
  <2> QED
    BY <2>1 DEF Wires, ServerMoves
<1>4. IdleClean'
  <2> SUFFICES ASSUME NEW i \in 1..Len(m_conns) PROVE Clean(m_conns[i])'
    BY <1>2 DEF IdleClean
  <2>1. PICK k \in Conns : k = m_conns[i]
    BY DEF IPoolExact, PoolTypes
  <2>2. Clean(k)'
    BY <1>1, <2>1, CleanStays DEF IdleClean
  <2> QED
    BY <1>2, <2>1, <2>2 DEF Clean
<1>5. Exchange'
  <2> SUFFICES ASSUME NEW c \in Clients PROVE ExchangeOf(c)'
    BY DEF Exchange
  <2>1. ExchangeOf(c)
    BY DEF Exchange
  <2>2. CASE cl[c].pc \notin Using
    BY <2>1, <2>2, <1>2 DEF ExchangeOf, Using
  <2>3. CASE cl[c].pc \in Using
    <3>1. PICK k \in Conns, r \in Nat : k = cl[c].conn /\ r = cl[c].req
      BY <2>3, HasOne DEF IPoolExact, PoolTypes, Record
    <3>2. (Clean(k) => Clean(k)') /\ (Waits(k, r) => Waits(k, r)')
      BY <1>1, CleanStays, WaitsStays
    <3> QED
      BY <1>1, <1>2, <2>1, <3>1, <3>2 DEF ExchangeOf, Clean, Waits
  <2> QED
    BY <2>2, <2>3
<1> QED
  BY <1>3, <1>4, <1>5

\* Only the connection of client c is used; another may be made.
Apart(c) ==
    \A l \in Conns : l # cl[c].conn => /\ c2s'[l] = c2s[l] /\ s2c'[l] = s2c[l]
                                       /\ cli'[l] = cli[l] \/ (l > conns /\ cli'[l])
\* Of the connection of c only what is in order comes into the pool.
PoolClean(c) ==
    \A i \in 1..Len(m_conns') :
        \/ \E j \in 1..Len(m_conns) : m_conns'[i] = m_conns[j]
        \/ /\ m_conns'[i] = cl[c].conn
           /\ c2s'[cl[c].conn] = <<>> /\ NoHead(s2c'[cl[c].conn])
\* The connection of c carries nothing to it when it is closed.
OwnWire(c) == cl[c].conn # 0 => cli'[cl[c].conn] \/ s2c'[cl[c].conn] = <<>>

\* What a step of client c has to show: the exchange of c itself.
LEMMA ResponseStep ==
    ASSUME IResponse, NEW c \in Clients, Others(c), Apart(c), OwnWire(c), PoolClean(c),
           conns' \in Nat, conns <= conns', ExchangeOf(c)'
    PROVE  Wires' /\ Exchange' /\ IdleClean'
<1> USE DEF IResponse
<1>0. conns \in Nat /\ \A l \in Conns : l \in Nat /\ l # 0
  BY ServerAssumption DEF IPoolExact, PoolTypes, Conns
<1>1. Wires'
  <2> SUFFICES ASSUME NEW l \in Conns
               PROVE  /\ l > conns' => c2s'[l] = <<>> /\ s2c'[l] = <<>>
                      /\ ~cli'[l] => s2c'[l] = <<>>
    BY DEF Wires
  <2>1. CASE l = cl[c].conn
    <3>1. l <= conns
      BY <2>1 DEF IPoolExact, HasConn
    <3> QED
      BY <2>1, <3>1, <1>0 DEF OwnWire
  <2>2. CASE l # cl[c].conn
    <3>1. l > conns' => l > conns
      BY <1>0
    <3> QED
      BY <2>2, <3>1 DEF Apart, Wires
  <2> QED
    BY <2>1, <2>2
<1>2. ASSUME NEW d \in Clients, d # c
      PROVE  ExchangeOf(d)'
  <2>1. ExchangeOf(d) /\ cl'[d] = cl[d]
    BY <1>2 DEF Exchange, Others
  <2>2. CASE cl[d].pc \notin Using
    BY <2>1, <2>2 DEF ExchangeOf, Using
  <2>3. CASE cl[d].pc \in Using
    <3>1. PICK k \in Conns : k = cl[d].conn
      BY <2>3, HasOne
    <3>2. k # cl[c].conn /\ ~(k > conns)
      <4>1. k # cl[c].conn
        BY <1>0, <1>2, <3>1 DEF IPoolExact, OneOwner
      <4>2. k <= conns /\ k \in Nat
        BY <1>0, <3>1 DEF IPoolExact, HasConn
      <4> QED
        BY <4>1, <4>2, <1>0
    <3>3. c2s'[k] = c2s[k] /\ s2c'[k] = s2c[k] /\ cli'[k] = cli[k]
      BY <3>2 DEF Apart
    <3> QED
      BY <2>1, <3>1, <3>3 DEF ExchangeOf, Clean, Waits
  <2> QED
    BY <2>2, <2>3
<1>3. Exchange'
  BY <1>2 DEF Exchange
<1>4. IdleClean'
  <2> SUFFICES ASSUME NEW i \in 1..Len(m_conns')
               PROVE  c2s'[m_conns'[i]] = <<>> /\ NoHead(s2c'[m_conns'[i]])
    BY DEF IdleClean, Clean
  <2>1. CASE \E j \in 1..Len(m_conns) : m_conns'[i] = m_conns[j]
    <3>1. PICK j \in 1..Len(m_conns) : m_conns'[i] = m_conns[j]
      BY <2>1
    <3>2. m_conns[j] \in Conns /\ m_conns[j] # cl[c].conn
      BY DEF IPoolExact, PoolTypes, OneOwner
    <3>3. c2s'[m_conns[j]] = c2s[m_conns[j]] /\ s2c'[m_conns[j]] = s2c[m_conns[j]]
      BY <3>2 DEF Apart
    <3>4. c2s[m_conns[j]] = <<>> /\ NoHead(s2c[m_conns[j]])
      BY DEF IdleClean, Clean
    <3> QED
      BY <3>1, <3>3, <3>4
  <2>2. CASE ~\E j \in 1..Len(m_conns) : m_conns'[i] = m_conns[j]
    BY <2>2 DEF PoolClean
  <2> QED
    BY <2>1, <2>2
<1> QED
  BY <1>1, <1>3, <1>4

\* A client without a connection.
LEMMA NoConnResponse ==
    ASSUME IResponse, NEW c \in Clients, NEW p \in {"idle", "connect"}, NoConn(c, p),
           UNCHANGED <<c2s, s2c, cli, m_conns>>, conns' \in Nat, conns <= conns'
    PROVE  Wires' /\ Exchange' /\ IdleClean'
<1>1. ExchangeOf(c)'
  BY DEF NoConn, ExchangeOf
<1>2. Others(c) /\ Apart(c) /\ OwnWire(c) /\ PoolClean(c)
  BY DEF NoConn, Apart, OwnWire, PoolClean
<1> QED
  BY <1>1, <1>2, ResponseStep

\* What is left of a sequence without heads has none, and what is left of one
\* with one head, which came first, has none.
LEMMA DropNoHead ==
    ASSUME NEW s \in Seq(Parts), NEW m \in Nat, m # 0,
           \/ NoHead(s)
           \/ m > 1 /\ s # <<>> /\ s[1][2] # "body" /\ \E r \in Nat : OneHead(s, r)
    PROVE  NoHead(SubSeq(s, m, Len(s)))
<1> DEFINE t == SubSeq(s, m, Len(s))
<1>1. Len(s) \in Nat /\ Len(t) \in Nat
      /\ \A i \in 1..Len(t) : m + i - 1 \in 1..Len(s) /\ t[i] = s[m + i - 1]
  BY DropFirst, LenProperties
<1> HIDE DEF t
<1>2. ASSUME NEW i \in 1..Len(t) PROVE t[i][2] = "body"
  <2>1. CASE NoHead(s)
    BY <1>1, <2>1 DEF NoHead
  <2>2. CASE m > 1 /\ s # <<>> /\ s[1][2] # "body" /\ \E r \in Nat : OneHead(s, r)
    <3>1. 1 \in 1..Len(s) /\ m + i - 1 # 1 /\ m + i - 1 \in 1..Len(s)
      BY <1>1, <2>2
    <3> QED
      BY <1>1, <2>2, <3>1 DEF OneHead
  <2> QED
    BY <2>1, <2>2
<1>3. NoHead(t)
  BY <1>2 DEF NoHead
<1> QED
  BY <1>3 DEF t

\* getConnection: the connection that is taken is clean.
LEMMA GetResponse ==
    ASSUME IResponse, NEW c \in Clients, getConnection(c)
    PROVE  Wires' /\ Exchange' /\ IdleClean'
<1> USE DEF IResponse
<1>1. /\ cl[c].conn = 0 /\ UNCHANGED <<c2s, s2c, cli, conns>> /\ conns \in Nat /\ conns <= conns
      /\ reqs' \in Nat
  <2>1. cl[c].pc = "idle" /\ reqs' = reqs + 1 /\ UNCHANGED <<c2s, conns>>
    BY DEF getConnection
  <2>2. UNCHANGED <<s2c, cli>>
    BY GetEffect
  <2> QED
    BY <2>1, <2>2, HasNone DEF IPoolExact, PoolTypes
<1>2. CASE m_conns = <<>>
  <2> DEFINE e == [pc |-> "connect", req |-> reqs', got |-> 0, conn |-> 0, pooled |-> TRUE]
  <2>1. m_conns' = m_conns /\ cl' = [cl EXCEPT ![c] = e]
    BY GetEffect, <1>2
  <2>2. e \in Record /\ e.conn = 0 /\ e.pc = "connect" /\ e.got = 0
    BY <1>1, ServerAssumption DEF Record, PcOf
  <2> HIDE DEF e
  <2>3. NoConn(c, "connect") /\ "connect" \in {"idle", "connect"}
    BY <1>1, <2>1, <2>2 DEF NoConn, Others, IPoolExact, PoolTypes
  <2> QED
    BY <1>1, <2>1, <2>3, NoConnResponse
<1>3. CASE m_conns # <<>>
  <2> DEFINE k == m_conns[1]
             e == [pc |-> "send", req |-> reqs', got |-> 0, conn |-> k, pooled |-> TRUE]
  <2>1. /\ Len(m_conns') = Len(m_conns) - 1 /\ m_conns' \in Seq(Conns)
        /\ \A i \in 1..Len(m_conns') : m_conns'[i] = m_conns[i + 1]
        /\ cl' = [cl EXCEPT ![c] = e]
    BY GetEffect, <1>3
  <2>2. Len(m_conns) \in Nat /\ Len(m_conns') \in Nat /\ 1 \in 1..Len(m_conns) /\ k \in Conns
        /\ \A i \in 1..Len(m_conns') : i + 1 \in 1..Len(m_conns)
    BY <1>3, <2>1 DEF IPoolExact, PoolTypes
  <2>3. cli[k] /\ Clean(k)
    BY <2>2 DEF IPoolExact, Kept, Usable, IdleClean
  <2>4. e \in Record /\ e.conn = k /\ e.pc = "send" /\ e.got = 0
    BY <1>1, <2>2, ServerAssumption DEF Record, PcOf, Conns
  <2> HIDE DEF e, k
  <2>5. Others(c) /\ cl'[c] = e
    BY <2>1, <2>4 DEF Others, IPoolExact, PoolTypes
  <2>6. ExchangeOf(c)'
    BY <1>1, <2>3, <2>4, <2>5 DEF ExchangeOf, Clean
  <2>7. Apart(c) /\ OwnWire(c) /\ PoolClean(c)
    BY <1>1, <2>1, <2>2 DEF Apart, OwnWire, PoolClean
  <2> QED
    BY <1>1, <2>5, <2>6, <2>7, ResponseStep
<1> QED
  BY <1>2, <1>3

\* A new connection carries nothing yet.
LEMMA ConnectResponse ==
    ASSUME IResponse, NEW c \in Clients, Connect(c)
    PROVE  Wires' /\ Exchange' /\ IdleClean'
<1> USE DEF IResponse
<1> DEFINE k == conns + 1
           e == [cl[c] EXCEPT !.pc = "send", !.conn = k]
<1>1. /\ cl[c].pc = "connect" /\ conns < MaxConns /\ conns' = k
      /\ cli' = [cli EXCEPT ![k] = TRUE] /\ UNCHANGED <<c2s, s2c, m_conns>>
  BY DEF Connect
<1>2. /\ conns \in Nat /\ k \in Conns /\ k \in 0..MaxConns /\ k \in Nat /\ k > conns /\ conns <= k
      /\ cl[c] \in Record /\ cl[c].conn = 0 /\ cl[c].got = 0
  <2>1. cl[c].conn = 0 /\ cl[c].got = 0
    BY <1>1, HasNone DEF Exchange, ExchangeOf
  <2> QED
    BY <1>1, <2>1, ServerAssumption DEF IPoolExact, PoolTypes, Conns
<1>3. cl' = [cl EXCEPT ![c] = e]
  BY <1>1, <1>2 DEF Connect, IPoolExact, PoolTypes
<1>4. e \in Record /\ e.pc = "send" /\ e.conn = k /\ e.got = 0
  BY <1>2 DEF Record, PcOf
<1> HIDE DEF e, k
<1>5. Others(c) /\ cl'[c] = e
  BY <1>3, <1>4 DEF Others, IPoolExact, PoolTypes
<1>6. c2s[k] = <<>> /\ s2c[k] = <<>> /\ cli'[k]
  BY <1>1, <1>2 DEF Wires, IPoolExact, NetTypes
<1>7. NoHead(<<>>)
  BY DEF NoHead
<1>8. ExchangeOf(c)'
  BY <1>1, <1>4, <1>5, <1>6, <1>7 DEF ExchangeOf, Clean
<1>9. \A l \in Conns : l # k => cli'[l] = cli[l]
  BY <1>1 DEF IPoolExact, NetTypes
<1>10. Apart(c) /\ OwnWire(c) /\ PoolClean(c)
  BY <1>1, <1>2, <1>6, <1>9 DEF Apart, OwnWire, PoolClean
<1> QED
  BY <1>1, <1>2, <1>5, <1>8, <1>10, ResponseStep

\* A failed call closes its connection, and what is on it is lost.
LEMMA FailResponse ==
    ASSUME IResponse, NEW c \in Clients, cl[c].pc \in Using, Fail(c), UNCHANGED <<c2s, m_conns, conns>>
    PROVE  Wires' /\ Exchange' /\ IdleClean'
<1> USE DEF IResponse
<1>1. PICK k \in Conns : k = cl[c].conn
  BY HasOne
<1>2. cli'[k] = FALSE /\ s2c'[k] = <<>> /\ \A l \in Conns : l # k => cli'[l] = cli[l] /\ s2c'[l] = s2c[l]
  BY <1>1 DEF Fail, Close, IPoolExact, NetTypes
<1>3. GoesOn(c, "release", 0)
  BY NewPcGot DEF Fail, PcOf
<1>4. ExchangeOf(c)'
  BY <1>1, <1>2, <1>3 DEF ExchangeOf, GoesOn
<1>5. Apart(c) /\ OwnWire(c) /\ PoolClean(c) /\ Others(c)
  BY <1>1, <1>2, <1>3 DEF Apart, OwnWire, PoolClean, GoesOn
<1>6. conns' \in Nat /\ conns <= conns'
  BY DEF IPoolExact, PoolTypes
<1> QED
  BY <1>4, <1>5, <1>6, ResponseStep

\* A call returns: a connection that is kept is open, and so clean.
LEMMA ReturnResponse ==
    ASSUME IResponse, NEW c \in Clients, Return(c)
    PROVE  Wires' /\ Exchange' /\ IdleClean'
<1> USE DEF IResponse
<1>1. /\ cl[c].pc = "release" /\ cl' = [cl EXCEPT ![c] = IdleClient] /\ UNCHANGED <<c2s, conns>>
  BY DEF Return
<1>2. PICK k \in Conns : k = cl[c].conn
  BY <1>1, HasOne DEF Using
<1>3. IdleClient \in Record /\ IdleClient.pc = "idle" /\ IdleClient.got = 0
  BY ServerAssumption DEF IdleClient, Record, PcOf
<1>4. Others(c) /\ cl'[c] = IdleClient
  BY <1>1, <1>3 DEF Others, IPoolExact, PoolTypes
<1>5. ExchangeOf(c)'
  BY <1>3, <1>4 DEF ExchangeOf
<1>6. conns' \in Nat /\ conns <= conns'
  BY <1>1 DEF IPoolExact, PoolTypes
<1>7. CASE Delete({k}) /\ m_conns' = m_conns
  <2>1. cli'[k] = FALSE /\ s2c'[k] = <<>> /\ \A l \in Conns : l # k => cli'[l] = cli[l] /\ s2c'[l] = s2c[l]
    BY <1>7 DEF Delete, Close, IPoolExact, NetTypes
  <2>2. Apart(c) /\ OwnWire(c) /\ PoolClean(c)
    BY <1>1, <1>2, <1>7, <2>1 DEF Apart, OwnWire, PoolClean
  <2> QED
    BY <1>4, <1>5, <1>6, <2>2, ResponseStep
<1>8. CASE cli[k] /\ m_conns' = Append(m_conns, k) /\ UNCHANGED <<cli, s2c>>
  <2>1. c2s[k] = <<>> /\ NoHead(s2c[k])
    BY <1>1, <1>2, <1>8 DEF Exchange, ExchangeOf, Clean
  <2>2. \A i \in 1..Len(m_conns') : (i \in 1..Len(m_conns) /\ m_conns'[i] = m_conns[i]) \/ m_conns'[i] = k
    <3>1. m_conns \in Seq(Conns) /\ Len(m_conns) \in Nat
      BY DEF IPoolExact, PoolTypes
    <3>2. /\ Len(m_conns') = Len(m_conns) + 1 /\ m_conns'[Len(m_conns) + 1] = k
          /\ \A i \in 1..Len(m_conns) : m_conns'[i] = m_conns[i]
      BY <1>8, <3>1, AppendProperties
    <3>3. \A i \in 1..Len(m_conns') : i \in 1..Len(m_conns) \/ i = Len(m_conns) + 1
      BY <3>1, <3>2
    <3> QED
      BY <3>2, <3>3
  <2>3. PoolClean(c)
    BY <1>1, <1>2, <1>8, <2>1, <2>2 DEF PoolClean
  <2>4. Apart(c) /\ OwnWire(c)
    BY <1>1, <1>2, <1>8 DEF Apart, OwnWire
  <2> QED
    BY <1>4, <1>5, <1>6, <2>3, <2>4, ResponseStep
<1> QED
  BY <1>2, <1>7, <1>8 DEF Return, ReleasePtr, IPoolExact, NetTypes

\* A step that sends, or takes what arrived, on the connection of c.
LEMMA WireStep ==
    ASSUME IResponse, NEW c \in Clients, cl[c].pc \in {"send", "recv", "body"}, Others(c), ExchangeOf(c)',
           \A l \in Conns : l # cl[c].conn => c2s'[l] = c2s[l] /\ s2c'[l] = s2c[l],
           UNCHANGED <<cli, m_conns, conns>>
    PROVE  Wires' /\ Exchange' /\ IdleClean'
<1>1. cli[cl[c].conn]
  BY DEF IResponse, Exchange, ExchangeOf
<1>2. Apart(c) /\ OwnWire(c) /\ PoolClean(c)
  BY <1>1 DEF Apart, OwnWire, PoolClean
<1>3. conns' \in Nat /\ conns <= conns'
  BY DEF IResponse, IPoolExact, PoolTypes
<1> QED
  BY <1>2, <1>3, ResponseStep

\* The head that is taken answers the request of c, and no other is left.
LEMMA TakenHead ==
    ASSUME IResponse, NEW c \in Clients, cl[c].pc = "recv", Arrived(c), Part(c)[2] # "body",
           NEW n \in Nat, n # 0, Take(c, n), NEW p \in {"body", "release"}, UNCHANGED <<c2s, cli, m_conns, conns>>,
           cl' = [cl EXCEPT ![c].pc = p, ![c].got = Part(c)[1]]
    PROVE  Wires' /\ Exchange' /\ IdleClean'
<1> USE DEF IResponse
<1>1. cl[c].pc \in Using /\ p \in PcOf
  BY DEF Using, PcOf
<1>2. PICK k \in Conns : k = cl[c].conn
  BY <1>1, HasOne
<1>3. /\ s2c[k] \in Seq(Parts) /\ 1 \in 1..Len(s2c[k]) /\ Part(c) = s2c[k][1] /\ Part(c)[1] \in Nat
  BY <1>1, <1>2, FirstPart
<1>4. Waits(k, cl[c].req) /\ cli[k] /\ cl[c].req \in Nat
  BY <1>2 DEF Exchange, ExchangeOf, IPoolExact, PoolTypes, Record
<1>5. c2s[k] = <<>> /\ OneHead(s2c[k], cl[c].req)
  BY <1>3, <1>4 DEF Waits, Clean, NoHead
<1>6. Part(c)[1] = cl[c].req
  BY <1>3, <1>5 DEF OneHead
<1>7. NoHead(SubSeq(s2c[k], n + 1, Len(s2c[k])))
  <2>1. n + 1 \in Nat /\ n + 1 # 0 /\ n + 1 > 1 /\ s2c[k] # <<>>
    BY <1>2 DEF Arrived
  <2> QED
    BY <1>3, <1>4, <1>5, <2>1, DropNoHead
<1>8. s2c'[k] = SubSeq(s2c[k], n + 1, Len(s2c[k])) /\ \A l \in Conns : l # k => s2c'[l] = s2c[l]
  BY <1>2 DEF Take, IPoolExact, NetTypes
<1>9. GoesOn(c, p, cl[c].req)
  BY <1>1, <1>3, <1>6, NewPcGot
<1>10. ExchangeOf(c)'
  BY <1>2, <1>4, <1>5, <1>7, <1>8, <1>9 DEF GoesOn, ExchangeOf, Clean
<1> QED
  BY <1>2, <1>8, <1>9, <1>10, WireStep DEF GoesOn

\* Every step of a client keeps the invariant of the responses.
LEMMA ClientResponse ==
    ASSUME IResponse, NEW c \in Clients,
           getConnection(c) \/ DoRequest(c) \/ RecvTimeout(c) \/ ClientStep(c)
    PROVE  Wires' /\ Exchange' /\ IdleClean'
<1> USE DEF IResponse, netVars
<1>0. conns \in Nat /\ conns <= conns /\ reqs \in Nat /\ ExchangeOf(c)
  BY DEF IPoolExact, PoolTypes, Exchange
<1>1. CASE getConnection(c)
  BY <1>1, GetResponse
<1>2. CASE DoRequest(c)
  <2>1. reqs' \in Nat /\ cl[c].conn = 0 /\ "connect" \in {"idle", "connect"}
    BY <1>0, <1>2, HasNone DEF DoRequest
  <2>2. NoConn(c, "connect")
    BY <1>2, <2>1, NewCall DEF DoRequest
  <2> QED
    BY <1>0, <1>2, <2>1, <2>2, NoConnResponse DEF DoRequest
<1>3. CASE Connect(c)
  BY <1>3, ConnectResponse
<1>4. CASE HandshakeFails(c) \/ ConnectFails(c)
  <2>1. cl[c].conn = 0 /\ "idle" \in {"idle", "connect"}
    BY <1>4, HasNone DEF HandshakeFails, ConnectFails
  <2>2. NoConn(c, "idle")
    BY <1>4, <2>1, NoCall DEF HandshakeFails, ConnectFails
  <2>3. conns' \in Nat /\ conns <= conns' /\ UNCHANGED <<c2s, s2c, cli, m_conns>>
    BY <1>0, <1>4 DEF HandshakeFails, ConnectFails
  <2> QED
    BY <2>1, <2>2, <2>3, NoConnResponse
<1>5. CASE SendRequest(c)
  <2>1. cl[c].pc = "send" /\ cl[c].pc \in Using /\ "recv" \in PcOf
    BY <1>5 DEF SendRequest, Using, PcOf
  <2>2. PICK k \in Conns : k = cl[c].conn
    BY <2>1, HasOne
  <2>3. GoesOn(c, "recv", cl[c].got)
    BY <1>5, <2>1, NewPc DEF SendRequest
  <2>4. c2s[k] = <<>> /\ NoHead(s2c[k]) /\ cli[k] /\ cl[c].got = 0
    BY <1>0, <2>1, <2>2 DEF ExchangeOf, Clean
  <2>5. c2s'[k] \in {<<>>, <<cl[c].req>>} /\ \A l \in Conns : l # k => c2s'[l] = c2s[l]
    BY <1>5, <2>2, <2>4 DEF SendRequest, Send, IPoolExact, NetTypes
  <2>6. UNCHANGED <<s2c, cli, m_conns, conns>>
    BY <1>5 DEF SendRequest
  <2>7. ExchangeOf(c)'
    BY <2>2, <2>3, <2>4, <2>5, <2>6 DEF ExchangeOf, GoesOn, Waits, Clean
  <2> QED
    BY <2>1, <2>2, <2>3, <2>5, <2>6, <2>7, WireStep DEF GoesOn
<1>6. CASE SendFails(c)
  <2>1. cl[c].pc = "send" /\ "release" \in PcOf
    BY <1>6 DEF SendFails, PcOf
  <2>2. GoesOn(c, "release", cl[c].got)
    BY <1>6, <2>1, NewPc DEF SendFails
  <2>3. UNCHANGED <<c2s, s2c, cli, m_conns, conns>>
    BY <1>6 DEF SendFails
  <2>4. ExchangeOf(c)'
    BY <1>0, <2>1, <2>2, <2>3 DEF ExchangeOf, GoesOn, Clean
  <2> QED
    BY <2>1, <2>2, <2>3, <2>4, WireStep DEF GoesOn
<1>7. CASE RecvHead(c)
  <2>1. cl[c].pc = "recv" /\ Arrived(c) /\ Take(c, 1) /\ UNCHANGED <<c2s, cli, m_conns, conns>>
    BY <1>7 DEF RecvHead
  <2>2. Part(c)[2] # "body"
    <3>1. HeadOutcomes("body") = {"error"}
      BY ZenonT(30) DEF HeadOutcomes
    <3> QED
      BY <1>7, <3>1 DEF RecvHead
  <2>3. PICK p \in {"body", "release"} : cl' = [cl EXCEPT ![c].pc = p, ![c].got = Part(c)[1]]
    BY <1>7 DEF RecvHead
  <2> QED
    BY <2>1, <2>2, <2>3, 1 \in Nat, 1 # 0, TakenHead
<1>8. CASE RecvHeadPieces(c)
  <2>1. /\ cl[c].pc = "recv" /\ Arrived(c) /\ Part(c)[2] = "head" /\ UNCHANGED <<c2s, cli, m_conns, conns>>
        /\ cl' = [cl EXCEPT ![c].pc = "release", ![c].got = Part(c)[1]]
    BY <1>8 DEF RecvHeadPieces
  <2>2. PICK n \in Nat : n # 0 /\ Take(c, n)
    BY <1>8 DEF RecvHeadPieces, BodyTaken
  <2> QED
    BY <2>1, <2>2, TakenHead
<1>9. CASE RecvBody(c)
  <2>1. cl[c].pc = "body" /\ cl[c].pc \in Using /\ "release" \in PcOf /\ Take(c, 1)
        /\ UNCHANGED <<c2s, cli, m_conns, conns>>
    BY <1>9 DEF RecvBody, Using, PcOf
  <2>2. PICK k \in Conns : k = cl[c].conn
    BY <2>1, HasOne
  <2>3. GoesOn(c, "release", cl[c].got)
    BY <1>9, <2>1, NewPc DEF RecvBody
  <2>4. c2s[k] = <<>> /\ NoHead(s2c[k]) /\ s2c[k] \in Seq(Parts)
    BY <1>0, <2>1, <2>2 DEF ExchangeOf, Clean, IPoolExact, NetTypes
  <2>5. s2c'[k] = SubSeq(s2c[k], 2, Len(s2c[k])) /\ \A l \in Conns : l # k => s2c'[l] = s2c[l]
    BY <2>1, <2>2 DEF Take, IPoolExact, NetTypes
  <2>6. NoHead(s2c'[k])
    BY <2>4, <2>5, 2 \in Nat, 2 # 0, DropNoHead
  <2>7. ExchangeOf(c)'
    BY <1>0, <2>1, <2>2, <2>3, <2>4, <2>6 DEF ExchangeOf, GoesOn, Clean
  <2> QED
    BY <2>1, <2>2, <2>3, <2>5, <2>7, WireStep DEF GoesOn
<1>10. CASE RecvGarbage(c) \/ RecvClosed(c) \/ RecvTimeout(c)
  <2>1. cl[c].pc \in Using
    BY <1>10 DEF RecvGarbage, RecvClosed, RecvTimeout, Using
  <2> QED
    BY <1>10, <2>1, FailResponse DEF RecvGarbage, RecvClosed, RecvTimeout
<1>11. CASE Return(c)
  BY <1>11, ReturnResponse
<1> QED
  BY <1>1, <1>2, <1>3, <1>4, <1>5, <1>6, <1>7, <1>8, <1>9, <1>10, <1>11 DEF ClientStep

\* The start: nothing on the way.
LEMMA ResponseInit == Init => IResponse
<1> SUFFICES ASSUME Init PROVE Answers /\ Wires /\ Exchange /\ IdleClean
  BY PoolInit DEF IResponse
<1>1. Answers /\ Wires /\ IdleClean
  BY DEF Init, ServerInit, Answers, Wires, IdleClean
<1>2. Exchange
  BY DEF Init, IdleClient, Exchange, ExchangeOf
<1> QED
  BY <1>1, <1>2

\* The invariant of the responses is kept by every step.
LEMMA ResponseInductive == IResponse /\ [Next]_vars => IResponse'
<1> SUFFICES ASSUME IResponse, [Next]_vars PROVE Wires' /\ Exchange' /\ IdleClean'
  BY PoolStep DEF IResponse
<1>1. CASE ServerNext /\ UNCHANGED poolVars
  BY <1>1, ServerResponse
<1>2. ASSUME NEW c \in Clients, getConnection(c) \/ DoRequest(c) \/ RecvTimeout(c) \/ ClientStep(c)
      PROVE  Wires' /\ Exchange' /\ IdleClean'
  BY <1>2, ClientResponse
<1>3. CASE UNCHANGED vars
  BY <1>3 DEF vars, serverVars, netVars, poolVars, IResponse, Wires, Exchange, ExchangeOf, IdleClean, Clean, Waits
<1> QED
  BY <1>1, <1>2, <1>3 DEF Next

\* A client gets the response to its own request, or none
\* (HttpConnectionPool::doRequest over sendRequest and recvResponse): whoever
\* used the connection before, whatever was given up or left unread on it, and
\* whenever the server answers, resets or closes.
THEOREM OwnResponseCorrect == Spec => []OwnResponse
<1>1. IResponse => OwnResponse
  BY DEF IResponse, Exchange, ExchangeOf, OwnResponse
<1> QED
  BY <1>1, ResponseInit, ResponseInductive, PTL DEF Spec

-----------------------------------------------------------------------------
(* The order of messages on a connection *)

PartsTo(s, r) == \A i \in 1..Len(s) : s[i][1] <= r
PartsBefore(s, r) == \A i \in 1..Len(s) : s[i][1] < r

\* Requests are numbered as they are made; a connection has at most one on the
\* way; and a client that is about to send has a later request than all that was
\* answered on its connection.
Numbered ==
    /\ \A k \in Conns : /\ PartsTo(s2c[k], reqs)
                        /\ c2s[k] = <<>> \/ \E r \in Nat : r <= reqs /\ c2s[k] = <<r>>
    /\ \A c \in Clients : /\ cl[c].req <= reqs
                          /\ cl[c].pc = "send" => PartsBefore(s2c[cl[c].conn], cl[c].req)

IOrder == Numbered /\ WiresInOrder

\* What is left of messages in order is in order.
LEMMA DropInOrder ==
    ASSUME NEW s \in Seq(Parts), NEW w, NEW m \in Nat, m # 0, InOrder(s, w), NEW r \in Nat
    PROVE  LET t == SubSeq(s, m, Len(s))
           IN  /\ InOrder(t, w)
               /\ PartsTo(s, r) => PartsTo(t, r)
               /\ PartsBefore(s, r) => PartsBefore(t, r)
<1> DEFINE t == SubSeq(s, m, Len(s))
<1>1. /\ t \in Seq(Parts) /\ Len(t) \in Nat /\ Len(s) \in Nat
      /\ \A i \in 1..Len(t) : m + i - 1 \in 1..Len(s) /\ t[i] = s[m + i - 1]
  BY DropFirst, LenProperties
<1> HIDE DEF t
<1>2. DOMAIN s = 1..Len(s) /\ DOMAIN t = 1..Len(t)
  BY <1>1, LenProperties
<1>3. ASSUME NEW i \in DOMAIN t
      PROVE  /\ \A j \in DOMAIN w : t[i][1] < w[j]
             /\ \A j \in 1..i-1 : t[j][1] < t[i][1] \/ (t[j][2] = "head" /\ t[i] = <<t[j][1], "body">>)
  <2>1. m + i - 1 \in DOMAIN s /\ t[i] = s[m + i - 1] /\ i \in Nat
    BY <1>1, <1>2
  <2>2. \A j \in 1..i-1 : m + j - 1 \in 1..(m + i - 1)-1 /\ t[j] = s[m + j - 1]
    BY <1>1, <1>2
  <2>3. /\ \A j \in DOMAIN w : s[m + i - 1][1] < w[j]
        /\ \A j \in 1..(m + i - 1)-1 : \/ s[j][1] < s[m + i - 1][1]
                                       \/ s[j][2] = "head" /\ s[m + i - 1] = <<s[j][1], "body">>
    <3> DEFINE n == m + i - 1
    <3>1. n \in DOMAIN s
      BY <2>1
    <3> HIDE DEF n
    <3>2. /\ \A j \in DOMAIN w : s[n][1] < w[j]
          /\ \A j \in 1..n-1 : s[j][1] < s[n][1] \/ (s[j][2] = "head" /\ s[n] = <<s[j][1], "body">>)
      BY <3>1 DEF InOrder
    <3> QED
      BY <3>2 DEF n
  <2>4. ASSUME NEW j \in 1..i-1
        PROVE  t[j][1] < t[i][1] \/ (t[j][2] = "head" /\ t[i] = <<t[j][1], "body">>)
    <3>1. PICK l \in 1..(m + i - 1)-1 : t[j] = s[l]
      BY <2>2
    <3> QED
      BY <3>1, <2>1, <2>3
  <2> QED
    BY <2>1, <2>3, <2>4
<1>4. InOrder(t, w)
  BY <1>3 DEF InOrder
<1>5. (PartsTo(s, r) => PartsTo(t, r)) /\ (PartsBefore(s, r) => PartsBefore(t, r))
  BY <1>1 DEF PartsTo, PartsBefore
<1> QED
  BY <1>4, <1>5 DEF t

\* A response after messages of earlier requests.
LEMMA AnswerInOrder ==
    ASSUME NEW s \in Seq(Parts), NEW r \in Nat, NEW body \in BOOLEAN, InOrder(s, <<r>>)
    PROVE  /\ InOrder(s \o Response(r, body), <<>>) /\ InOrder(s, <<>>)
           /\ \A n \in Nat : PartsTo(s, n) /\ r <= n => PartsTo(s \o Response(r, body), n)
<1> DEFINE a == Response(r, body)
           t == s \o a
<1>1. /\ a \in Seq(Parts) /\ Len(a) \in Nat /\ \A i \in 1..Len(a) : a[i][1] = r
      /\ \A i, j \in 1..Len(a) : j < i => a[j][2] = "head" /\ a[i] = <<r, "body">>
  <2>1. <<r, "head">> \in Parts /\ <<r, "body">> \in Parts /\ <<r, "bare">> \in Parts
    BY DEF Parts
  <2>2. CASE body
    <3>1. a = << <<r, "head">>, <<r, "body">> >>
      BY <2>2 DEF Response
    <3> HIDE DEF a
    <3>2. Len(a) = 2 /\ a[1] = <<r, "head">> /\ a[2] = <<r, "body">>
      BY <3>1
    <3> HIDE DEF Parts
    <3>3. a \in Seq(Parts)
      BY <3>1, <2>1
    <3> QED
      BY <3>2, <3>3
  <2>3. CASE ~body
    <3>1. a = << <<r, "bare">> >>
      BY <2>3 DEF Response
    <3> HIDE DEF a
    <3>2. Len(a) = 1 /\ a[1] = <<r, "bare">>
      BY <3>1
    <3> HIDE DEF Parts
    <3>3. a \in Seq(Parts)
      BY <3>1, <2>1
    <3> QED
      BY <3>2, <3>3
  <2> QED
    BY <2>2, <2>3
<1> HIDE DEF a
<1>2. /\ t \in Seq(Parts) /\ Len(s) \in Nat /\ Len(t) = Len(s) + Len(a)
      /\ \A i \in 1..Len(t) : t[i] = IF i <= Len(s) THEN s[i] ELSE a[i - Len(s)]
  BY <1>1, ConcatProperties
<1> HIDE DEF t
<1>3. DOMAIN s = 1..Len(s) /\ DOMAIN t = 1..Len(t) /\ DOMAIN <<r>> = {1} /\ <<r>>[1] = r
  BY <1>2, LenProperties
<1>4. \A i \in 1..Len(s) : s[i][1] < r
  BY <1>3 DEF InOrder
<1>5. \A i \in 1..Len(t) : \/ i \in 1..Len(s) /\ t[i] = s[i]
                           \/ i > Len(s) /\ i - Len(s) \in 1..Len(a) /\ t[i] = a[i - Len(s)]
  BY <1>1, <1>2
<1>6. ASSUME NEW i \in 1..Len(t), NEW j \in 1..i-1
      PROVE  t[j][1] < t[i][1] \/ (t[j][2] = "head" /\ t[i] = <<t[j][1], "body">>)
  <2>1. j \in 1..Len(t) /\ j < i /\ i \in Nat /\ j \in Nat
    BY <1>1, <1>2
  <2>2. CASE i \in 1..Len(s)
    <3>1. t[i] = s[i] /\ t[j] = s[j]
      BY <1>2, <1>5, <2>1, <2>2
    <3> QED
      BY <3>1, <2>2, <1>3 DEF InOrder
  <2>3. CASE i \notin 1..Len(s) /\ j \in 1..Len(s)
    <3>1. t[j] = s[j] /\ t[i] = a[i - Len(s)] /\ i - Len(s) \in 1..Len(a)
      BY <1>2, <1>5, <2>1, <2>3
    <3> QED
      BY <3>1, <2>3, <1>1, <1>4
  <2>4. CASE i \notin 1..Len(s) /\ j \notin 1..Len(s)
    <3>1. /\ t[j] = a[j - Len(s)] /\ j - Len(s) \in 1..Len(a)
          /\ t[i] = a[i - Len(s)] /\ i - Len(s) \in 1..Len(a)
      BY <1>5, <2>1, <2>4
    <3>2. j - Len(s) < i - Len(s)
      BY <1>2, <2>1
    <3> QED
      BY <3>1, <3>2, <1>1
  <2> QED
    BY <2>2, <2>3, <2>4
<1>7. InOrder(t, <<>>) /\ InOrder(s, <<>>)
  BY <1>3, <1>6 DEF InOrder
<1>8. ASSUME NEW n \in Nat, PartsTo(s, n), r <= n PROVE PartsTo(t, n)
  <2> SUFFICES ASSUME NEW i \in 1..Len(t) PROVE t[i][1] <= n
    BY DEF PartsTo
  <2>1. CASE i \in 1..Len(s) /\ t[i] = s[i]
    BY <1>8, <2>1 DEF PartsTo
  <2>2. CASE i - Len(s) \in 1..Len(a) /\ t[i] = a[i - Len(s)]
    <3>1. a[i - Len(s)][1] = r
      BY <1>1, <2>2
    <3> QED
      BY <1>8, <2>2, <3>1
  <2> QED
    BY <1>5, <2>1, <2>2
<1> QED
  BY <1>7, <1>8 DEF t, a

\* The server keeps the order: a request that is answered is the last on the way.
LEMMA ServerOrder ==
    ASSUME NetTypes, reqs \in Nat, IOrder, NEW k \in Conns, ServerMoves(k)
    PROVE  /\ InOrder(s2c'[k], c2s'[k]) /\ PartsTo(s2c'[k], reqs)
           /\ c2s'[k] = <<>> \/ \E r \in Nat : r <= reqs /\ c2s'[k] = <<r>>
           /\ c2s[k] = <<>> => s2c'[k] = s2c[k]
<1>1. /\ s2c[k] \in Seq(Parts) /\ InOrder(s2c[k], c2s[k]) /\ PartsTo(s2c[k], reqs)
      /\ c2s[k] = <<>> \/ \E r \in Nat : r <= reqs /\ c2s[k] = <<r>>
  BY DEF NetTypes, IOrder, WiresInOrder, Numbered
<1>2. c2s[k] = <<>> => s2c'[k] = s2c[k]
  BY DEF ServerMoves
<1>3. CASE c2s[k] = <<>>
  BY <1>1, <1>2, <1>3 DEF ServerMoves
<1>4. ASSUME NEW r \in Nat, r <= reqs, c2s[k] = <<r>>
      PROVE  /\ InOrder(s2c'[k], c2s'[k]) /\ PartsTo(s2c'[k], reqs)
             /\ c2s'[k] = <<>> \/ \E q \in Nat : q <= reqs /\ c2s'[k] = <<q>>
  <2>1. Head(c2s[k]) = r /\ Tail(c2s[k]) = <<>> /\ <<r>> # <<>>
    BY <1>4
  <2>2. InOrder(s2c[k], <<r>>)
    BY <1>1, <1>4
  <2>3. InOrder(s2c[k], <<>>) /\ \A body \in BOOLEAN : /\ InOrder(s2c[k] \o Response(r, body), <<>>)
                                                       /\ PartsTo(s2c[k] \o Response(r, body), reqs)
    BY <1>1, <1>4, <2>2, AnswerInOrder
  <2> QED
    BY <1>1, <1>4, <2>1, <2>2, <2>3 DEF ServerMoves
<1> QED
  BY <1>1, <1>2, <1>3, <1>4

\* What a step of a client does to the connections: it may send its request on
\* one that carries none, and take or lose what arrived.
LEMMA ClientWires ==
    ASSUME IResponse, NEW c \in Clients,
           getConnection(c) \/ DoRequest(c) \/ RecvTimeout(c) \/ ClientStep(c)
    PROVE  \A k \in Conns :
             /\ \/ c2s'[k] = c2s[k]
                \/ cl[c].pc = "send" /\ k = cl[c].conn /\ c2s'[k] = <<cl[c].req>> /\ s2c'[k] = s2c[k]
             /\ \/ s2c'[k] \in {s2c[k], <<>>}
                \/ \E m \in Nat : m # 0 /\ s2c'[k] = SubSeq(s2c[k], m, Len(s2c[k]))
<1> USE DEF IResponse, netVars
<1>0. NetTypes
  BY DEF IPoolExact
<1>1. CASE UNCHANGED <<c2s, s2c>>
  BY <1>1
<1>2. ASSUME NEW ks, Close(ks), UNCHANGED c2s
      PROVE  \A k \in Conns : c2s'[k] = c2s[k] /\ s2c'[k] \in {s2c[k], <<>>}
  BY <1>2 DEF Close
<1>3. ASSUME NEW n \in Nat, Take(c, n), UNCHANGED c2s
      PROVE  \A k \in Conns : /\ c2s'[k] = c2s[k]
                              /\ \/ s2c'[k] = s2c[k]
                                 \/ \E m \in Nat : m # 0 /\ s2c'[k] = SubSeq(s2c[k], m, Len(s2c[k]))
  <2> SUFFICES ASSUME NEW k \in Conns
               PROVE  \/ s2c'[k] = s2c[k]
                      \/ \E m \in Nat : m # 0 /\ s2c'[k] = SubSeq(s2c[k], m, Len(s2c[k]))
    BY <1>3
  <2>1. CASE k # cl[c].conn
    BY <1>0, <1>3, <2>1 DEF Take, NetTypes
  <2>2. CASE k = cl[c].conn
    <3>1. s2c'[k] = SubSeq(s2c[k], n + 1, Len(s2c[k]))
      BY <1>0, <1>3, <2>2 DEF Take, NetTypes
    <3>2. n + 1 \in Nat /\ n + 1 # 0
      OBVIOUS
    <3> QED
      BY <3>1, <3>2
  <2> QED
    BY <2>1, <2>2
<1>4. CASE SendRequest(c)
  <2>1. cl[c].pc = "send" /\ UNCHANGED s2c /\ Send(cl[c].conn, cl[c].req)
    BY <1>4 DEF SendRequest
  <2>2. c2s[cl[c].conn] = <<>> /\ cl[c].conn \in Conns
    BY <2>1, HasOne DEF Exchange, ExchangeOf, Clean, Using
  <2>3. \A k \in Conns : c2s'[k] = c2s[k] \/ (k = cl[c].conn /\ c2s'[k] = <<cl[c].req>>)
    BY <1>0, <2>1, <2>2 DEF Send, NetTypes
  <2> QED
    BY <2>1, <2>3
<1>5. CASE getConnection(c)
  BY <1>1, <1>5, GetEffect DEF getConnection
<1>6. CASE RecvHead(c)
  BY <1>3, <1>6, 1 \in Nat DEF RecvHead
<1>7. CASE RecvHeadPieces(c)
  <2>1. PICK n \in Nat : Take(c, n)
    BY <1>7 DEF RecvHeadPieces, BodyTaken
  <2> QED
    BY <1>3, <1>7, <2>1 DEF RecvHeadPieces
<1>8. CASE RecvBody(c)
  BY <1>3, <1>8, 1 \in Nat DEF RecvBody
<1>9. CASE RecvGarbage(c) \/ RecvClosed(c) \/ RecvTimeout(c)
  BY <1>2, <1>9 DEF RecvGarbage, RecvClosed, RecvTimeout, Fail
<1>10. CASE Return(c)
  <2>1. UNCHANGED c2s /\ (UNCHANGED s2c \/ Close({cl[c].conn}))
    BY <1>10 DEF Return, ReleasePtr, Delete
  <2> QED
    BY <1>1, <1>2, <2>1
<1>11. CASE DoRequest(c) \/ Connect(c) \/ HandshakeFails(c) \/ ConnectFails(c) \/ SendFails(c)
  BY <1>1, <1>11 DEF DoRequest, Connect, HandshakeFails, ConnectFails, SendFails
<1> QED
  BY <1>4, <1>5, <1>6, <1>7, <1>8, <1>9, <1>10, <1>11 DEF ClientStep

\* Request numbers, and who is about to send: a client that goes on, one that
\* got a connection from the pool with a new request, or one with a new connection.
LEMMA ClientNumbers ==
    ASSUME IResponse, IOrder, NEW c \in Clients,
           getConnection(c) \/ DoRequest(c) \/ RecvTimeout(c) \/ ClientStep(c)
    PROVE  /\ reqs \in Nat /\ reqs' \in Nat /\ reqs <= reqs'
           /\ \A d \in Clients :
                /\ cl'[d].req \in Nat /\ cl'[d].req <= reqs'
                /\ cl'[d].pc = "send" =>
                     \/ cl[d].pc = "send" /\ cl'[d].conn = cl[d].conn /\ cl'[d].req = cl[d].req
                     \/ cl'[d].req > reqs
                     \/ s2c[cl'[d].conn] = <<>>
<1> USE DEF IResponse
<1>0. /\ reqs \in Nat /\ cl \in [Clients -> Record] /\ conns \in Nat
      /\ \A d \in Clients : cl[d].req \in Nat /\ cl[d].req <= reqs
  BY DEF IPoolExact, PoolTypes, Record, IOrder, Numbered
<1>1. \A d \in Clients : d # c => cl'[d] = cl[d]
  BY <1>0 DEF getConnection, DoRequest, RecvTimeout, ClientStep, Connect, HandshakeFails, ConnectFails,
     SendRequest, SendFails, RecvHead, RecvHeadPieces, RecvBody, RecvGarbage, RecvClosed, Fail, Return
<1>2. CASE getConnection(c)
  <2>1. reqs' = reqs + 1
    BY <1>2 DEF getConnection
  <2>2. cl'[c].req = reqs'
    BY <1>0, <1>2 DEF getConnection
  <2> QED
    BY <1>0, <1>1, <2>1, <2>2
<1>3. CASE DoRequest(c)
  <2>1. reqs' = reqs + 1 /\ cl[c].pc = "idle"
    BY <1>3 DEF DoRequest
  <2>2. cl'[c].req = reqs' /\ cl'[c].pc = "connect"
    BY <1>0, <1>3 DEF DoRequest, IdleClient
  <2> QED
    BY <1>0, <1>1, <2>1, <2>2
<1>4. CASE Connect(c)
  <2>1. reqs' = reqs /\ conns' = conns + 1 /\ conns < MaxConns
    BY <1>4 DEF Connect
  <2>2. cl'[c].req = cl[c].req /\ cl'[c].conn = conns'
    BY <1>0, <1>4 DEF Connect, Record
  <2>3. conns' \in Conns /\ conns' > conns
    BY <1>0, <2>1, ServerAssumption DEF Conns
  <2>4. s2c[conns'] = <<>>
    BY <2>3 DEF Wires
  <2> QED
    BY <1>0, <1>1, <2>1, <2>2, <2>4
<1>5. CASE HandshakeFails(c) \/ ConnectFails(c) \/ Return(c)
  <2>1. reqs' = reqs /\ cl'[c] = IdleClient
    BY <1>0, <1>5 DEF HandshakeFails, ConnectFails, Return
  <2>2. IdleClient.req = 0 /\ IdleClient.pc = "idle"
    BY DEF IdleClient
  <2> QED
    BY <1>0, <1>1, <2>1, <2>2
<1>6. CASE \/ SendRequest(c) \/ SendFails(c) \/ RecvHead(c) \/ RecvHeadPieces(c) \/ RecvBody(c)
           \/ RecvGarbage(c) \/ RecvClosed(c) \/ RecvTimeout(c)
  <2>1. reqs' = reqs
    BY <1>6 DEF SendRequest, SendFails, RecvHead, RecvHeadPieces, RecvBody, RecvGarbage, RecvClosed, RecvTimeout
  <2>2. cl'[c].req = cl[c].req /\ cl'[c].pc # "send"
    <3>1. \E p \in {"recv", "body", "release"} : \/ cl' = [cl EXCEPT ![c].pc = p]
                                                 \/ \E g : cl' = [cl EXCEPT ![c].pc = p, ![c].got = g]
      BY <1>6 DEF SendRequest, SendFails, RecvHead, RecvHeadPieces, RecvBody, RecvGarbage, RecvClosed, RecvTimeout, Fail
    <3> QED
      BY <1>0, <3>1 DEF Record
  <2> QED
    BY <1>0, <1>1, <2>1, <2>2
<1> QED
  BY <1>2, <1>3, <1>4, <1>5, <1>6 DEF ClientStep

\* Every step of a client keeps the order.
LEMMA ClientOrder ==
    ASSUME IResponse, IPoolExact', IOrder, NEW c \in Clients,
           getConnection(c) \/ DoRequest(c) \/ RecvTimeout(c) \/ ClientStep(c)
    PROVE  IOrder'
<1> USE DEF IResponse
<1>1. /\ reqs \in Nat /\ reqs' \in Nat /\ reqs <= reqs'
      /\ \A d \in Clients : cl[d].req \in Nat /\ cl[d].req <= reqs
  BY ClientNumbers DEF IPoolExact, PoolTypes, Record, IOrder, Numbered
<1>2. ASSUME NEW k \in Conns
      PROVE  /\ InOrder(s2c'[k], c2s'[k]) /\ PartsTo(s2c'[k], reqs)
             /\ c2s'[k] = <<>> \/ \E r \in Nat : r <= reqs /\ c2s'[k] = <<r>>
             /\ \A r \in Nat : PartsBefore(s2c[k], r) => PartsBefore(s2c'[k], r)
  <2>1. /\ s2c[k] \in Seq(Parts) /\ InOrder(s2c[k], c2s[k]) /\ PartsTo(s2c[k], reqs)
        /\ c2s[k] = <<>> \/ \E r \in Nat : r <= reqs /\ c2s[k] = <<r>>
    BY DEF IPoolExact, NetTypes, IOrder, WiresInOrder, Numbered
  <2>2. InOrder(<<>>, c2s[k]) /\ \A r \in Nat : PartsTo(<<>>, r) /\ PartsBefore(<<>>, r)
    BY DEF InOrder, PartsTo, PartsBefore
  <2>3. CASE c2s'[k] = c2s[k] /\ s2c'[k] \in {s2c[k], <<>>}
    BY <1>1, <2>1, <2>2, <2>3
  <2>4. ASSUME c2s'[k] = c2s[k], NEW m \in Nat, m # 0, s2c'[k] = SubSeq(s2c[k], m, Len(s2c[k]))
        PROVE  /\ InOrder(s2c'[k], c2s'[k]) /\ PartsTo(s2c'[k], reqs)
               /\ \A r \in Nat : PartsBefore(s2c[k], r) => PartsBefore(s2c'[k], r)
    BY <1>1, <2>1, <2>4, DropInOrder
  <2>5. CASE cl[c].pc = "send" /\ k = cl[c].conn /\ c2s'[k] = <<cl[c].req>> /\ s2c'[k] = s2c[k]
    <3>1. PartsBefore(s2c[k], cl[c].req)
      BY <2>5 DEF IOrder, Numbered
    <3>2. DOMAIN s2c[k] = 1..Len(s2c[k]) /\ DOMAIN <<cl[c].req>> = {1} /\ <<cl[c].req>>[1] = cl[c].req
      BY <2>1, LenProperties
    <3>3. InOrder(s2c[k], <<cl[c].req>>)
      BY <2>1, <3>1, <3>2 DEF InOrder, PartsBefore
    <3> QED
      BY <1>1, <2>1, <2>5, <3>3
  <2> QED
    BY <2>1, <2>3, <2>4, <2>5, ClientWires
<1>3. \A k \in Conns : PartsTo(s2c'[k], reqs')
  <2> SUFFICES ASSUME NEW k \in Conns, NEW i \in 1..Len(s2c'[k]) PROVE s2c'[k][i][1] <= reqs'
    BY DEF PartsTo
  <2>1. s2c'[k][i][1] <= reqs /\ s2c'[k][i] \in Parts
    BY <1>2 DEF PartsTo, IPoolExact, NetTypes
  <2> QED
    BY <1>1, <2>1 DEF Parts
<1>4. \A k \in Conns : c2s'[k] = <<>> \/ \E r \in Nat : r <= reqs' /\ c2s'[k] = <<r>>
  BY <1>1, <1>2
<1>5. ASSUME NEW d \in Clients, cl'[d].pc = "send"
      PROVE  PartsBefore(s2c'[cl'[d].conn], cl'[d].req)
  <2>1. PICK k \in Conns, r \in Nat : k = cl'[d].conn /\ r = cl'[d].req
    <3>1. cl'[d].conn # 0 /\ cl' \in [Clients -> Record]
      BY <1>5 DEF IPoolExact, PoolTypes, HasConn, Using
    <3>2. cl'[d].conn \in 0..MaxConns /\ cl'[d].req \in Nat
      BY <3>1 DEF Record
    <3>3. cl'[d].conn \in Conns
      BY <3>1, <3>2, ServerAssumption DEF Conns
    <3> QED
      BY <3>2, <3>3
  <2>2. CASE cl[d].pc = "send" /\ cl'[d].conn = cl[d].conn /\ cl'[d].req = cl[d].req
    <3>1. PartsBefore(s2c[k], r)
      BY <2>1, <2>2 DEF IOrder, Numbered
    <3> QED
      BY <1>2, <2>1, <3>1
  <2>3. CASE r > reqs
    <3> SUFFICES ASSUME NEW i \in 1..Len(s2c'[k]) PROVE s2c'[k][i][1] < r
      BY <2>1 DEF PartsBefore
    <3>1. s2c'[k][i][1] <= reqs /\ s2c'[k][i] \in Parts
      BY <1>2 DEF PartsTo, IPoolExact, NetTypes
    <3> QED
      BY <1>1, <2>3, <3>1 DEF Parts
  <2>4. CASE s2c[k] = <<>>
    <3>1. PartsBefore(s2c[k], r)
      BY <2>4 DEF PartsBefore
    <3> QED
      BY <1>2, <2>1, <3>1
  <2> QED
    BY <1>5, <2>1, <2>2, <2>3, <2>4, ClientNumbers
<1>6. Numbered'
  BY <1>3, <1>4, <1>5, ClientNumbers DEF Numbered
<1>7. WiresInOrder'
  BY <1>2 DEF WiresInOrder
<1> QED
  BY <1>6, <1>7 DEF IOrder

\* A connection carries the answers in the order of the requests, each once, and
\* none before its request (HttpSession::sendResponse and
\* HttpConnection::sendRequest on a connection that several clients use one
\* after the other, and that may still hold bodies nobody read).
THEOREM WiresInOrderCorrect == Spec => []WiresInOrder
<1>1. Init => IResponse /\ IOrder
  <2> SUFFICES ASSUME Init PROVE IOrder
    BY ResponseInit
  <2>1. \A k \in Conns : s2c[k] = <<>> /\ c2s[k] = <<>>
    BY DEF Init, ServerInit
  <2>2. \A c \in Clients : cl[c].req = 0 /\ cl[c].pc = "idle"
    BY DEF Init, IdleClient
  <2>3. reqs = 0
    BY DEF Init
  <2> QED
    BY <2>1, <2>2, <2>3 DEF IOrder, Numbered, WiresInOrder, InOrder, PartsTo
<1>2. IResponse /\ IOrder /\ [Next]_vars => IResponse' /\ IOrder'
  <2> SUFFICES ASSUME IResponse, IOrder, [Next]_vars PROVE IOrder'
    BY ResponseInductive
  <2>0. IPoolExact'
    BY ResponseInductive DEF IResponse
  <2>1. CASE ServerNext /\ UNCHANGED poolVars
    <3>1. UNCHANGED <<cl, reqs>> /\ reqs \in Nat /\ NetTypes
      BY <2>1 DEF poolVars, IResponse, IPoolExact, PoolTypes
    <3>2. \A k \in Conns : ServerMoves(k)
      BY <2>1, ServerStep DEF IResponse, IPoolExact
    <3>3. \A k \in Conns : /\ InOrder(s2c'[k], c2s'[k]) /\ PartsTo(s2c'[k], reqs)
                           /\ c2s'[k] = <<>> \/ \E r \in Nat : r <= reqs /\ c2s'[k] = <<r>>
                           /\ c2s[k] = <<>> => s2c'[k] = s2c[k]
      BY <3>1, <3>2, ServerOrder
    <3>4. ASSUME NEW c \in Clients
          PROVE  /\ cl[c].req <= reqs
                 /\ cl[c].pc = "send" => PartsBefore(s2c'[cl[c].conn], cl[c].req)
      <4>1. cl[c].pc = "send" => cl[c].conn \in Conns /\ c2s[cl[c].conn] = <<>>
        BY HasOne DEF IResponse, Exchange, ExchangeOf, Clean, Using
      <4> QED
        BY <3>3, <4>1 DEF IOrder, Numbered
    <3> QED
      BY <3>1, <3>3, <3>4 DEF IOrder, Numbered, WiresInOrder
  <2>2. ASSUME NEW c \in Clients, getConnection(c) \/ DoRequest(c) \/ RecvTimeout(c) \/ ClientStep(c)
        PROVE  IOrder'
    BY <2>0, <2>2, ClientOrder
  <2>3. CASE UNCHANGED vars
    BY <2>3 DEF vars, netVars, poolVars, IOrder, Numbered, WiresInOrder
  <2> QED
    BY <2>1, <2>2, <2>3 DEF Next
<1>3. IOrder => WiresInOrder
  BY DEF IOrder
<1> QED
  BY <1>1, <1>2, <1>3, PTL DEF Spec

=============================================================================
