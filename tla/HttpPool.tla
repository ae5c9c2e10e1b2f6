------------------------------ MODULE HttpPool ------------------------------
(***************************************************************************)
(* http/http_connection.cpp: clients that send requests over connections   *)
(* of an HttpConnectionPool, or over one of their own                      *)
(* (HttpConnection::DoRequest), to the server of HttpServer.               *)
(***************************************************************************)
EXTENDS HttpServer

CONSTANTS
    Clients,        \* fibers that make requests
    MaxRequests,    \* bound: requests that are ever made
    m_maxRequest,   \* requests a pooled connection serves
    m_maxAliveTime, \* life time of a pooled connection, ms
    Now             \* GetCurrentMS(), which stands still: nothing depends on its course

ASSUME PoolAssumption ==
    /\ IsFiniteSet(Clients) /\ MaxRequests \in Nat
    /\ m_maxRequest \in Nat /\ m_maxAliveTime \in Nat /\ Now \in Nat

VARIABLES
    m_conns,        \* connections in the pool
    m_total,        \* HttpConnectionPool::m_total
    m_request,      \* connection -> requests it served
    conns,          \* connections made so far
    objects,        \* HttpConnection objects of the pool that exist
    cl,             \* client -> its call in progress: [pc, conn, req, got, pooled]
    reqs            \* requests made so far

poolVars == <<m_conns, m_total, m_request, conns, objects, cl, reqs>>
vars == <<serverVars, netVars, poolVars>>

IdleClient == [pc |-> "idle", conn |-> 0, req |-> 0, got |-> 0, pooled |-> FALSE]
m_createTime == 0       \* no constructor or caller sets it

Init ==
    /\ ServerInit
    /\ m_conns = <<>> /\ m_total = 0
    /\ m_request = [k \in Conns |-> 0]
    /\ conns = 0 /\ objects = {}
    /\ cl = [c \in Clients |-> IdleClient]
    /\ reqs = 0

-----------------------------------------------------------------------------
(* The pool *)

Usable(k) == cli[k] /\ ~(m_createTime + m_maxAliveTime > Now)
First == CHOOSE i \in 1..Len(m_conns) : Usable(m_conns[i]) /\ \A j \in 1..i-1 : ~Usable(m_conns[j])
Close(ks) ==    \* what did not arrive yet is lost
    /\ cli' = [k \in Conns |-> cli[k] /\ k \notin ks]
    /\ s2c' = [k \in Conns |-> IF k \in ks THEN <<>> ELSE s2c[k]]
Delete(ks) ==   \* ~SocketStream closes the socket
    /\ Close(ks)
    /\ objects' = objects \ ks

\* getConnection: the first usable connection; those before it are deleted.
getConnection(c) ==
    LET some == \E i \in 1..Len(m_conns) : Usable(m_conns[i])
        n == IF some THEN First ELSE Len(m_conns)
        invalid == {m_conns[i] : i \in {j \in 1..n : ~Usable(m_conns[j])}}
    IN  /\ cl[c].pc = "idle" /\ reqs < MaxRequests
        /\ reqs' = reqs + 1
        /\ m_conns' = SubSeq(m_conns, n + 1, Len(m_conns))
        /\ m_total' = m_total - Cardinality(invalid)
        /\ Delete(invalid)
        /\ cl' = [cl EXCEPT ![c] = [pc |-> IF some THEN "send" ELSE "connect", req |-> reqs', got |-> 0,
                                    conn |-> IF some THEN m_conns[n] ELSE 0, pooled |-> TRUE]]
        /\ UNCHANGED <<serverVars, sess, c2s, m_request, conns>>

\* HttpConnection::DoRequest: a connection of its own.
DoRequest(c) ==
    /\ cl[c].pc = "idle" /\ reqs < MaxRequests
    /\ reqs' = reqs + 1
    /\ cl' = [cl EXCEPT ![c] = [IdleClient EXCEPT !.pc = "connect", !.req = reqs']]
    /\ UNCHANGED <<serverVars, netVars, m_conns, m_total, m_request, conns, objects>>

\* Socket::connect
Connect(c) ==
    /\ cl[c].pc = "connect" /\ listening # {} /\ conns < MaxConns
    /\ conns' = conns + 1
    /\ cli' = [cli EXCEPT ![conns'] = TRUE]
    /\ sess' = [sess EXCEPT ![conns'] = "backlog"]
    /\ backlog' = Append(backlog, conns')
    /\ cl' = [cl EXCEPT ![c].pc = "send", ![c].conn = conns']
    /\ objects' = IF cl[c].pooled THEN objects \cup {conns'} ELSE objects
    /\ m_total' = IF cl[c].pooled THEN m_total + 1 ELSE m_total
    /\ UNCHANGED <<m_isStop, m_socks, listening, binds, loops, jobs, stops, c2s, s2c, m_conns, m_request, reqs>>
\* SSLSocket::connect: the handshake fails, the server sees the connection close.
HandshakeFails(c) ==
    /\ cl[c].pc = "connect" /\ listening # {} /\ conns < MaxConns
    /\ conns' = conns + 1
    /\ sess' = [sess EXCEPT ![conns'] = "backlog"]
    /\ backlog' = Append(backlog, conns')
    /\ cl' = [cl EXCEPT ![c] = IdleClient]
    /\ UNCHANGED <<m_isStop, m_socks, listening, binds, loops, jobs, stops, c2s, s2c, cli,
                   m_conns, m_total, m_request, objects, reqs>>
\* Nobody listens, or the connect fails or times out.
ConnectFails(c) ==
    /\ cl[c].pc = "connect"
    /\ cl' = [cl EXCEPT ![c] = IdleClient]
    /\ UNCHANGED <<serverVars, netVars, m_conns, m_total, m_request, conns, objects, reqs>>

ReleasePtr_AlwaysKeeps(k) ==
    /\ m_request' = [m_request EXCEPT ![k] = @ + 1]
    /\ m_conns' = Append(m_conns, k)
    /\ UNCHANGED <<m_total, objects, cli, s2c>>
\* ReleasePtr: a connection that is not kept is deleted, its request count with it.
ReleasePtr(k) ==
    LET drop == \/ ~cli[k]
                \/ m_createTime + m_maxAliveTime >= Now
                \/ m_request[k] + 1 >= m_maxRequest
    IN  /\ m_request' = [m_request EXCEPT ![k] = IF drop THEN 0 ELSE @ + 1]
        /\ IF drop THEN /\ m_total' = m_total - 1 /\ Delete({k})
                        /\ UNCHANGED m_conns
           ELSE m_conns' = Append(m_conns, k) /\ UNCHANGED <<m_total, objects, cli, s2c>>

\* doRequest returns: the shared pointer of the connection is released.
Return(c) ==
    /\ cl[c].pc = "release"
    /\ cl' = [cl EXCEPT ![c] = IdleClient]
    /\ IF cl[c].pooled THEN ReleasePtr(cl[c].conn)
       ELSE Delete({cl[c].conn}) /\ UNCHANGED <<m_request, m_conns, m_total>>
    /\ UNCHANGED <<serverVars, sess, c2s, conns, reqs>>

-----------------------------------------------------------------------------
(* The connection *)

\* Socket::send.  To a peer that closed, the first bytes may still be accepted.
Send(k, r) == c2s' = IF sess[k] = "closed" THEN c2s ELSE [c2s EXCEPT ![k] = Append(@, r)]
\* sendRequest
SendRequest(c) ==
    LET k == cl[c].conn
    IN  /\ cl[c].pc = "send"
        /\ Send(k, cl[c].req)
        /\ cl' = [cl EXCEPT ![c].pc = "recv"]
        /\ UNCHANGED <<serverVars, sess, s2c, cli, m_conns, m_total, m_request, conns, objects, reqs>>
\* The error is returned; the connection is not closed.
SendFails(c) ==
    /\ cl[c].pc = "send" /\ sess[cl[c].conn] = "closed"
    /\ cl' = [cl EXCEPT ![c].pc = "release"]
    /\ UNCHANGED <<serverVars, netVars, m_conns, m_total, m_request, conns, objects, reqs>>

Arrived(c) == s2c[cl[c].conn] # <<>>
Part(c) == Head(s2c[cl[c].conn])
Take(c, n) == s2c' = [s2c EXCEPT ![cl[c].conn] = SubSeq(@, n + 1, Len(@))]

\* recvResponse: what is made of a head that arrives in some reads.
LongHeadOutcomes == {ResponseOutcome(TRUE, cuts) : cuts \in CutsOf(Bytes(ResponseHead(TRUE)))}
BareHeadOutcomes == {ResponseOutcome(FALSE, cuts) : cuts \in CutsOf(Bytes(ResponseHead(FALSE)))}
HeadOutcomes(part) ==
    CASE part = "head" -> LongHeadOutcomes [] part = "bare" -> BareHeadOutcomes [] part = "body" -> {"error"}
\* The head: a body follows, or none.
RecvHead(c) ==
    /\ cl[c].pc = "recv" /\ Arrived(c)
    /\ \/ "length" \in HeadOutcomes(Part(c)[2]) /\ cl' = [cl EXCEPT ![c].pc = "body", ![c].got = Part(c)[1]]
       \/ Part(c)[2] = "bare" /\ cl' = [cl EXCEPT ![c].pc = "release", ![c].got = Part(c)[1]]
    /\ Take(c, 1)
    /\ UNCHANGED <<serverVars, sess, c2s, cli, m_conns, m_total, m_request, conns, objects, reqs>>
\* The content-length was lost: of the body only what came with the head's last
\* read is taken, and dropped.
RecvHeadPieces(c) ==
    /\ cl[c].pc = "recv" /\ Arrived(c) /\ Part(c)[2] = "head" /\ "none" \in HeadOutcomes("head")
    /\ cl' = [cl EXCEPT ![c].pc = "release", ![c].got = Part(c)[1]]
    /\ \E offset \in 0..1 : Take(c, 1 + BodyTaken(0, offset))
    /\ UNCHANGED <<serverVars, sess, c2s, cli, m_conns, m_total, m_request, conns, objects, reqs>>
\* The body: readFixSize.
RecvBody(c) ==
    /\ cl[c].pc = "body" /\ Arrived(c) /\ Part(c)[2] = "body"
    /\ Take(c, 1)
    /\ cl' = [cl EXCEPT ![c].pc = "release"]
    /\ UNCHANGED <<serverVars, sess, c2s, cli, m_conns, m_total, m_request, conns, objects, reqs>>

\* A read that fails, or gives what is no response: close() and no result.
Fail_KeepsOpen(c) ==
    /\ cl' = [cl EXCEPT ![c].pc = "release", ![c].got = 0]
    /\ UNCHANGED <<cli, s2c>>
Fail(c) ==
    /\ cl' = [cl EXCEPT ![c].pc = "release", ![c].got = 0]
    /\ Close({cl[c].conn})
RecvGarbage(c) ==
    /\ cl[c].pc = "recv" /\ Arrived(c) /\ "error" \in HeadOutcomes(Part(c)[2])
    /\ Fail(c)
    /\ UNCHANGED <<serverVars, sess, c2s, m_conns, m_total, m_request, conns, objects, reqs>>
RecvClosed_IsNoError(c) ==
    /\ cl[c].pc \in {"recv", "body"} /\ sess[cl[c].conn] = "closed"
    /\ UNCHANGED vars
\* The peer closed, and what it sent before was read or is lost.
RecvClosed(c) ==
    /\ cl[c].pc \in {"recv", "body"} /\ sess[cl[c].conn] = "closed"
    /\ Fail(c)
    /\ UNCHANGED <<serverVars, sess, c2s, m_conns, m_total, m_request, conns, objects, reqs>>
\* SO_RCVTIMEO
RecvTimeout(c) ==
    /\ cl[c].pc \in {"recv", "body"}
    /\ Fail(c)
    /\ UNCHANGED <<serverVars, sess, c2s, m_conns, m_total, m_request, conns, objects, reqs>>

ClientStep(c) ==
    \/ Connect(c) \/ HandshakeFails(c) \/ ConnectFails(c) \/ SendRequest(c) \/ SendFails(c)
    \/ RecvHead(c) \/ RecvHeadPieces(c) \/ RecvBody(c) \/ RecvGarbage(c) \/ RecvClosed(c) \/ Return(c)
Next ==
    \/ ServerNext /\ UNCHANGED poolVars
    \/ \E c \in Clients :
          \/ getConnection(c) \/ DoRequest(c) \/ RecvTimeout(c) \/ ClientStep(c)

\* No timeout is assumed to fire: a request may have been made without one.
Fairness ==
    /\ ServerFairness
    /\ \A c \in Clients : WF_vars(ClientStep(c))
Spec == Init /\ [][Next]_vars /\ Fairness

-----------------------------------------------------------------------------
(* Properties *)

\* A response is the answer to the request of the client that gets it, although
\* connections are shared one after the other, responses come late, bodies stay
\* unread and requests are given up.
OwnResponse == \A c \in Clients : cl[c].got # 0 => cl[c].got = cl[c].req

\* Messages mean at one end what they meant at the other.  However heads are cut
\* into reads, a header is given with the value it was sent with, and chunks
\* whose headers are in one piece are the body; a handler gets the parameters
\* that were sent, and is the one that was registered for the path; and a
\* connection carries the answers in the order of the requests, each once.
InOrder(sent, waiting) ==
    \A i \in DOMAIN sent :
        /\ \A j \in DOMAIN waiting : sent[i][1] < waiting[j]
        /\ \A j \in 1..i-1 : sent[j][1] < sent[i][1] \/ (sent[j][2] = "head" /\ sent[i] = <<sent[j][1], "body">>)
WiresInOrder == \A k \in Conns : InOrder(s2c[k], c2s[k])
MessagesExact == HeadsInPieces /\ ChunksInPieces /\ ParamsExact /\ DispatchExact /\ WiresInOrder

\* Every connection of the pool is in m_conns once, or used by one client, and
\* m_total counts them.  One in m_conns counts as connected and has requests
\* left, so that the checks of getConnection, which ask m_isConnected and a
\* life time that began in 1970, drop nothing.
InUse == {cl[c].conn : c \in {d \in Clients : cl[d].pooled /\ cl[d].conn # 0}}
PoolExact ==
    /\ m_total = Cardinality(objects)
    /\ objects = InUse \cup {m_conns[i] : i \in 1..Len(m_conns)}
    /\ Cardinality(objects) = Len(m_conns) + Cardinality({d \in Clients : cl[d].pooled /\ cl[d].conn # 0})
    /\ \A i \in 1..Len(m_conns) : Usable(m_conns[i]) /\ m_request[m_conns[i]] < m_maxRequest

\* Every request returns (a client is idle again and again), with a response or
\* an error, although no timeout is assumed: only a socket that listens and has
\* no accept loop (start() was not called, found no socket, or took the server
\* for running) keeps a client.
Unserved == \E s \in listening : ~Referred(s)
RequestsReturn == \A c \in Clients : []<>(cl[c].pc = "idle" \/ Unserved)

\* A server that is stopped for good ends its accept loops, except one whose
\* socket a failed bind() dropped from m_socks: the closing job misses it.
AcceptLoopsEnd ==
    <>[]m_isStop => <>[](\A l \in Loops : \/ loops[l].pc \in {"none", "end"}
                                          \/ loops[l].sock \in listening \ m_socks)
=============================================================================
