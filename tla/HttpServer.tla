----------------------------- MODULE HttpServer -----------------------------
(***************************************************************************)
(* sylar/tcp_server.cpp, http/http_server.cpp, http/http_session.cpp: a    *)
(* server with one address.  bind() makes a listening socket, start()      *)
(* schedules one accept loop for it, stop() schedules the job that closes  *)
(* it; every accepted connection is served by a job of its own.  What      *)
(* travels on a connection is a sequence of requests one way and of heads  *)
(* and bodies of responses the other.                                      *)
(***************************************************************************)
EXTENDS HttpParser, HttpMessage, Servlet, FiniteSets

CONSTANTS
    MaxConns,       \* bound: connections that are ever made
    MaxBinds,       \* bound: listening sockets that are ever made
    MaxStarts,      \* bound: calls of start() that start something
    MaxStops        \* bound: calls of stop()

ASSUME ServerAssumption == MaxConns \in Nat

Conns == 1..MaxConns
Socks == 1..MaxBinds
Loops == 1..MaxStarts

VARIABLES
    m_isStop,       \* TcpServer::m_isStop
    m_socks,        \* TcpServer::m_socks
    listening,      \* sockets that listen: neither closed nor destroyed
    binds,          \* listening sockets made so far
    loops,          \* accept loop -> [pc, sock]
    jobs,           \* closing jobs that stop() scheduled and that did not run yet
    stops,          \* calls of stop()
    backlog,        \* connections the kernel completed and nobody accepted
    sess,           \* connection -> what the server does with it
    c2s, s2c,       \* connection -> what is on the way to the server, to the client
    cli             \* connection -> m_isConnected of the client's socket

serverVars == <<m_isStop, m_socks, listening, binds, loops, jobs, stops, backlog>>
netVars == <<sess, c2s, s2c, cli>>

ServerInit ==
    /\ m_isStop = TRUE
    /\ m_socks = {} /\ listening = {} /\ binds = 0
    /\ loops = [l \in Loops |-> [pc |-> "none", sock |-> 0]]
    /\ jobs = 0 /\ stops = 0
    /\ backlog = <<>>
    /\ sess = [k \in Conns |-> "none"]
    /\ c2s = [k \in Conns |-> <<>>]
    /\ s2c = [k \in Conns |-> <<>>]
    /\ cli = [k \in Conns |-> FALSE]

-----------------------------------------------------------------------------
(* TcpServer *)

\* Socket::bind and listen: the address is free.
CanBind == listening = {}

\* bind(addrs, fails): a failure of bind() or listen() clears m_socks, earlier
\* sockets included, and a socket nobody refers to is closed.
Referred(s) == \E l \in Loops : loops[l].sock = s /\ loops[l].pc \in {"check", "accept"}
Pending == {backlog[i] : i \in 1..Len(backlog)}
ResetIfClosed ==
    IF listening' = {}
    THEN /\ backlog' = <<>>
         /\ sess' = [k \in Conns |-> IF k \in Pending THEN "closed" ELSE sess[k]]
         /\ c2s' = [k \in Conns |-> IF k \in Pending THEN <<>> ELSE c2s[k]]
    ELSE UNCHANGED <<backlog, sess, c2s>>
Bind ==
    /\ binds < MaxBinds /\ CanBind
    /\ binds' = binds + 1
    /\ m_socks' = m_socks \cup {binds'}
    /\ listening' = {binds'}
    /\ UNCHANGED <<m_isStop, loops, jobs, stops, backlog, netVars>>
BindFails ==
    /\ m_socks # {}
    /\ m_socks' = {}
    /\ listening' = {s \in listening : Referred(s)}
    /\ ResetIfClosed
    /\ UNCHANGED <<m_isStop, binds, loops, jobs, stops, s2c, cli>>

\* start(): one accept loop per socket.
Start ==
    /\ m_isStop
    /\ m_isStop' = FALSE
    /\ \E l \in Loops :
          /\ loops[l].pc = "none" /\ \A i \in 1..l-1 : loops[i].pc # "none"
          /\ loops' = IF m_socks = {} THEN loops
                      ELSE [loops EXCEPT ![l] = [pc |-> "check", sock |-> CHOOSE s \in m_socks : TRUE]]
    /\ UNCHANGED <<m_socks, listening, binds, jobs, stops, backlog, netVars>>

\* stop()
Stop ==
    /\ stops < MaxStops
    /\ m_isStop' = TRUE
    /\ jobs' = jobs + 1
    /\ stops' = stops + 1
    /\ UNCHANGED <<m_socks, listening, binds, loops, backlog, netVars>>
\* Socket::cancelAll wakes the accept that waits, close ends the listening.
CancelAndClose(socks) == listening' = listening \ socks
\* The closing job: cancelAll, close, m_socks.clear().  The kernel resets the
\* connections that were not accepted.
StopJob ==
    /\ jobs > 0
    /\ jobs' = jobs - 1
    /\ CancelAndClose(m_socks)
    /\ m_socks' = {}
    /\ ResetIfClosed
    /\ UNCHANGED <<m_isStop, binds, loops, stops, s2c, cli>>

\* startAccept(sock): while(!m_isStop) accept().
LoopCheck(l) ==
    /\ loops[l].pc = "check"
    /\ loops' = [loops EXCEPT ![l].pc = IF m_isStop THEN "end" ELSE "accept"]
    /\ UNCHANGED <<m_isStop, m_socks, listening, binds, jobs, stops, backlog, netVars>>
\* Socket::accept and init make the client's socket.  SSLSocket::init may fail in
\* the handshake, and the socket is closed again.
Accept(ok) ==
    /\ backlog' = Tail(backlog)
    /\ sess' = [sess EXCEPT ![Head(backlog)] = IF ok THEN "recv" ELSE "closed"]
    /\ c2s' = IF ok THEN c2s ELSE [c2s EXCEPT ![Head(backlog)] = <<>>]
LoopAccept_OnlyClients(l) ==
    /\ loops[l].pc = "accept" /\ loops[l].sock \in listening /\ backlog # <<>>
    /\ loops' = [loops EXCEPT ![l].pc = "check"]
    /\ Accept(TRUE)
    /\ UNCHANGED <<m_isStop, m_socks, listening, binds, jobs, stops, s2c, cli>>
\* accept() gives a client, whose handleClient is scheduled, or fails on a
\* socket that was closed.
LoopAccept(l) ==
    /\ loops[l].pc = "accept"
    /\ loops[l].sock \in listening => backlog # <<>>
    /\ loops' = [loops EXCEPT ![l].pc = "check"]
    /\ IF loops[l].sock \in listening THEN \E ok \in BOOLEAN : Accept(ok) ELSE UNCHANGED <<backlog, sess, c2s>>
    /\ UNCHANGED <<m_isStop, m_socks, listening, binds, jobs, stops, s2c, cli>>

-----------------------------------------------------------------------------
(* HttpServer::handleClient *)

\* recvRequest takes a request that arrived in some reads, and HttpRequest::init
\* decides whether the response is the last one, unless the server keeps no
\* connections.
RequestOutcomes == {RequestOutcome(cuts) : cuts \in CutsOf(Bytes(PoolRequest))}
RecvRequest(k) ==
    /\ sess[k] = "recv" /\ c2s[k] # <<>>
    /\ \E outcome \in RequestOutcomes \ {"error"} :
          sess' = [sess EXCEPT ![k] = IF outcome = "keep" THEN "respond" ELSE "respond_close"]
    /\ UNCHANGED <<serverVars, c2s, s2c, cli>>
\* The client closed, the read timed out, or the request is taken for an error.
RecvFails(k) ==
    /\ sess[k] = "recv"
    /\ sess' = [sess EXCEPT ![k] = "closed"]
    /\ c2s' = [c2s EXCEPT ![k] = <<>>]
    /\ UNCHANGED <<serverVars, s2c, cli>>

\* sendResponse, whose result nobody reads.  handleClient itself sends no body
\* (the call of the dispatcher is commented out); the clients are written for
\* servers that send one, and both are on the way to them here.
Response(r, body) == IF body THEN << <<r, "head">>, <<r, "body">> >> ELSE << <<r, "bare">> >>
SendResponse(k, body) ==
    /\ sess[k] \in {"respond", "respond_close"}
    /\ c2s' = [c2s EXCEPT ![k] = IF sess[k] = "respond" THEN Tail(@) ELSE <<>>]
    /\ s2c' = IF cli[k] THEN [s2c EXCEPT ![k] = @ \o Response(Head(c2s[k]), body)] ELSE s2c
    /\ sess' = [sess EXCEPT ![k] = IF @ = "respond" THEN "recv" ELSE "closed"]
    /\ UNCHANGED <<serverVars, cli>>

Session(k) ==
    \/ RecvRequest(k) \/ RecvFails(k)
    \/ \E body \in BOOLEAN : SendResponse(k, body)
ServerNext ==
    \/ Bind \/ BindFails \/ Start \/ Stop \/ StopJob
    \/ \E l \in Loops : LoopCheck(l) \/ LoopAccept(l)
    \/ \E k \in Conns : Session(k)

\* Jobs and fibers that can run are run; whether a read is in one piece, times
\* out or the program calls start or stop is open.
ServerFairness ==
    /\ WF_<<serverVars, netVars>>(StopJob)
    /\ \A l \in Loops : WF_<<serverVars, netVars>>(LoopCheck(l) \/ LoopAccept(l))
    /\ \A k \in Conns : WF_<<serverVars, netVars>>(RecvRequest(k) \/ SendResponse(k, FALSE))
=============================================================================
