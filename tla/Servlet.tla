------------------------------ MODULE Servlet ------------------------------
(***************************************************************************)
(* http/servlet.cpp: which servlet answers a path.  Servlets are named by  *)
(* the call that added them; every operation is one critical section of    *)
(* m_mutex, so any interleaving of threads is a sequence of calls.         *)
(***************************************************************************)
EXTENDS Integers, Sequences, SequencesExt, FiniteSetsExt

\* fnmatch over the paths and patterns used here.
Paths == {"/a/x", "/b"}
Globs == {"/a/*", "/*"}
Fnmatch(pattern, path) == pattern = "/*" \/ path = "/a/x"

NotFound == 0
\* ServletDispatch::ServletDispatch
NewDispatch == [m_datas |-> [u \in {} |-> 0], m_globs |-> <<>>, m_default |-> NotFound]

\* addServlet, addServletCreator: m_datas[uri] = slt.
addServlet(d, uri, slt) ==
    [d EXCEPT !.m_datas = [u \in DOMAIN @ \cup {uri} |-> IF u = uri THEN slt ELSE @[u]]]
delServlet(d, uri) == [d EXCEPT !.m_datas = [u \in DOMAIN @ \ {uri} |-> @[u]]]

\* The loop that erases the first entry of the pattern.
EraseGlob(globs, uri) ==
    LET at == {i \in DOMAIN globs : globs[i][1] = uri}
    IN  IF at = {} THEN globs ELSE RemoveAt(globs, Min(at))
addGlobServlet(d, uri, slt) == [d EXCEPT !.m_globs = Append(EraseGlob(@, uri), <<uri, slt>>)]
delGlobServlet(d, uri) == [d EXCEPT !.m_globs = EraseGlob(@, uri)]

getMatchedServlet(d, uri) ==
    LET matching == {i \in DOMAIN d.m_globs : Fnmatch(d.m_globs[i][1], uri)}
    IN  CASE uri \in DOMAIN d.m_datas -> d.m_datas[uri]
          [] uri \notin DOMAIN d.m_datas /\ matching # {} -> d.m_globs[Min(matching)][2]
          [] OTHER -> d.m_default

-----------------------------------------------------------------------------
Registrations == {<<"add", p>> : p \in Paths} \cup {<<"del", p>> : p \in Paths}
    \cup {<<"addGlob", g>> : g \in Globs} \cup {<<"delGlob", g>> : g \in Globs}
Register(d, call, i) ==
    CASE call[1] = "add"     -> addServlet(d, call[2], i)
      [] call[1] = "del"     -> delServlet(d, call[2])
      [] call[1] = "addGlob" -> addGlobServlet(d, call[2], i)
      [] call[1] = "delGlob" -> delGlobServlet(d, call[2])

\* After any calls, a path is answered by the servlet that was last added for
\* it; if it was deleted since, by the pattern that matches and has been there
\* longest, where adding a pattern again makes it the newest; else by none.
DispatchExact ==
    \A calls \in UNION {[1..n -> Registrations] : n \in 0..4} :
        LET numbered == [i \in DOMAIN calls |-> <<calls[i], i>>]
            d == FoldLeft(LAMBDA acc, x : Register(acc, x[1], x[2]), NewDispatch, numbered)
            last(what, u) == Max({0} \cup {i \in DOMAIN calls : calls[i] = <<what, u>>})
            globs(p) == {last("addGlob", g) : g \in {h \in Globs : Fnmatch(h, p) /\ last("addGlob", h) > last("delGlob", h)}}
        IN  \A p \in Paths :
              getMatchedServlet(d, p) =
                IF last("add", p) > last("del", p) THEN last("add", p)
                ELSE IF globs(p) # {} THEN Min(globs(p)) ELSE NotFound
=============================================================================
