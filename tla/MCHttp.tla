------------------------------- MODULE MCHttp -------------------------------
(***************************************************************************)
(* Two fibers make two requests over a pool whose connections serve two    *)
(* requests each, while the server is bound, started and stopped.          *)
(***************************************************************************)
EXTENDS HttpPool
=============================================================================
