----------------------------- MODULE MCIdleLoop -----------------------------
(* Model checking of IdleLoop: threads and jobs are model values.            *)
EXTENDS IdleLoop
=============================================================================
