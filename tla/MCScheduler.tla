---------------------------- MODULE MCScheduler ----------------------------
(* Model checking of Scheduler: threads, jobs and fibers are model values.  *)
EXTENDS Scheduler
=============================================================================
