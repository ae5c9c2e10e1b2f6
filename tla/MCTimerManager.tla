--------------------------- MODULE MCTimerManager ---------------------------
(* Model checking of TimerManager. *)
EXTENDS TimerManager, TLC

Symmetry == Permutations(Timers) \cup Permutations(Threads)
=============================================================================
