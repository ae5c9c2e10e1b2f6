---------------------------- MODULE MCIOManager ----------------------------
(* Model checking of IOManager. *)
EXTENDS IOManager, TLC

Symmetry == Permutations(Fds) \cup Permutations(Threads) \cup Permutations(Waiters)
=============================================================================
