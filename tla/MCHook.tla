------------------------------- MODULE MCHook -------------------------------
(* Model checking of Hook. *)
EXTENDS Hook, TLC

Symmetry == Permutations(Fibers)
=============================================================================
