---------------------------- MODULE MCVMBinding -----------------------------
(* VMBinding for TLC: one user; symmetry serves the runs without liveness. *)
EXTENDS VMBinding, TLC

Symmetry == Permutations(Messages) \cup Permutations(Addresses)
=============================================================================
