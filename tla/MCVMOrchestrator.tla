-------------------------- MODULE MCVMOrchestrator --------------------------
(* Model values and symmetry for TLC runs of VMOrchestrator. *)
EXTENDS VMOrchestrator, TLC

\* Requests are told apart by what they do, users by nothing.
Symmetry == Permutations(Users) \cup Permutations(Reqs)

=============================================================================
