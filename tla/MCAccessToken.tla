--------------------------- MODULE MCAccessToken ----------------------------
(* AccessToken for TLC; symmetry serves the runs without liveness. *)
EXTENDS AccessToken, TLC

Symmetry == Permutations(Senders)
=============================================================================
