---------------------------- MODULE MCUserSession ----------------------------
(* Model checking of UserSession: the symmetry of its configurations.      *)
EXTENDS UserSession, TLC

Symmetry == Permutations(Requests)
=============================================================================
