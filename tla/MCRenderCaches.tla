---------------------------- MODULE MCRenderCaches ----------------------------
(* Two screens on one instance, two overlapping renders.                   *)
EXTENDS RenderCaches, TLC

Symmetry == Permutations(Screens) \cup Permutations(Requests)
=============================================================================
