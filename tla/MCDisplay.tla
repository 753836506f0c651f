------------------------------ MODULE MCDisplay ------------------------------
(* Model checking of Display: symmetry sets for its configurations.        *)
EXTENDS Display, TLC

Symmetry == Permutations(Requests) \cup Permutations(Slots) \cup Permutations(Confs)
              \cup Permutations(Zones) \cup Permutations(Palettes) \cup Permutations(Values)
=============================================================================
