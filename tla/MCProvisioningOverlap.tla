------------------------ MODULE MCProvisioningOverlap ------------------------
(* Model checking of ProvisioningOverlap: the symmetry of its instance.    *)
EXTENDS ProvisioningOverlap, TLC

Symmetry == Permutations(Requests) \cup Permutations(Sessions) \cup Permutations(Users)
=============================================================================
