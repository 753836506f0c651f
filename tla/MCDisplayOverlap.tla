--------------------------- MODULE MCDisplayOverlap --------------------------
(***************************************************************************)
(* Model checking of DisplayOverlap.  Configurations and upstream values   *)
(* play the same part, so that it is enough to start with one of each.     *)
(* (They are no symmetry set: the run has a liveness property.)            *)
(***************************************************************************)
EXTENDS DisplayOverlap

MCInit ==
    /\ OverlapInit
    /\ instance.conf = CHOOSE c \in Confs : TRUE
    /\ source = CHOOSE v \in Values : TRUE

MCFairSpec == MCInit /\ [][Next /\ Remember]_<<vars, history>> /\ Fairness
=============================================================================
