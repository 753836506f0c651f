-------------------------- MODULE InstalledVersions --------------------------
(***************************************************************************)
(* What the plugin store promises to those who run a plugin, with no       *)
(* requests, no files and no transactions: a version that is ready has     *)
(* what was published, and stays ready until the plugin is withdrawn with  *)
(* all its versions; a version that is not may be hurt, and mends only by  *)
(* what it was published with.                                             *)
(***************************************************************************)
CONSTANTS Versions, Contents, Nil

VARIABLES
    published,  \* what each version was published with, Nil when it is not
    ready,      \* versions whose files are in place
    hurt        \* versions nobody vouches for

Published == {v \in Versions : published[v] # Nil}

Init ==
    /\ published = [v \in Versions |-> Nil]
    /\ ready = {} /\ hurt = {}

\* A version that lands in a removal is hurt from the start.
Publish(v, content) ==
    /\ published[v] = Nil
    /\ published' = [published EXCEPT ![v] = content]
    /\ hurt' \in {hurt, hurt \cup {v}}
    /\ UNCHANGED ready

Complete(v) ==
    /\ v \in Published \ (ready \cup hurt)
    /\ ready' = ready \cup {v}
    /\ UNCHANGED <<published, hurt>>

Mend(v) ==
    /\ v \in hurt
    /\ hurt' = hurt \ {v}
    /\ UNCHANGED <<published, ready>>

Withdraw ==
    /\ published' = [v \in Versions |-> Nil]
    /\ ready' = {} /\ hurt' = {}

\* The process ends: what is not ready is hurt.
Crash ==
    /\ hurt' = Published \ ready
    /\ UNCHANGED <<published, ready>>

Next ==
    \/ \E v \in Versions, content \in Contents : Publish(v, content)
    \/ \E v \in Versions : Complete(v) \/ Mend(v)
    \/ Withdraw \/ Crash

Spec == Init /\ [][Next]_<<published, ready, hurt>>
=============================================================================
