--------------------------- MODULE MCProvisioning ---------------------------
(* Model checking of Provisioning: states from which overlapping claims    *)
(* can wait on each other, and every other operation is still to come.     *)
EXTENDS Provisioning

\* Users, hardware and sessions are interchangeable: any choice will do.
order == CHOOSE f \in [Devices -> 1..Cardinality(Devices)] : \A d, e \in Devices : f[d] = f[e] => d = e
first == CHOOSE d \in Devices : order[d] = 1
Row(secret, version) == [secret |-> secret, version |-> version, live |-> TRUE, post |-> 0]

\* Reachable: everyone has registered everything with POST /devices, one device
\* has logged in, and all sessions have been bootstrapped.
AllRegistered ==
    /\ device = [d \in Devices |-> Row(order[d], 1)]
    /\ session = [s \in Sessions |-> NewSession(first[2])]
    /\ drawn = Cardinality(Devices)
    /\ tokens = {[dev |-> first, version |-> 1, secret |-> 1]}

\* Reachable: one device has been registered, its secret has been rotated until
\* one is left to draw, and all sessions but one have been bootstrapped.
OneRegistered ==
    /\ device = [d \in Devices |-> IF d = first THEN Row(MaxSecret - 1, MaxSecret - 1) ELSE NoDevice]
    /\ session = [t \in Sessions |->
                    IF t = CHOOSE s \in Sessions : TRUE THEN NoSession ELSE NewSession(first[2])]
    /\ drawn = MaxSecret - 1
    /\ tokens = {}

RegisteredInit ==
    /\ AllRegistered \/ OneRegistered
    /\ req = [r \in Requests |-> Idle]
    /\ shown = 1..drawn

RegisteredFairSpec == RegisteredInit /\ [][Next]_vars /\ Fairness
=============================================================================
