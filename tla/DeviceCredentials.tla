-------------------------- MODULE DeviceCredentials --------------------------
(***************************************************************************)
(* What provisioning promises about credentials, with no versions, no      *)
(* sessions and no requests: a device has one secret at a time, a token is *)
(* bought with the secret of the moment, and the tokens the server accepts *)
(* are exactly those bought with the secret the device has now, while the  *)
(* device is not revoked.                                                  *)
(***************************************************************************)
EXTENDS Naturals

CONSTANTS Devices, Secrets   \* 0 is no secret

VARIABLES
    cred,      \* cred[d]: the device's current secret, and is it usable
    granted,   \* tokens the server has committed itself to
    accepted   \* those it would let through now

NoCred == [secret |-> 0, live |-> FALSE]

Init ==
    /\ cred = [d \in Devices |-> NoCred]
    /\ granted = {}
    /\ accepted = {}

\* The promise: nothing but the current secret of a live device counts.
Check == accepted' = {t \in granted' : cred'[t.dev].live /\ cred'[t.dev].secret = t.secret}

Fresh(k) == (\A d \in Devices : cred[d].secret # k) /\ (\A t \in granted : t.secret # k)

\* d gets a secret never seen before; a claim also puts it (back) in service
\* and takes some others out of service.
Renew(d, k, live, others) ==
    /\ Fresh(k)
    /\ cred' = [e \in Devices |->
                  IF e = d THEN [secret |-> k, live |-> live]
                  ELSE IF e \in others THEN [secret |-> cred[e].secret, live |-> FALSE]
                  ELSE cred[e]]
    /\ UNCHANGED granted

Revoke(d) ==
    /\ cred' = [cred EXCEPT ![d].live = FALSE]
    /\ UNCHANGED granted

Grant(d) ==
    /\ cred[d].live
    /\ granted' = granted \cup {[dev |-> d, secret |-> cred[d].secret]}
    /\ UNCHANGED cred

\* Tokens granted may never reach the device.
Lose(lost) ==
    /\ granted' = granted \ lost
    /\ UNCHANGED cred

Next ==
    /\ \/ \E d \in Devices, k \in Secrets, live \in BOOLEAN, others \in SUBSET Devices :
             Renew(d, k, live, others)
       \/ \E d \in Devices : Revoke(d) \/ Grant(d)
       \/ \E lost \in SUBSET granted : Lose(lost)
    /\ Check

Spec == Init /\ [][Next]_<<cred, granted, accepted>>
=============================================================================
