------------------------- MODULE ProvisioningOverlap -------------------------
(***************************************************************************)
(* Provisioning with a record of the overlaps its code leaves open, so     *)
(* that what a claim and a bootstrap promise can be stated of all          *)
(* interleavings: the promise is broken only by an overlap that has        *)
(* happened, and no longer than it lasts.  The history variables are read  *)
(* by nothing but the properties.                                          *)
(***************************************************************************)
EXTENDS Provisioning

VARIABLES
    bootstraps,   \* history: hardware of which bootstraps have crossed
    claims,       \* history: hardware whose claims or registrations have crossed
    overtaken     \* history: requests that will write a session used meanwhile

history == <<bootstraps, claims, overtaken>>

\* Bootstraps between their look for an open session and their transaction;
\* claims between their look for devices to revoke and their commit.
Bootstrapping(h) == {r \in Requests : req[r].at = "bootstrap" /\ req[r].hw = h}
Revoking(h) == {r \in Requests : req[r].at = "claimRevoke" /\ req[r].dev[2] = h}

AtMostOneOpen(h) == \A s, t \in OpenSessions(h) : s = t
AtMostOneLive(h) == \A d, e \in LiveDevices(h) : d = e

\* The session that r is going to write without another look at it.
Writes(r, s) ==
    \/ req[r].at = "bootstrap" /\ req[r].old = s
    \/ (InClaim(r) \/ req[r].at = "expire") /\ req[r].sess = s

\* In this step a bootstrap opens a session that others have not seen.
BootstrapsCross(h) == \E r \in Bootstrapping(h) : BootstrapTx(r) /\ Bootstrapping(h) # {r}

\* In this step a claim makes a device live that others will not revoke, or
\* the device comes by POST /devices, which revokes none.
ClaimsCross(h) ==
    \/ \E r \in Revoking(h) : ClaimCommit(r) /\ Revoking(h) # {r}
    \/ \E u \in Users : CreateDevice(<<u, h>>)

\* In this step the session that r is going to write becomes used.
Overtakes(r) ==
    \E s \in Sessions :
        Writes(r, s) /\ session[s].status # "used" /\ session'[s].status = "used"

\* A hardware is in order again when it has but one of them and no request
\* that looked before is under way; a request is forgotten when it ends.
Remember ==
    /\ bootstraps' = {h \in Hardware : /\ h \in bootstraps \/ BootstrapsCross(h)
                                       /\ AtMostOneOpen(h)' => Bootstrapping(h)' # {}}
    /\ claims' = {h \in Hardware : /\ h \in claims \/ ClaimsCross(h)
                                   /\ AtMostOneLive(h)' => Revoking(h)' # {}}
    /\ overtaken' = {r \in Requests : req'[r] # Idle /\ (r \in overtaken \/ Overtakes(r))}

OverlapInit == Init /\ bootstraps = {} /\ claims = {} /\ overtaken = {}

OverlapSpec == OverlapInit /\ [][Next /\ Remember]_<<vars, history>>

(***************************************************************************)
(* "The old device record will be revoked inside confirmClaim": a hardware *)
(* has two live devices only after POST /devices, or after a claim that    *)
(* another, which had picked the rows to revoke before, did not see.       *)
(***************************************************************************)
OneLiveDevice == \A h \in Hardware \ claims : Cardinality(LiveDevices(h)) <= 1

(***************************************************************************)
(* Bootstrapping again cancels the session that is still open: a hardware  *)
(* has two claim URLs that work only after a bootstrap committed between   *)
(* the look and the transaction of another.                                *)
(***************************************************************************)
OneOpenSession == \A h \in Hardware \ bootstraps : Cardinality(OpenSessions(h)) <= 1

(***************************************************************************)
(* A used session is final: no cancel, expiry or second confirm touches    *)
(* it, but for one that was under way when a claim used it.                *)
(***************************************************************************)
UsedIsFinal ==
    [][\A s \in Sessions : session[s].status = "used" /\ session'[s] # session[s]
          => \E r \in overtaken : Writes(r, s)]_<<vars, history>>
=============================================================================
