------------------------- MODULE ProvisioningProofs -------------------------
(***************************************************************************)
(* Theorems of Provisioning, for every value of its constants.             *)
(***************************************************************************)
EXTENDS Provisioning, TLAPS

(***************************************************************************)
(* TypeOK is not inductive: a poll follows the link of a used session, a   *)
(* claim the hardware of a pending one, a login the secret of a live row,  *)
(* and a cancel, an expiry or a claim writes a session it has read before. *)
(***************************************************************************)
RowsOK ==
    \A d \in Devices :
        /\ device[d].live => Exists(d)
        /\ Exists(d) => device[d].secret \in Secrets

SessionsOK ==
    \A s \in Sessions :
        /\ session[s].status # "absent" => session[s].hw \in Hardware
        /\ session[s].status = "used" => session[s].dev \in Devices

\* A request that will write a session has found it.
Found(r) ==
    /\ (InClaim(r) \/ req[r].at = "expire") => session[req[r].sess].status # "absent"
    /\ (req[r].at = "bootstrap" /\ req[r].old # Nil) => session[req[r].old].status # "absent"

RequestsOK == \A r \in Requests : Found(r)

Shapes == TypeOK /\ RowsOK /\ SessionsOK
TypeInv == Shapes /\ RequestsOK

\* The record of a request in flight has the fields its next statement needs.
LEMMA RequestShape ==
    ASSUME NEW q \in Request
    PROVE  /\ q.at = "bootstrap" => q \in BootstrapReq
           /\ q.at \in {"claim", "claimScan"} => q \in ClaimReq
           /\ q.at = "claimRevoke" => q \in RevokingReq
           /\ q.at = "deliver" => q \in DeliverReq
           /\ q.at = "expire" => q \in ExpireReq
           /\ q.at = "login" => q \in LoginReq
BY DEF Request, Idle, BootstrapReq, ClaimReq, RevokingReq, DeliverReq, ExpireReq, LoginReq

\* Giving a request another record of the right kind keeps req well typed.
LEMMA RequestUpdate ==
    ASSUME req \in [Requests -> Request], NEW r \in Requests, NEW q \in Request,
           req' = [req EXCEPT ![r] = q]
    PROVE  req' \in [Requests -> Request]
OBVIOUS

LEMMA IdleIsRequest == Idle \in Request
BY DEF Request

LEMMA TypeInvInit == Init => TypeInv
<1> SUFFICES ASSUME Init PROVE TypeInv
  OBVIOUS
<1>1. TypeOK
  BY BoundAssumption DEF Init, TypeOK, NoDevice, DeviceRow, NoSession, SessionRow, Request
<1>2. RowsOK
  BY DEF Init, RowsOK, NoDevice, Exists
<1>3. SessionsOK
  BY DEF Init, SessionsOK, NoSession
<1>4. RequestsOK
  BY DEF Init, RequestsOK, Found, Idle, InClaim
<1> QED
  BY <1>1, <1>2, <1>3, <1>4 DEF TypeInv, Shapes

(***************************************************************************)
(* One step per action; the actions that only touch req keep RowsOK and    *)
(* SessionsOK because device and session are unchanged.                    *)
(***************************************************************************)
LEMMA ShapesStep == TypeInv /\ [Next]_vars => Shapes'
<1> SUFFICES ASSUME TypeInv, [Next]_vars PROVE Shapes'
  OBVIOUS
<1> USE BoundAssumption, IdleIsRequest
<1>1. ASSUME NEW r \in Requests, NEW h \in Hardware, BootstrapRead(r, h) PROVE Shapes'
  <2>1. PICK old \in Sessions \cup {Nil}, new \in Sessions :
           Start(r, [at |-> "bootstrap", old |-> old, new |-> new, hw |-> h])
    BY <1>1 DEF BootstrapRead, OpenSessions, FreeSessions
  <2>2. [at |-> "bootstrap", old |-> old, new |-> new, hw |-> h] \in Request
    BY DEF Request, BootstrapReq
  <2> QED
    BY <1>1, <2>1, <2>2 DEF BootstrapRead, Start, TypeInv, Shapes, TypeOK, RowsOK, SessionsOK, Exists
<1>2. ASSUME NEW r \in Requests, BootstrapTx(r) PROVE Shapes'
  <2>1. req[r] \in BootstrapReq
    BY <1>2, RequestShape DEF BootstrapTx, TypeInv, Shapes, TypeOK
  <2>2. session' \in [Sessions -> SessionRow]
    BY <1>2, <2>1 DEF BootstrapTx, BootstrapReq, NewSession, SessionRow, TypeInv, Shapes, TypeOK
  <2>3. SessionsOK'
    <3> SUFFICES ASSUME NEW s \in Sessions
                 PROVE  /\ session'[s].status # "absent" => session'[s].hw \in Hardware
                        /\ session'[s].status = "used" => session'[s].dev \in Devices
      BY DEF SessionsOK
    <3>1. CASE s = req[r].new
      BY <1>2, <2>1, <3>1 DEF BootstrapTx, BootstrapReq, NewSession
    <3>2. CASE s # req[r].new /\ s = req[r].old
      <4>1. session[s].hw \in Hardware
        BY <1>2, <3>2, NilAssumption
           DEF BootstrapTx, TypeInv, Shapes, SessionsOK, RequestsOK, Found
      <4> QED
        BY <1>2, <3>2, <4>1 DEF BootstrapTx, SessionRow, TypeInv, Shapes, TypeOK
    <3>3. CASE s # req[r].new /\ s # req[r].old
      BY <1>2, <3>3 DEF BootstrapTx, TypeInv, Shapes, SessionsOK
    <3> QED
      BY <3>1, <3>2, <3>3
  <2> QED
    BY <1>2, <2>2, <2>3 DEF BootstrapTx, Finish, TypeInv, Shapes, TypeOK, RowsOK, Exists
<1>3. ASSUME NEW r \in Requests, NEW u \in Users, NEW s \in Sessions, ClaimRead(r, u, s)
      PROVE  Shapes'
  <2> DEFINE q == [at |-> "claim", dev |-> <<u, session[s].hw>>, sess |-> s, secret |-> drawn']
  <2>1. session[s].hw \in Hardware
    BY <1>3 DEF ClaimRead, TypeInv, Shapes, SessionsOK
  <2>2. drawn' \in Secrets
    BY <1>3 DEF ClaimRead, TypeInv, Shapes, TypeOK, Secrets
  <2>3. q \in Request
    BY <2>1, <2>2 DEF Request, ClaimReq, Devices
  <2> QED
    BY <1>3, <2>2, <2>3 DEF ClaimRead, Start, TypeInv, Shapes, TypeOK, RowsOK, SessionsOK, Exists, Secrets
<1>4. ASSUME NEW r \in Requests, ClaimWrite(r) PROVE Shapes'
  <2>1. [req[r] EXCEPT !.at = "claimScan"] \in Request
    BY <1>4, RequestShape DEF ClaimWrite, TypeInv, Shapes, TypeOK, Request, ClaimReq
  <2> QED
    BY <1>4, <2>1 DEF ClaimWrite, TypeInv, Shapes, TypeOK, RowsOK, SessionsOK, Exists
<1>5. ASSUME NEW r \in Requests, ClaimScan(r) PROVE Shapes'
  <2> DEFINE q == [at |-> "claimRevoke", dev |-> req[r].dev, sess |-> req[r].sess,
                   secret |-> req[r].secret,
                   targets |-> LiveDevices(req[r].dev[2]) \ {req[r].dev}]
  <2>1. req[r] \in ClaimReq
    BY <1>5, RequestShape DEF ClaimScan, TypeInv, Shapes, TypeOK
  <2>2. q \in Request
    BY <2>1 DEF Request, ClaimReq, RevokingReq, LiveDevices, DevicesOf
  <2>3. req' = [req EXCEPT ![r] = q]
    BY <1>5 DEF ClaimScan
  <2> QED
    BY <1>5, <2>2, <2>3 DEF ClaimScan, TypeInv, Shapes, TypeOK, RowsOK, SessionsOK, Exists
<1>6. ASSUME NEW r \in Requests, ClaimCommit(r) PROVE Shapes'
  <2>1. req[r] \in RevokingReq
    BY <1>6, RequestShape DEF ClaimCommit, TypeInv, Shapes, TypeOK
  <2>2. device' \in [Devices -> DeviceRow]
    <3>1. \A d \in Devices : Claimed(device[d], req[r].secret) \in DeviceRow
      BY <2>1 DEF RevokingReq, Claimed, DeviceRow, Secrets, TypeInv, Shapes, TypeOK
    <3>2. \A d \in Devices : [device[d] EXCEPT !.live = FALSE] \in DeviceRow
      BY DEF DeviceRow, TypeInv, Shapes, TypeOK
    <3> QED
      BY <1>6, <3>1, <3>2 DEF ClaimCommit, TypeInv, Shapes, TypeOK
  <2>3. session' \in [Sessions -> SessionRow]
    BY <1>6, <2>1 DEF ClaimCommit, RevokingReq, SessionRow, TypeInv, Shapes, TypeOK
  <2>4. RowsOK'
    BY <1>6, <2>1 DEF ClaimCommit, RevokingReq, Claimed, DeviceRow, Secrets, TypeInv, Shapes, TypeOK,
                      RowsOK, Exists
  <2>5. SessionsOK'
    <3> SUFFICES ASSUME NEW s \in Sessions
                 PROVE  /\ session'[s].status # "absent" => session'[s].hw \in Hardware
                        /\ session'[s].status = "used" => session'[s].dev \in Devices
      BY DEF SessionsOK
    <3>1. CASE s = req[r].sess
      <4>1. session[s].hw \in Hardware
        BY <1>6, <3>1 DEF ClaimCommit, TypeInv, Shapes, SessionsOK, RequestsOK, Found, InClaim
      <4> QED
        BY <1>6, <2>1, <3>1, <4>1 DEF ClaimCommit, RevokingReq, SessionRow, TypeInv, Shapes, TypeOK
    <3>2. CASE s # req[r].sess
      BY <1>6, <2>1, <3>2 DEF ClaimCommit, RevokingReq, SessionRow, TypeInv, Shapes, TypeOK, SessionsOK
    <3> QED
      BY <3>1, <3>2
  <2> QED
    BY <1>6, <2>2, <2>3, <2>4, <2>5 DEF ClaimCommit, Finish, TypeInv, Shapes, TypeOK
<1>7. ASSUME NEW r \in Requests, ClaimRollback(r) PROVE Shapes'
  BY <1>7 DEF ClaimRollback, Finish, TypeInv, Shapes, TypeOK, RowsOK, SessionsOK, Exists
<1>8. ASSUME NEW r \in Requests, NEW s \in Sessions, PollUsed(r, s) PROVE Shapes'
  <2> DEFINE q == [at |-> "deliver", dev |-> session[s].dev,
                   secret |-> device[session[s].dev].post]
  <2>1. q \in Request
    BY <1>8 DEF PollUsed, Request, DeliverReq, TypeInv, Shapes, TypeOK, SessionsOK, DeviceRow, Secrets
  <2> QED
    BY <1>8, <2>1 DEF PollUsed, Start, TypeInv, Shapes, TypeOK, RowsOK, SessionsOK, Exists
<1>9. ASSUME NEW r \in Requests, NEW s \in Sessions, PollOver(r, s) PROVE Shapes'
  <2>1. [at |-> "expire", sess |-> s] \in Request
    BY DEF Request, ExpireReq
  <2> QED
    BY <1>9, <2>1 DEF PollOver, Start, TypeInv, Shapes, TypeOK, RowsOK, SessionsOK, Exists
<1>10. ASSUME NEW r \in Requests, Deliver(r) PROVE Shapes'
  <2>1. req[r] \in DeliverReq
    BY <1>10, RequestShape DEF Deliver, TypeInv, Shapes, TypeOK
  <2>2. device' \in [Devices -> DeviceRow] /\ RowsOK'
    BY <1>10, <2>1 DEF Deliver, DeliverReq, DeviceRow, TypeInv, Shapes, TypeOK, RowsOK, Exists
  <2> QED
    BY <1>10, <2>1, <2>2 DEF Deliver, DeliverReq, Finish, TypeInv, Shapes, TypeOK, SessionsOK
<1>11. ASSUME NEW r \in Requests, ExpireSession(r) PROVE Shapes'
  <2>1. req[r] \in ExpireReq
    BY <1>11, RequestShape DEF ExpireSession, TypeInv, Shapes, TypeOK
  <2>2. session[req[r].sess].hw \in Hardware
    BY <1>11, <2>1 DEF ExpireSession, ExpireReq, TypeInv, Shapes, SessionsOK, RequestsOK, Found
  <2> QED
    BY <1>11, <2>1, <2>2
       DEF ExpireSession, ExpireReq, Finish, SessionRow, TypeInv, Shapes, TypeOK, RowsOK, SessionsOK, Exists
<1>12. ASSUME NEW d \in Devices, CreateDevice(d) PROVE Shapes'
  BY <1>12 DEF CreateDevice, DeviceRow, Secrets, TypeInv, Shapes, TypeOK, RowsOK, SessionsOK, Exists
<1>13. ASSUME NEW d \in Devices, RotateSecret(d) PROVE Shapes'
  BY <1>13 DEF RotateSecret, DeviceRow, Secrets, TypeInv, Shapes, TypeOK, RowsOK, SessionsOK, Exists
<1>14. ASSUME NEW d \in Devices, Revoke(d) PROVE Shapes'
  BY <1>14 DEF Revoke, DeviceRow, TypeInv, Shapes, TypeOK, RowsOK, SessionsOK, Exists
<1>15. ASSUME NEW r \in Requests, NEW d \in Devices, LoginRead(r, d) PROVE Shapes'
  <2> DEFINE q == [at |-> "login", token |->
                     [dev |-> d, version |-> device[d].version, secret |-> device[d].secret]]
  <2>1. q \in Request
    BY <1>15 DEF LoginRead, Request, LoginReq, Token, DeviceRow, TypeInv, Shapes, TypeOK, RowsOK, Exists
  <2> QED
    BY <1>15, <2>1 DEF LoginRead, Start, TypeInv, Shapes, TypeOK, RowsOK, SessionsOK, Exists
<1>16. ASSUME NEW r \in Requests, LoginIssue(r) PROVE Shapes'
  <2>1. req[r] \in LoginReq
    BY <1>16, RequestShape DEF LoginIssue, TypeInv, Shapes, TypeOK
  <2> QED
    BY <1>16, <2>1 DEF LoginIssue, LoginReq, Finish, TypeInv, Shapes, TypeOK, RowsOK, SessionsOK, Exists
<1>17. ASSUME NEW s \in Sessions, Lapse(s) PROVE Shapes'
  BY <1>17 DEF Lapse, SessionRow, TypeInv, Shapes, TypeOK, RowsOK, SessionsOK, Exists
<1>18. ASSUME Crash PROVE Shapes'
  BY <1>18 DEF Crash, TypeInv, Shapes, TypeOK, RowsOK, SessionsOK, Exists
<1>19. ASSUME UNCHANGED vars PROVE Shapes'
  BY <1>19 DEF vars, TypeInv, Shapes, TypeOK, RowsOK, SessionsOK, Exists
<1> QED
  BY <1>1, <1>2, <1>3, <1>4, <1>5, <1>6, <1>7, <1>8, <1>9, <1>10, <1>11, <1>12, <1>13, <1>14,
     <1>15, <1>16, <1>17, <1>18, <1>19 DEF Next, Arrive, Continue


(***************************************************************************)
(* Sessions are not deleted, so only the one request that changes needs a  *)
(* look: it is idle afterwards, or has just found its session.             *)
(***************************************************************************)
LEMMA RequestsOKFrame ==
    ASSUME RequestsOK, req \in [Requests -> Request],
           \A s \in Sessions : session[s].status # "absent" => session'[s].status # "absent",
           NEW p \in Requests, req'[p] = req[p]
    PROVE  Found(p)'
<1>1. InClaim(p) \/ req[p].at = "expire" => req[p].sess \in Sessions
  BY RequestShape DEF InClaim, ClaimReq, RevokingReq, ExpireReq
<1>2. (req[p].at = "bootstrap" /\ req[p].old # Nil) => req[p].old \in Sessions
  BY RequestShape DEF BootstrapReq
<1> QED
  BY <1>1, <1>2 DEF RequestsOK, Found, InClaim

LEMMA SessionsStay ==
    ASSUME TypeInv, [Next]_vars, NEW s \in Sessions, session[s].status # "absent"
    PROVE  session'[s].status # "absent"
<1>1. CASE UNCHANGED session
  BY <1>1
<1>2. ASSUME NEW r \in Requests, BootstrapTx(r) PROVE session'[s].status # "absent"
  BY <1>2 DEF BootstrapTx, NewSession, TypeInv, Shapes, TypeOK, SessionRow
<1>3. ASSUME NEW r \in Requests, ClaimCommit(r) PROVE session'[s].status # "absent"
  BY <1>3 DEF ClaimCommit, TypeInv, Shapes, TypeOK, SessionRow
<1>4. ASSUME NEW r \in Requests, ExpireSession(r) PROVE session'[s].status # "absent"
  BY <1>4 DEF ExpireSession, TypeInv, Shapes, TypeOK, SessionRow
<1>5. ASSUME NEW z \in Sessions, Lapse(z) PROVE session'[s].status # "absent"
  BY <1>5 DEF Lapse, TypeInv, Shapes, TypeOK, SessionRow
<1> QED
  BY <1>1, <1>2, <1>3, <1>4, <1>5
     DEF Next, Arrive, Continue, vars, BootstrapRead, ClaimRead, PollUsed, PollOver, LoginRead,
         ClaimWrite, ClaimScan, ClaimRollback, Deliver, LoginIssue, CreateDevice, RotateSecret,
         Revoke, Crash

LEMMA RequestsOKStep == TypeInv /\ [Next]_vars => RequestsOK'
<1> SUFFICES ASSUME TypeInv, [Next]_vars, NEW p \in Requests PROVE Found(p)'
  BY DEF RequestsOK
<1>1. req'[p] = req[p] => Found(p)'
  BY SessionsStay, RequestsOKFrame DEF TypeInv, Shapes, TypeOK
<1>2. req'[p] = Idle => Found(p)'
  BY DEF Found, Idle, InClaim
<1>3. ASSUME NEW h \in Hardware, BootstrapRead(p, h) PROVE Found(p)'
  BY <1>3, SessionsStay DEF BootstrapRead, Start, OpenSessions, Found, InClaim, TypeInv, Shapes, TypeOK
<1>4. ASSUME NEW u \in Users, NEW s \in Sessions, ClaimRead(p, u, s) PROVE Found(p)'
  BY <1>4 DEF ClaimRead, Start, Found, InClaim, TypeInv, Shapes, TypeOK
<1>5. ASSUME NEW s \in Sessions, PollOver(p, s) PROVE Found(p)'
  BY <1>5 DEF PollOver, Start, Found, InClaim, TypeInv, Shapes, TypeOK
<1>6. ASSUME NEW s \in Sessions, PollUsed(p, s) PROVE Found(p)'
  BY <1>6 DEF PollUsed, Start, Found, InClaim, TypeInv, Shapes, TypeOK
<1>7. ASSUME NEW d \in Devices, LoginRead(p, d) PROVE Found(p)'
  BY <1>7 DEF LoginRead, Start, Found, InClaim, TypeInv, Shapes, TypeOK
<1>8. CASE ClaimWrite(p)
  <2>1. req[p] \in ClaimReq /\ session[req[p].sess].status # "absent"
    BY <1>8, RequestShape DEF ClaimWrite, TypeInv, Shapes, TypeOK, RequestsOK, Found, InClaim
  <2> QED
    BY <1>8, <2>1 DEF ClaimWrite, ClaimReq, Found, InClaim, TypeInv, Shapes, TypeOK
<1>9. CASE ClaimScan(p)
  <2>1. session[req[p].sess].status # "absent"
    BY <1>9 DEF ClaimScan, TypeInv, RequestsOK, Found, InClaim
  <2> QED
    BY <1>9, <2>1 DEF ClaimScan, Found, InClaim, TypeInv, Shapes, TypeOK
<1>10. CASE BootstrapTx(p) \/ ClaimCommit(p) \/ ClaimRollback(p) \/ Deliver(p) \/ ExpireSession(p)
              \/ LoginIssue(p)
  BY <1>2, <1>10 DEF BootstrapTx, ClaimCommit, ClaimRollback, Deliver, ExpireSession, LoginIssue,
                     Finish, TypeInv, Shapes, TypeOK
<1>11. ASSUME NEW r \in Requests, r # p, Arrive(r) \/ Continue(r) \/ ClaimRollback(r)
       PROVE  Found(p)'
  <2>1. req' = [req EXCEPT ![r] = req'[r]]
    BY <1>11 DEF Arrive, Continue, BootstrapRead, ClaimRead, PollUsed, PollOver, LoginRead, Start,
                 BootstrapTx, ClaimWrite, ClaimScan, ClaimCommit, ClaimRollback, Deliver,
                 ExpireSession, LoginIssue, Finish, TypeInv, Shapes, TypeOK
  <2> QED
    BY <1>1, <1>11, <2>1 DEF TypeInv, Shapes, TypeOK
<1>12. ASSUME NEW d \in Devices, CreateDevice(d) \/ RotateSecret(d) \/ Revoke(d) PROVE Found(p)'
  BY <1>1, <1>12 DEF CreateDevice, RotateSecret, Revoke
<1>13. ASSUME NEW s \in Sessions, Lapse(s) PROVE Found(p)'
  BY <1>1, <1>13 DEF Lapse
<1>14. CASE Crash
  BY <1>2, <1>14 DEF Crash
<1>15. CASE UNCHANGED vars
  BY <1>1, <1>15 DEF vars
<1> QED
  BY <1>3, <1>4, <1>5, <1>6, <1>7, <1>8, <1>9, <1>10, <1>11, <1>12, <1>13, <1>14, <1>15
     DEF Next, Arrive, Continue

LEMMA TypeInvStep == TypeInv /\ [Next]_vars => TypeInv'
BY ShapesStep, RequestsOKStep DEF TypeInv

(***************************************************************************)
(* Rows, claim sessions, requests, secrets and tokens keep their types: in *)
(* particular no request is ever without the fields its next statement     *)
(* uses, and no link of a used session is NULL.                            *)
(***************************************************************************)
THEOREM TypeCorrect == Spec => []TypeOK
<1>1. Init => TypeInv
  BY TypeInvInit
<1>2. TypeInv /\ [Next]_vars => TypeInv'
  BY TypeInvStep
<1>3. TypeInv => TypeOK
  BY DEF TypeInv, Shapes
<1> QED
  BY <1>1, <1>2, <1>3, PTL DEF Spec

-----------------------------------------------------------------------------
(***************************************************************************)
(* TokenBoundToSecret is not inductive either.  A token is committed to    *)
(* when the login reads the row, so tokens still to be issued count; its   *)
(* version is not ahead of the row's, and equals it exactly when the       *)
(* secrets are equal.  For the latter to survive a claim, the secret a     *)
(* claim in flight carries must be one nobody has used yet.                *)
(***************************************************************************)
Held == tokens \cup Pending

HeldOK ==
    \A t \in Held :
        /\ 1 <= t.version /\ t.version <= device[t.dev].version
        /\ t.version = device[t.dev].version <=> t.secret = device[t.dev].secret

DrawnOK ==
    /\ \A d \in Devices : device[d].secret <= drawn
    /\ \A t \in Held : t.secret <= drawn
    /\ \A r \in Requests : InClaim(r) => req[r].secret <= drawn

UnusedOK ==
    \A r \in Requests : InClaim(r) =>
        /\ \A d \in Devices : device[d].secret # req[r].secret
        /\ \A t \in Held : t.secret # req[r].secret
        /\ \A p \in Requests \ {r} : InClaim(p) => req[p].secret # req[r].secret

CredInv == HeldOK /\ DrawnOK /\ UnusedOK

\* Tokens held are well typed.
LEMMA HeldIsToken == TypeInv => Held \subseteq Token
<1> SUFFICES ASSUME TypeInv PROVE Pending \subseteq Token
  BY DEF TypeInv, Shapes, TypeOK, Held
<1> QED
  BY RequestShape DEF Pending, LoginReq, TypeInv, Shapes, TypeOK

\* A claim in flight carries a secret.
LEMMA ClaimHasSecret ==
    ASSUME TypeInv, NEW r \in Requests, InClaim(r)
    PROVE  req[r].secret \in Secrets /\ req[r].dev \in Devices
BY RequestShape DEF InClaim, ClaimReq, RevokingReq, TypeInv, Shapes, TypeOK

LEMMA CredInvInit == Init => CredInv
<1> SUFFICES ASSUME Init PROVE CredInv
  OBVIOUS
<1>1. Held = {}
  BY DEF Init, Held, Pending, Idle
<1> QED
  BY <1>1 DEF Init, CredInv, HeldOK, DrawnOK, UnusedOK, NoDevice, InClaim, Idle

\* A step that changes no secret and no version, and adds no token and no claim.
LEMMA QuietStep ==
    ASSUME CredInv, drawn' = drawn, Held' \subseteq Held,
           \A d \in Devices : /\ device'[d].secret = device[d].secret
                              /\ device'[d].version = device[d].version,
           \A t \in Held : t.dev \in Devices,
           \A r \in Requests : InClaim(r)' => InClaim(r) /\ req'[r].secret = req[r].secret
    PROVE  CredInv'
BY DEF CredInv, HeldOK, DrawnOK, UnusedOK

\* Requests that stop, or start or continue as something else than a login or
\* a claim, add neither.
LEMMA HeldShrinks ==
    ASSUME req \in [Requests -> Request], NEW r \in Requests, tokens' = tokens,
           req' = [req EXCEPT ![r] = req'[r]], req'[r].at # "login"
    PROVE  Held' \subseteq Held
BY DEF Held, Pending

LEMMA CredInvStep == TypeInv /\ TypeInv' /\ CredInv /\ [Next]_vars => CredInv'
<1> SUFFICES ASSUME TypeInv, TypeInv', CredInv, [Next]_vars PROVE CredInv'
  OBVIOUS
<1> USE BoundAssumption
<1>0. /\ req \in [Requests -> Request] /\ req' \in [Requests -> Request]
      /\ device \in [Devices -> DeviceRow] /\ drawn \in Nat
      /\ \A t \in Held : t \in Token /\ t.dev \in Devices /\ t.version \in Nat /\ t.secret \in Nat
      /\ \A r \in Requests : InClaim(r) => req[r].secret \in Nat
  BY HeldIsToken, ClaimHasSecret DEF TypeInv, Shapes, TypeOK, Token, Secrets
\* Requests that neither become a claim nor hold a new token.
<1>1. ASSUME NEW r \in Requests,
             \/ \E h \in Hardware : BootstrapRead(r, h)
             \/ \E s \in Sessions : PollUsed(r, s) \/ PollOver(r, s)
             \/ BootstrapTx(r) \/ ClaimRollback(r) \/ Deliver(r) \/ ExpireSession(r)
      PROVE  CredInv'
  <2>1. /\ req' = [req EXCEPT ![r] = req'[r]] /\ req'[r].at # "login" /\ ~InClaim(r)'
        /\ tokens' = tokens /\ drawn' = drawn
    BY <1>0, <1>1 DEF BootstrapRead, PollUsed, PollOver, Start, BootstrapTx, ClaimRollback, Deliver,
                      ExpireSession, Finish, Idle, InClaim
  <2>2. Held' \subseteq Held
    BY <1>0, <2>1, HeldShrinks
  <2>3. \A d \in Devices : /\ device'[d].secret = device[d].secret
                           /\ device'[d].version = device[d].version
    <3>1. CASE Deliver(r)
      BY <1>0, <3>1 DEF Deliver, DeviceRow
    <3>2. CASE ~Deliver(r)
      BY <1>1, <3>2 DEF BootstrapRead, PollUsed, PollOver, BootstrapTx, ClaimRollback, ExpireSession
    <3> QED
      BY <3>1, <3>2
  <2>4. \A p \in Requests : InClaim(p)' => InClaim(p) /\ req'[p].secret = req[p].secret
    BY <1>0, <2>1 DEF InClaim
  <2> QED
    BY <1>0, <2>1, <2>2, <2>3, <2>4, QuietStep
\* A claim that goes on carries the same secret.
<1>2. ASSUME NEW r \in Requests, ClaimWrite(r) \/ ClaimScan(r) PROVE CredInv'
  <2>1. /\ req' = [req EXCEPT ![r] = req'[r]] /\ InClaim(r) /\ req'[r].secret = req[r].secret
        /\ req'[r].at # "login" /\ UNCHANGED <<device, drawn, tokens>>
    <3>1. CASE ClaimWrite(r)
      <4>1. req[r] \in ClaimReq
        BY <3>1, RequestShape DEF ClaimWrite, TypeInv, Shapes, TypeOK
      <4> QED
        BY <1>0, <3>1, <4>1 DEF ClaimWrite, ClaimReq, InClaim
    <3>2. CASE ClaimScan(r)
      BY <1>0, <3>2 DEF ClaimScan, InClaim
    <3> QED
      BY <1>2, <3>1, <3>2
  <2>2. \A p \in Requests : InClaim(p)' => InClaim(p) /\ req'[p].secret = req[p].secret
    BY <1>0, <2>1 DEF InClaim
  <2> QED
    BY <1>0, <2>1, <2>2, HeldShrinks, QuietStep
\* A claim starts with a secret nobody has seen.
<1>3. ASSUME NEW r \in Requests, NEW u \in Users, NEW s \in Sessions, ClaimRead(r, u, s)
      PROVE  CredInv'
  <2>1. /\ req' = [req EXCEPT ![r] = req'[r]] /\ req'[r].at = "claim" /\ req'[r].secret = drawn + 1
        /\ drawn' = drawn + 1 /\ UNCHANGED <<device, tokens>>
    BY <1>0, <1>3 DEF ClaimRead, Start
  <2>2. Held' \subseteq Held
    BY <1>0, <2>1, HeldShrinks
  <2>3. \A p \in Requests \ {r} : req'[p] = req[p]
    BY <1>0, <2>1
  <2>4. \A d \in Devices : device[d].secret \in Nat
    BY <1>0 DEF DeviceRow
  <2>5. HeldOK'
    BY <2>1, <2>2 DEF CredInv, HeldOK
  <2>6. DrawnOK'
    BY <1>0, <2>1, <2>2, <2>3, <2>4 DEF CredInv, DrawnOK, InClaim
  <2>7. UnusedOK'
    BY <1>0, <2>1, <2>2, <2>3, <2>4 DEF CredInv, DrawnOK, UnusedOK, InClaim
  <2> QED
    BY <2>5, <2>6, <2>7 DEF CredInv
\* A claim commits: the secret nobody had used becomes the device's.
<1>4. ASSUME NEW r \in Requests, ClaimCommit(r) PROVE CredInv'
  <2> DEFINE d0 == req[r].dev
  <2>1. /\ req' = [req EXCEPT ![r] = req'[r]] /\ req'[r].at # "login" /\ ~InClaim(r)' /\ InClaim(r)
        /\ UNCHANGED <<drawn, tokens>>
    BY <1>0, <1>4 DEF ClaimCommit, Finish, Idle, InClaim
  <2>2. Held' \subseteq Held
    BY <1>0, <2>1, HeldShrinks
  <2>3. \A p \in Requests : InClaim(p)' => p # r /\ InClaim(p) /\ req'[p] = req[p]
    BY <1>0, <2>1 DEF InClaim
  <2>4. \A d \in Devices :
          /\ d = d0 => device'[d].secret = req[r].secret /\ device'[d].version = device[d].version + 1
          /\ d # d0 => device'[d].secret = device[d].secret /\ device'[d].version = device[d].version
    <3> SUFFICES ASSUME NEW d \in Devices
                 PROVE  /\ d = d0 => /\ device'[d].secret = req[r].secret
                                     /\ device'[d].version = device[d].version + 1
                        /\ d # d0 => /\ device'[d].secret = device[d].secret
                                     /\ device'[d].version = device[d].version
      OBVIOUS
    <3>1. device'[d] = IF d = d0 THEN Claimed(device[d], req[r].secret)
                       ELSE IF d \in req[r].targets THEN [device[d] EXCEPT !.live = FALSE]
                       ELSE device[d]
      BY <1>4 DEF ClaimCommit
    <3>2. device[d] \in DeviceRow
      BY <1>0
    <3> QED
      BY <3>1, <3>2 DEF Claimed, DeviceRow
  <2>5. \A d \in Devices : device[d].version \in Nat
    BY <1>0 DEF DeviceRow
  <2>6. HeldOK'
    BY <1>0, <2>1, <2>2, <2>4, <2>5 DEF CredInv, HeldOK, UnusedOK
  <2>7. DrawnOK'
    BY <2>1, <2>2, <2>3, <2>4 DEF CredInv, DrawnOK
  <2>8. UnusedOK'
    BY <2>1, <2>2, <2>3, <2>4 DEF CredInv, UnusedOK
  <2> QED
    BY <2>6, <2>7, <2>8 DEF CredInv
\* The owner registers a device or rotates its secret.
<1>5. ASSUME NEW d0 \in Devices, CreateDevice(d0) \/ RotateSecret(d0) PROVE CredInv'
  <2>1. /\ drawn' = drawn + 1 /\ UNCHANGED <<req, tokens>>
        /\ \A d \in Devices : device[d].version \in Nat /\ device[d].secret \in Nat
        /\ \A d \in Devices :
             /\ d = d0 => device'[d].secret = drawn + 1 /\ device'[d].version = device[d].version + 1
             /\ d # d0 => device'[d].secret = device[d].secret /\ device'[d].version = device[d].version
    BY <1>0, <1>5 DEF CreateDevice, RotateSecret, Exists, DeviceRow
  <2>2. Held' = Held
    BY <2>1 DEF Held, Pending
  <2>3. HeldOK'
    BY <1>0, <2>1, <2>2 DEF CredInv, HeldOK, DrawnOK
  <2>4. DrawnOK'
    BY <1>0, <2>1, <2>2 DEF CredInv, DrawnOK, InClaim
  <2>5. UnusedOK'
    BY <1>0, <2>1, <2>2 DEF CredInv, DrawnOK, UnusedOK, InClaim
  <2> QED
    BY <2>3, <2>4, <2>5 DEF CredInv
\* A login reads a live row: its token has the version and the secret of now.
<1>6. ASSUME NEW r \in Requests, NEW d \in Devices, LoginRead(r, d) PROVE CredInv'
  <2> DEFINE t0 == [dev |-> d, version |-> device[d].version, secret |-> device[d].secret]
  <2>1. /\ req' = [req EXCEPT ![r] = [at |-> "login", token |-> t0]]
        /\ UNCHANGED <<device, drawn, tokens>>
    BY <1>6 DEF LoginRead, Start
  <2>2. Held' \subseteq Held \cup {t0}
    BY <1>0, <2>1 DEF Held, Pending
  <2>3. \A p \in Requests : InClaim(p)' => InClaim(p) /\ req'[p] = req[p]
    BY <1>0, <2>1 DEF InClaim
  <2>4. device[d].version \in Nat /\ 1 <= device[d].version
    BY <1>0, <1>6 DEF LoginRead, DeviceRow, TypeInv, Shapes, RowsOK, Exists
  <2>5. HeldOK'
    BY <2>1, <2>2, <2>4 DEF CredInv, HeldOK
  <2>6. DrawnOK'
    BY <2>1, <2>2, <2>3 DEF CredInv, DrawnOK
  <2>7. UnusedOK'
    BY <2>1, <2>2, <2>3 DEF CredInv, UnusedOK
  <2> QED
    BY <2>5, <2>6, <2>7 DEF CredInv
\* The token of a login moves from the request to the tokens.
<1>7. ASSUME NEW r \in Requests, LoginIssue(r) PROVE CredInv'
  <2>1. /\ req' = [req EXCEPT ![r] = Idle] /\ UNCHANGED <<device, drawn>>
        /\ tokens' = tokens \cup {req[r].token} /\ req[r].at = "login"
    BY <1>7 DEF LoginIssue, Finish
  <2>2. Held' \subseteq Held
    BY <1>0, <2>1 DEF Held, Pending, Idle
  <2>3. \A p \in Requests : InClaim(p)' => InClaim(p) /\ req'[p].secret = req[p].secret
    BY <1>0, <2>1 DEF InClaim, Idle
  <2> QED
    BY <1>0, <2>1, <2>2, <2>3, QuietStep
<1>8. ASSUME NEW d0 \in Devices, Revoke(d0) PROVE CredInv'
  <2>1. \A d \in Devices : /\ device'[d].secret = device[d].secret
                           /\ device'[d].version = device[d].version
    BY <1>0, <1>8 DEF Revoke, DeviceRow
  <2>2. UNCHANGED <<req, drawn, tokens>>
    BY <1>8 DEF Revoke
  <2> QED
    BY <1>0, <2>1, <2>2, QuietStep DEF Held, Pending, InClaim
<1>9. ASSUME NEW s \in Sessions, Lapse(s) PROVE CredInv'
  BY <1>0, <1>9, QuietStep DEF Lapse, Held, Pending, InClaim
<1>10. CASE Crash
  <2>1. Held' \subseteq Held /\ \A r \in Requests : ~InClaim(r)'
    BY <1>10 DEF Crash, Held, Pending, Idle, InClaim
  <2> QED
    BY <1>0, <1>10, <2>1, QuietStep DEF Crash
<1>11. CASE UNCHANGED vars
  BY <1>0, <1>11, QuietStep DEF vars, Held, Pending, InClaim
<1> QED
  BY <1>1, <1>2, <1>3, <1>4, <1>5, <1>6, <1>7, <1>8, <1>9, <1>10, <1>11 DEF Next, Arrive, Continue

LEMMA SpecInvariant == Spec => [](TypeInv /\ CredInv)
<1>1. Init => TypeInv /\ CredInv
  BY TypeInvInit, CredInvInit
<1>2. (TypeInv /\ CredInv) /\ [Next]_vars => (TypeInv /\ CredInv)'
  BY TypeInvStep, CredInvStep
<1> QED
  BY <1>1, <1>2, PTL DEF Spec

(***************************************************************************)
(* However logins overlap rotations, claims and revocations, the version   *)
(* check of the device-jwt guard lets a token through exactly when the     *)
(* device is live and still has the secret the token was bought with.      *)
(***************************************************************************)
THEOREM TokensBound == Spec => []TokenBoundToSecret
<1>1. TypeInv /\ CredInv => TokenBoundToSecret
  BY DEF CredInv, HeldOK, Held, TokenBoundToSecret, Accepted
<1> QED
  BY <1>1, SpecInvariant, PTL

(***************************************************************************)
(* A refused token stays refused: only a new version would make the guard  *)
(* change its mind about a row it holds for live, and versions only grow.  *)
(***************************************************************************)
THEOREM TokensStayDead == Spec => NoTokenRevival
<1>1. ASSUME TypeInv, TypeInv', CredInv, [Next]_vars, NEW t \in tokens, Accepted(t)'
      PROVE  Accepted(t)
  <2> DEFINE d0 == t.dev
  <2>1. /\ d0 \in Devices /\ device \in [Devices -> DeviceRow] /\ t.version \in Nat
        /\ 1 <= t.version /\ t.version <= device[d0].version /\ device[d0].version \in Nat
        /\ device'[d0].live /\ device'[d0].version = t.version
    BY <1>1 DEF TypeInv, Shapes, TypeOK, Token, CredInv, HeldOK, Held, Accepted, DeviceRow
  <2>2. CASE UNCHANGED device
    BY <2>1, <2>2 DEF Accepted
  <2>3. ASSUME NEW r \in Requests, ClaimCommit(r) PROVE Accepted(t)
    <3>1. CASE d0 = req[r].dev
      BY <2>1, <2>3, <3>1 DEF ClaimCommit, Claimed
    <3>2. CASE d0 # req[r].dev
      BY <2>1, <2>3, <3>2 DEF ClaimCommit, Accepted, DeviceRow
    <3> QED
      BY <3>1, <3>2
  <2>4. ASSUME NEW r \in Requests, Deliver(r) PROVE Accepted(t)
    BY <2>1, <2>4 DEF Deliver, Accepted, DeviceRow
  <2>5. ASSUME NEW d \in Devices, CreateDevice(d) \/ RotateSecret(d) PROVE Accepted(t)
    <3>1. CASE d0 = d
      BY <2>1, <2>5, <3>1 DEF CreateDevice, RotateSecret, Exists, DeviceRow
    <3>2. CASE d0 # d
      BY <2>1, <2>5, <3>2 DEF CreateDevice, RotateSecret, Accepted
    <3> QED
      BY <3>1, <3>2
  <2>6. ASSUME NEW d \in Devices, Revoke(d) PROVE Accepted(t)
    BY <2>1, <2>6 DEF Revoke, Accepted, DeviceRow
  <2> QED
    BY <1>1, <2>2, <2>3, <2>4, <2>5, <2>6
       DEF Next, Arrive, Continue, vars, BootstrapRead, BootstrapTx, ClaimRead, ClaimWrite, ClaimScan,
           ClaimRollback, PollUsed, PollOver, ExpireSession, LoginRead, LoginIssue, Lapse, Crash
<1>2. TypeInv /\ TypeInv' /\ CredInv /\ [Next]_vars
        => [\A t \in tokens : Accepted(t)' => Accepted(t)]_vars
  BY <1>1
<1> QED
  BY <1>2, SpecInvariant, PTL DEF Spec, NoTokenRevival

-----------------------------------------------------------------------------
(***************************************************************************)
(* Provisioning implements DeviceCredentials: a login counts from its read *)
(* of the row, a claim from its commit; bootstraps, polls and everything   *)
(* a claim does before it commits are stuttering steps.                    *)
(***************************************************************************)

\* The refinement mapping, named.
Cred == [d \in Devices |-> [secret |-> device[d].secret, live |-> device[d].live]]
Granted == {Bought(t) : t \in tokens \cup Pending}
AcceptedNow == {Bought(t) : t \in {u \in tokens \cup Pending : Accepted(u)}}

\* What the abstract Check demands of every state after the first.
Checked == AcceptedNow = {t \in Granted : Cred[t.dev].live /\ Cred[t.dev].secret = t.secret}

LEMMA InvChecked == TypeInv /\ CredInv => Checked
<1> SUFFICES ASSUME TypeInv, CredInv PROVE Checked
  OBVIOUS
<1>1. \A t \in tokens \cup Pending :
        /\ t.dev \in Devices
        /\ Accepted(t) <=> (device[t.dev].live /\ device[t.dev].secret = t.secret)
  BY HeldIsToken DEF CredInv, HeldOK, Held, Token, Accepted
<1>2. \A t \in tokens \cup Pending :
        Accepted(t) <=> (Cred[Bought(t).dev].live /\ Cred[Bought(t).dev].secret = Bought(t).secret)
  BY <1>1 DEF Cred, Bought
<1> QED
  BY <1>2 DEF Checked, AcceptedNow, Granted

LEMMA RefinesInit == Init => Credentials!Init
<1> SUFFICES ASSUME Init PROVE Credentials!Init
  OBVIOUS
<1>1. tokens \cup Pending = {}
  BY DEF Init, Pending, Idle
<1> QED
  BY <1>1 DEF Init, Credentials!Init, Credentials!NoCred, NoDevice

LEMMA RefinesStep ==
    ASSUME TypeInv, TypeInv', CredInv, Checked, Checked', [Next]_vars
    PROVE  [Credentials!Next]_<<Cred, Granted, AcceptedNow>>
<1> USE BoundAssumption
<1>0. /\ req \in [Requests -> Request] /\ device \in [Devices -> DeviceRow]
      /\ device' \in [Devices -> DeviceRow] /\ drawn \in Nat /\ drawn' \in 0..MaxSecret
      /\ \A t \in tokens \cup Pending : t.secret \in Nat
  BY HeldIsToken DEF TypeInv, Shapes, TypeOK, Token, Secrets, Held
<1>1. Credentials!Check
  BY DEF Credentials!Check, Checked, Cred, Granted, AcceptedNow
<1>2. Cred' = Cred /\ Granted' = Granted => UNCHANGED <<Cred, Granted, AcceptedNow>>
  BY DEF Checked
\* Requests that neither log in nor commit a claim.
<1>3. ASSUME NEW r \in Requests,
             \/ \E h \in Hardware : BootstrapRead(r, h)
             \/ \E u \in Users, s \in Sessions : ClaimRead(r, u, s)
             \/ \E s \in Sessions : PollUsed(r, s) \/ PollOver(r, s)
             \/ BootstrapTx(r) \/ ClaimWrite(r) \/ ClaimScan(r) \/ ClaimRollback(r) \/ Deliver(r)
             \/ ExpireSession(r)
      PROVE  UNCHANGED <<Cred, Granted, AcceptedNow>>
  <2>1. /\ req' = [req EXCEPT ![r] = req'[r]] /\ req'[r].at # "login" /\ req[r].at # "login"
        /\ tokens' = tokens
    <3>1. CASE ClaimWrite(r)
      <4>1. req[r] \in ClaimReq
        BY <3>1, RequestShape, <1>0 DEF ClaimWrite
      <4> QED
        BY <1>0, <3>1, <4>1 DEF ClaimWrite, ClaimReq
    <3>2. CASE ~ClaimWrite(r)
      BY <1>0, <1>3, <3>2
         DEF BootstrapRead, ClaimRead, PollUsed, PollOver, Start, BootstrapTx, ClaimScan,
             ClaimRollback, HoldsLocks, Deliver, ExpireSession, Finish, Idle
    <3> QED
      BY <3>1, <3>2
  <2>2. Pending' = Pending
    BY <1>0, <2>1 DEF Pending
  <2>3. Cred' = Cred
    <3>1. CASE Deliver(r)
      BY <1>0, <3>1 DEF Deliver, DeviceRow, Cred
    <3>2. CASE ~Deliver(r)
      BY <1>3, <3>2 DEF BootstrapRead, ClaimRead, PollUsed, PollOver, BootstrapTx, ClaimWrite,
                        ClaimScan, ClaimRollback, ExpireSession, Cred
    <3> QED
      BY <3>1, <3>2
  <2> QED
    BY <1>2, <2>1, <2>2, <2>3 DEF Granted
\* A claim commits.
<1>4. ASSUME NEW r \in Requests, ClaimCommit(r) PROVE Credentials!Next
  <2>1. req[r] \in RevokingReq /\ InClaim(r)
    BY <1>0, <1>4, RequestShape DEF ClaimCommit, InClaim
  <2>2. Granted' = Granted
    <3>1. Pending' = Pending
      BY <1>0, <1>4 DEF ClaimCommit, Finish, Pending, Idle
    <3> QED
      BY <1>4, <3>1 DEF ClaimCommit, Granted
  <2>3. Credentials!Fresh(req[r].secret)
    BY <1>0, <2>1 DEF CredInv, UnusedOK, Held, Credentials!Fresh, Bought
  <2>4. Credentials!Renew(req[r].dev, req[r].secret, TRUE, req[r].targets)
    <3>1. Cred' = [e \in Devices |->
                     IF e = req[r].dev THEN [secret |-> req[r].secret, live |-> TRUE]
                     ELSE IF e \in req[r].targets THEN [secret |-> Cred[e].secret, live |-> FALSE]
                     ELSE Cred[e]]
      <4> SUFFICES ASSUME NEW e \in Devices
                   PROVE  Cred'[e] =
                            IF e = req[r].dev THEN [secret |-> req[r].secret, live |-> TRUE]
                            ELSE IF e \in req[r].targets THEN [secret |-> Cred[e].secret, live |-> FALSE]
                            ELSE Cred[e]
        BY DEF Cred
      <4>1. device'[e] = IF e = req[r].dev THEN Claimed(device[e], req[r].secret)
                         ELSE IF e \in req[r].targets THEN [device[e] EXCEPT !.live = FALSE]
                         ELSE device[e]
        BY <1>4 DEF ClaimCommit
      <4>2. device[e] \in DeviceRow
        BY <1>0
      <4>3. /\ Cred[e] = [secret |-> device[e].secret, live |-> device[e].live]
            /\ Cred'[e] = [secret |-> device'[e].secret, live |-> device'[e].live]
        BY DEF Cred
      <4>4. CASE e = req[r].dev
        BY <4>1, <4>3, <4>4 DEF Claimed
      <4>5. CASE e # req[r].dev /\ e \in req[r].targets
        <5>1. device'[e].secret = device[e].secret /\ device'[e].live = FALSE
          BY <4>1, <4>2, <4>5 DEF DeviceRow
        <5>2. Cred'[e] = [secret |-> device[e].secret, live |-> FALSE]
          BY <4>3, <5>1
        <5> QED
          BY <4>3, <4>5, <5>2
      <4>6. CASE e # req[r].dev /\ e \notin req[r].targets
        BY <4>1, <4>3, <4>6
      <4> QED
        BY <4>4, <4>5, <4>6
    <3> QED
      BY <2>2, <2>3, <3>1 DEF Credentials!Renew, Cred, Granted
  <2>5. req[r].dev \in Devices /\ req[r].secret \in Secrets /\ req[r].targets \in SUBSET Devices
    BY <2>1 DEF RevokingReq
  <2>6. PICK d \in Devices, k \in Secrets, others \in SUBSET Devices :
           d = req[r].dev /\ k = req[r].secret /\ others = req[r].targets
    BY <2>5
  <2>7. Credentials!Renew(d, k, TRUE, others)
    BY <2>4, <2>6 DEF Credentials!Renew, Credentials!Fresh
  <2> QED
    BY <1>1, <2>7 DEF Credentials!Next
\* The owner registers a device or rotates its secret.
<1>5. ASSUME NEW d \in Devices, CreateDevice(d) \/ RotateSecret(d) PROVE Credentials!Next
  <2>1. drawn' = drawn + 1 /\ drawn' \in Secrets /\ UNCHANGED <<req, tokens>>
    BY <1>0, <1>5 DEF CreateDevice, RotateSecret, Secrets
  <2>2. Granted' = Granted
    BY <2>1 DEF Granted, Pending
  <2>3. Credentials!Fresh(drawn')
    <3>1. \A e \in Devices : device[e].secret \in Nat
      BY <1>0 DEF DeviceRow
    <3> QED
      BY <1>0, <2>1, <3>1 DEF CredInv, DrawnOK, Held, Credentials!Fresh, Bought
  <2>4. PICK live \in BOOLEAN : device'[d].secret = drawn' /\ device'[d].live = live
    BY <1>0, <1>5 DEF CreateDevice, RotateSecret, DeviceRow
  <2>5. \A e \in Devices : e # d => device'[e] = device[e]
    BY <1>0, <1>5 DEF CreateDevice, RotateSecret
  <2>6. Credentials!Renew(d, drawn', live, {})
    BY <2>2, <2>3, <2>4, <2>5 DEF Credentials!Renew, Cred, Granted
  <2> QED
    BY <1>1, <2>1, <2>6 DEF Credentials!Next
<1>6. ASSUME NEW d \in Devices, Revoke(d) PROVE Credentials!Next
  <2>1. Cred' = [Cred EXCEPT ![d].live = FALSE]
    BY <1>0, <1>6 DEF Revoke, Cred, DeviceRow
  <2>2. Granted' = Granted
    BY <1>6 DEF Revoke, Granted, Pending
  <2> QED
    BY <1>1, <2>1, <2>2 DEF Credentials!Next, Credentials!Revoke, Cred, Granted
\* A login reads the row: the token is granted.
<1>7. ASSUME NEW r \in Requests, NEW d \in Devices, LoginRead(r, d) PROVE Credentials!Next
  <2> DEFINE t0 == [dev |-> d, version |-> device[d].version, secret |-> device[d].secret]
  <2>1. req[r] = Idle /\ req' = [req EXCEPT ![r] = [at |-> "login", token |-> t0]]
        /\ UNCHANGED <<device, tokens>> /\ device[d].live
    BY <1>7 DEF LoginRead, Start
  <2>2. Pending' = Pending \cup {t0}
    BY <1>0, <2>1 DEF Pending, Idle
  <2>3. Granted' = Granted \cup {[dev |-> d, secret |-> device[d].secret]}
    <3>1. tokens' \cup Pending' = (tokens \cup Pending) \cup {t0}
      BY <2>1, <2>2
    <3>2. Bought(t0) = [dev |-> d, secret |-> device[d].secret]
      BY DEF Bought
    <3>3. Granted' = {Bought(t) : t \in tokens' \cup Pending'}
      BY DEF Granted, Bought
    <3> HIDE DEF t0
    <3> QED
      BY <3>1, <3>2, <3>3 DEF Granted
  <2>4. Credentials!Grant(d)
    BY <2>1, <2>3 DEF Credentials!Grant, Cred, Granted
  <2> QED
    BY <1>1, <2>4 DEF Credentials!Next
\* Its token moves from the request to the tokens issued.
<1>8. ASSUME NEW r \in Requests, LoginIssue(r) PROVE UNCHANGED <<Cred, Granted, AcceptedNow>>
  <2>1. req' = [req EXCEPT ![r] = Idle] /\ UNCHANGED device
        /\ tokens' = tokens \cup {req[r].token} /\ req[r].at = "login"
    BY <1>8 DEF LoginIssue, Finish
  <2>2. tokens' \cup Pending' = tokens \cup Pending
    BY <1>0, <2>1 DEF Pending, Idle
  <2> QED
    BY <1>2, <2>1, <2>2 DEF Granted, Cred
<1>9. CASE Crash
  <2>1. Pending' = {} /\ UNCHANGED <<device, tokens>>
    BY <1>9 DEF Crash, Pending, Idle
  <2>2. Granted' \subseteq Granted
    BY <2>1 DEF Granted
  <2> DEFINE lost == Granted \ Granted'
  <2>3. Credentials!Lose(lost)
    BY <2>1, <2>2 DEF Credentials!Lose, Granted, Cred
  <2> QED
    BY <1>1, <2>3 DEF Credentials!Next, Granted
<1>10. ASSUME NEW s \in Sessions, Lapse(s) PROVE UNCHANGED <<Cred, Granted, AcceptedNow>>
  BY <1>2, <1>10 DEF Lapse, Cred, Granted, Pending
<1>11. CASE UNCHANGED vars
  BY <1>2, <1>11 DEF vars, Cred, Granted, Pending
<1> QED
  BY <1>3, <1>4, <1>5, <1>6, <1>7, <1>8, <1>9, <1>10, <1>11 DEF Next, Arrive, Continue

(***************************************************************************)
(* For any number of users, hardware ids, sessions and overlapping         *)
(* requests, provisioning keeps the promise of DeviceCredentials.          *)
(***************************************************************************)
THEOREM ProvisioningRefines == Spec => CredentialsKept
<1>1. Init => Credentials!Init
  BY RefinesInit
<1>2. TypeInv /\ CredInv => Checked
  BY InvChecked
<1>3. TypeInv /\ TypeInv' /\ CredInv /\ Checked /\ Checked' /\ [Next]_vars
        => [Credentials!Next]_<<Cred, Granted, AcceptedNow>>
  BY RefinesStep
<1> QED
  BY <1>1, <1>2, <1>3, SpecInvariant, PTL
     DEF Spec, CredentialsKept, Credentials!Spec, Cred, Granted, AcceptedNow
=============================================================================
