---------------------------- MODULE ClaimProofs ------------------------------
(***************************************************************************)
(* Theorems about what claims and bootstraps leave behind: whom a used     *)
(* session links to, which secret waits for the device, that some device   *)
(* stays live, and what it takes for two of them to be.                    *)
(* They rest on TypeInv of ProvisioningProofs.                             *)
(***************************************************************************)
EXTENDS ProvisioningProofs, ProvisioningOverlap, FiniteSetTheorems

(***************************************************************************)
(* UsedSessionOwnsDevice is not inductive.  A claim links its session to a *)
(* device it chose when it read the session, so the hardware of a session  *)
(* must not change under it: the only statement that writes a whole        *)
(* session is the insert of a bootstrap, whose row must be a new one.      *)
(***************************************************************************)
ClaimsOK == \A r \in Requests : InClaim(r) => session[req[r].sess].hw = req[r].dev[2]

InsertsOK ==
    \A r \in Requests : req[r].at = "bootstrap" =>
        /\ session[req[r].new].status = "absent"
        /\ \A p \in Requests \ {r} : req[p].at = "bootstrap" => req[p].new # req[r].new

\* The updateMany of a claim reaches devices of its own hardware only.
TargetsOK ==
    \A r \in Requests : req[r].at = "claimRevoke" =>
        \A d \in req[r].targets : d \in Devices /\ d[2] = req[r].dev[2]

LinkInv == UsedSessionOwnsDevice /\ ClaimsOK /\ InsertsOK /\ TargetsOK

LEMMA LinkInvInit == Init => LinkInv
BY DEF Init, LinkInv, UsedSessionOwnsDevice, ClaimsOK, InsertsOK, TargetsOK, NoSession, Idle, InClaim

\* Rows of devices are never deleted: versions only grow.
LEMMA RowsStay ==
    ASSUME TypeInv, [Next]_vars, NEW d \in Devices, Exists(d)
    PROVE  Exists(d)'
<1>1. device \in [Devices -> DeviceRow] /\ device[d].version \in Nat
  BY DEF TypeInv, Shapes, TypeOK, DeviceRow
<1>2. CASE UNCHANGED device
  BY <1>2 DEF Exists
<1>3. ASSUME NEW r \in Requests, ClaimCommit(r) PROVE Exists(d)'
  <2>1. device'[d] = IF d = req[r].dev THEN Claimed(device[d], req[r].secret)
                     ELSE IF d \in req[r].targets THEN [device[d] EXCEPT !.live = FALSE]
                     ELSE device[d]
    BY <1>3 DEF ClaimCommit
  <2> QED
    BY <1>1, <2>1 DEF Exists, Claimed, DeviceRow
<1>4. ASSUME NEW r \in Requests, Deliver(r) PROVE Exists(d)'
  BY <1>1, <1>4 DEF Deliver, Exists, DeviceRow
<1>5. ASSUME NEW e \in Devices, CreateDevice(e) \/ RotateSecret(e) \/ Revoke(e) PROVE Exists(d)'
  <2>1. CASE CreateDevice(e)
    BY <1>1, <2>1 DEF CreateDevice, Exists, DeviceRow
  <2>2. CASE RotateSecret(e)
    BY <1>1, <2>2 DEF RotateSecret, Exists, DeviceRow
  <2>3. CASE Revoke(e)
    BY <1>1, <2>3 DEF Revoke, Exists, DeviceRow
  <2> QED
    BY <1>5, <2>1, <2>2, <2>3
<1> QED
  BY <1>2, <1>3, <1>4, <1>5
     DEF Next, Arrive, Continue, vars, BootstrapRead, BootstrapTx, ClaimRead, ClaimWrite, ClaimScan,
         ClaimRollback, PollUsed, PollOver, ExpireSession, LoginRead, LoginIssue, Lapse, Crash

(***************************************************************************)
(* What a step does to a session that is there: its hardware stays, and    *)
(* only the commit of a claim makes it used or changes its link.           *)
(***************************************************************************)
LEMMA SessionStep ==
    ASSUME TypeInv, InsertsOK, [Next]_vars, NEW s \in Sessions, session[s].status # "absent"
    PROVE  /\ session'[s].hw = session[s].hw
           /\ session'[s].status = "used" =>
                \/ session[s].status = "used" /\ session'[s].dev = session[s].dev
                \/ \E r \in Requests : ClaimCommit(r) /\ req[r].sess = s
<1> DEFINE Goal == /\ session'[s].hw = session[s].hw
                   /\ session'[s].status = "used" =>
                        \/ session[s].status = "used" /\ session'[s].dev = session[s].dev
                        \/ \E r \in Requests : ClaimCommit(r) /\ req[r].sess = s
<1>1. session \in [Sessions -> SessionRow]
  BY DEF TypeInv, Shapes, TypeOK
<1>2. CASE UNCHANGED session
  BY <1>2
<1>3. ASSUME NEW r \in Requests, BootstrapTx(r) PROVE Goal
  <2>1. s # req[r].new
    BY <1>3 DEF BootstrapTx, InsertsOK
  <2>2. session'[s] = IF s = req[r].old THEN [session[s] EXCEPT !.status = "cancelled"]
                      ELSE session[s]
    BY <1>3, <2>1 DEF BootstrapTx
  <2> QED
    BY <1>1, <2>2 DEF SessionRow
<1>4. ASSUME NEW r \in Requests, ClaimCommit(r) PROVE Goal
  <2>1. CASE s = req[r].sess
    BY <1>1, <1>4, <2>1 DEF ClaimCommit, SessionRow
  <2>2. CASE s # req[r].sess
    BY <1>1, <1>4, <2>2 DEF ClaimCommit
  <2> QED
    BY <2>1, <2>2
<1>5. ASSUME NEW r \in Requests, ExpireSession(r) PROVE Goal
  BY <1>1, <1>5 DEF ExpireSession, SessionRow
<1>6. ASSUME NEW z \in Sessions, Lapse(z) PROVE Goal
  BY <1>1, <1>6 DEF Lapse, SessionRow
<1> QED
  BY <1>2, <1>3, <1>4, <1>5, <1>6
     DEF Next, Arrive, Continue, vars, BootstrapRead, ClaimRead, PollUsed, PollOver, LoginRead,
         ClaimWrite, ClaimScan, ClaimRollback, Deliver, LoginIssue, CreateDevice, RotateSecret,
         Revoke, Crash

\* A session that is not there is not made used, and appears only by the
\* insert of the bootstrap that has its key.
LEMMA AbsentStep ==
    ASSUME TypeInv, [Next]_vars, NEW s \in Sessions, session[s].status = "absent"
    PROVE  /\ session'[s].status # "used"
           /\ \/ session'[s].status = "absent"
              \/ \E r \in Requests : BootstrapTx(r) /\ req[r].new = s
<1>1. session \in [Sessions -> SessionRow]
  BY DEF TypeInv, Shapes, TypeOK
<1> DEFINE Goal == /\ session'[s].status # "used"
                   /\ \/ session'[s].status = "absent"
                      \/ \E r \in Requests : BootstrapTx(r) /\ req[r].new = s
<1>2. CASE UNCHANGED session
  BY <1>2
<1>3. ASSUME NEW r \in Requests, BootstrapTx(r) PROVE Goal
  <2>1. req[r] \in BootstrapReq
    BY <1>3, RequestShape DEF BootstrapTx, TypeInv, Shapes, TypeOK
  <2>2. s # req[r].old
    BY <1>3, <2>1, NilAssumption DEF BootstrapTx, BootstrapReq, TypeInv, RequestsOK, Found
  <2>3. session'[s] = IF s = req[r].new THEN NewSession(req[r].hw) ELSE session[s]
    BY <1>3, <2>2 DEF BootstrapTx
  <2> QED
    BY <1>3, <2>3 DEF NewSession
<1>4. ASSUME NEW r \in Requests, ClaimCommit(r) PROVE Goal
  <2>1. s # req[r].sess
    BY <1>4 DEF ClaimCommit, TypeInv, RequestsOK, Found, InClaim
  <2> QED
    BY <1>1, <1>4, <2>1 DEF ClaimCommit
<1>5. ASSUME NEW r \in Requests, ExpireSession(r) PROVE Goal
  <2>1. s # req[r].sess
    BY <1>5 DEF ExpireSession, TypeInv, RequestsOK, Found
  <2> QED
    BY <1>1, <1>5, <2>1 DEF ExpireSession
<1>6. ASSUME NEW z \in Sessions, Lapse(z) PROVE Goal
  BY <1>1, <1>6 DEF Lapse, SessionRow
<1> QED
  BY <1>2, <1>3, <1>4, <1>5, <1>6
     DEF Next, Arrive, Continue, vars, BootstrapRead, ClaimRead, PollUsed, PollOver, LoginRead,
         ClaimWrite, ClaimScan, ClaimRollback, Deliver, LoginIssue, CreateDevice, RotateSecret,
         Revoke, Crash

LEMMA UsedStep == TypeInv /\ LinkInv /\ [Next]_vars => UsedSessionOwnsDevice'
<1> SUFFICES ASSUME TypeInv, LinkInv, [Next]_vars, NEW s \in Sessions, session'[s].status = "used"
             PROVE  /\ session'[s].dev \in Devices
                    /\ session'[s].dev[2] = session'[s].hw
                    /\ Exists(session[s].dev)'
  BY DEF UsedSessionOwnsDevice
<1>1. session[s].status # "absent"
  BY AbsentStep
<1>2. session'[s].hw = session[s].hw
  BY <1>1, SessionStep DEF LinkInv
<1>3. CASE session[s].status = "used" /\ session'[s].dev = session[s].dev
  BY <1>2, <1>3, RowsStay DEF LinkInv, UsedSessionOwnsDevice, Exists
<1>4. ASSUME NEW r \in Requests, ClaimCommit(r), req[r].sess = s
      PROVE  /\ session'[s].dev \in Devices
             /\ session'[s].dev[2] = session'[s].hw
             /\ Exists(session[s].dev)'
  <2>1. req[r] \in RevokingReq
    BY <1>4, RequestShape DEF ClaimCommit, TypeInv, Shapes, TypeOK
  <2>2. session'[s].dev = req[r].dev /\ req[r].dev \in Devices
    BY <1>4, <2>1 DEF ClaimCommit, RevokingReq, SessionRow, TypeInv, Shapes, TypeOK
  <2>3. session[s].hw = req[r].dev[2]
    BY <1>4 DEF ClaimCommit, InClaim, LinkInv, ClaimsOK
  <2>4. device'[req[r].dev].version = device[req[r].dev].version + 1
    BY <1>4, <2>2 DEF ClaimCommit, Claimed
  <2>5. device[req[r].dev].version \in Nat
    BY <2>2 DEF TypeInv, Shapes, TypeOK, DeviceRow
  <2> QED
    BY <1>2, <2>2, <2>3, <2>4, <2>5 DEF Exists
<1> QED
  BY <1>1, <1>3, <1>4, SessionStep DEF LinkInv

\* What a step does to a request: nothing, or one of the statements that make
\* or go on with a bootstrap, a claim or a poll, or anything that is none.
LEMMA RequestStep ==
    ASSUME TypeInv, [Next]_vars, NEW p \in Requests
    PROVE  \/ req'[p] = req[p]
           \/ req'[p].at \in {"idle", "login"}
           \/ \E s \in Sessions : PollUsed(p, s) \/ PollOver(p, s)
           \/ \E h \in Hardware : BootstrapRead(p, h)
           \/ \E u \in Users, s \in Sessions : ClaimRead(p, u, s)
           \/ ClaimWrite(p) \/ ClaimScan(p)
<1>1. req \in [Requests -> Request]
  BY DEF TypeInv, Shapes, TypeOK
<1>2. ASSUME NEW r \in Requests, r # p, Arrive(r) \/ Continue(r) \/ ClaimRollback(r)
      PROVE  req'[p] = req[p]
  BY <1>1, <1>2 DEF Arrive, Continue, BootstrapRead, ClaimRead, PollUsed, PollOver, LoginRead, Start,
                    BootstrapTx, ClaimWrite, ClaimScan, ClaimCommit, ClaimRollback, Deliver,
                    ExpireSession, LoginIssue, Finish
<1>3. CASE \/ \E d \in Devices : LoginRead(p, d)
           \/ BootstrapTx(p) \/ ClaimCommit(p) \/ Deliver(p) \/ ExpireSession(p) \/ LoginIssue(p)
           \/ ClaimRollback(p)
  BY <1>1, <1>3 DEF LoginRead, Start, BootstrapTx, ClaimCommit, ClaimRollback,
                    Deliver, ExpireSession, LoginIssue, Finish, Idle
<1>4. CASE \/ \E d \in Devices : CreateDevice(d) \/ RotateSecret(d) \/ Revoke(d)
           \/ \E s \in Sessions : Lapse(s)
           \/ UNCHANGED vars
  BY <1>4 DEF CreateDevice, RotateSecret, Revoke, Lapse, vars
<1>5. CASE Crash
  BY <1>5 DEF Crash, Idle
<1> QED
  BY <1>2, <1>3, <1>4, <1>5 DEF Next, Arrive, Continue

\* A poll that has something to write has neither inserts nor targets.
LEMMA PollStarts ==
    ASSUME TypeInv, NEW p \in Requests, NEW s \in Sessions, PollUsed(p, s) \/ PollOver(p, s)
    PROVE  /\ req'[p].at \in {"deliver", "expire"} /\ UNCHANGED session
           /\ req'[p].at = "expire" => req'[p].sess = s /\ session[s].status # "used"
BY DEF PollUsed, PollOver, Start, TypeInv, Shapes, TypeOK

\* The record a claim goes on with has the session and the device it had.
LEMMA ClaimGoesOn ==
    ASSUME TypeInv, NEW p \in Requests, ClaimWrite(p) \/ ClaimScan(p)
    PROVE  /\ InClaim(p) /\ UNCHANGED session
           /\ req'[p].sess = req[p].sess /\ req'[p].dev = req[p].dev
           /\ req'[p].at = "claimRevoke" => req'[p].targets = LiveDevices(req[p].dev[2]) \ {req[p].dev}
           /\ req'[p].at # "bootstrap"
<1>1. req \in [Requests -> Request]
  BY DEF TypeInv, Shapes, TypeOK
<1>2. CASE ClaimWrite(p)
  <2>1. req[p] \in ClaimReq
    BY <1>1, <1>2, RequestShape DEF ClaimWrite
  <2> QED
    BY <1>1, <1>2, <2>1 DEF ClaimWrite, ClaimReq, InClaim
<1>3. CASE ClaimScan(p)
  BY <1>1, <1>3 DEF ClaimScan, InClaim
<1> QED
  BY <1>2, <1>3

LEMMA ClaimsStep == TypeInv /\ LinkInv /\ [Next]_vars => ClaimsOK'
<1> SUFFICES ASSUME TypeInv, LinkInv, [Next]_vars, NEW p \in Requests, InClaim(p)'
             PROVE  session'[req'[p].sess].hw = req'[p].dev[2]
  BY DEF ClaimsOK
<1>1. req \in [Requests -> Request]
  BY DEF TypeInv, Shapes, TypeOK
<1>2. CASE req'[p] = req[p]
  <2>1. InClaim(p) /\ req[p].sess \in Sessions /\ session[req[p].sess].status # "absent"
    BY <1>1, <1>2, RequestShape DEF InClaim, ClaimReq, RevokingReq, TypeInv, RequestsOK, Found
  <2>2. session'[req[p].sess].hw = session[req[p].sess].hw
    BY <2>1, SessionStep DEF LinkInv
  <2> QED
    BY <1>2, <2>1, <2>2 DEF LinkInv, ClaimsOK
<1>3. CASE ClaimWrite(p) \/ ClaimScan(p)
  BY <1>3, ClaimGoesOn DEF LinkInv, ClaimsOK
<1>4. ASSUME NEW u \in Users, NEW s \in Sessions, ClaimRead(p, u, s)
      PROVE  session'[req'[p].sess].hw = req'[p].dev[2]
  BY <1>1, <1>4 DEF ClaimRead, Start
<1>5. ~\E h \in Hardware : BootstrapRead(p, h)
  BY <1>1 DEF BootstrapRead, Start, InClaim
<1> QED
  BY <1>2, <1>3, <1>4, <1>5, RequestStep, PollStarts DEF InClaim

LEMMA InsertsStep == TypeInv /\ LinkInv /\ [Next]_vars => InsertsOK'
<1> SUFFICES ASSUME TypeInv, LinkInv, [Next]_vars, NEW p \in Requests, req'[p].at = "bootstrap"
             PROVE  /\ session'[req'[p].new].status = "absent"
                    /\ \A q \in Requests \ {p} :
                          req'[q].at = "bootstrap" => req'[q].new # req'[p].new
  BY DEF InsertsOK
<1>1. req \in [Requests -> Request]
  BY DEF TypeInv, Shapes, TypeOK
\* A bootstrap that begins is alone in that step, and takes a key nobody has.
<1>2. ASSUME NEW r \in Requests, NEW h \in Hardware, BootstrapRead(r, h)
      PROVE  /\ req'[r].new \in FreeSessions /\ UNCHANGED session
             /\ \A q \in Requests \ {r} : req'[q] = req[q]
  BY <1>1, <1>2 DEF BootstrapRead, Start
<1>3. ASSUME NEW r \in Requests, req'[r].at = "bootstrap"
      PROVE  req'[r] = req[r] \/ \E h \in Hardware : BootstrapRead(r, h)
  <2>1. ~\E u \in Users, s \in Sessions : ClaimRead(r, u, s)
    BY <1>1, <1>3 DEF ClaimRead, Start
  <2>2. ~(ClaimWrite(r) \/ ClaimScan(r))
    BY <1>3, ClaimGoesOn
  <2> QED
    BY <1>3, <2>1, <2>2, RequestStep, PollStarts
<1>4. ASSUME NEW r \in Requests, req'[r] = req[r], req'[r].at = "bootstrap",
             NEW q \in Requests \ {r}, req'[q].at = "bootstrap"
      PROVE  req'[q].new # req'[r].new
  <2>1. CASE req'[q] = req[q]
    BY <1>4, <2>1 DEF LinkInv, InsertsOK
  <2>2. ASSUME NEW h \in Hardware, BootstrapRead(q, h) PROVE req'[q].new # req'[r].new
    BY <1>2, <1>4, <2>2 DEF FreeSessions, Reserved
  <2> QED
    BY <1>3, <1>4, <2>1, <2>2
<1>5. CASE req'[p] = req[p]
  <2>1. session[req[p].new].status = "absent" /\ req[p].new \in Sessions
    BY <1>1, <1>5, RequestShape DEF BootstrapReq, LinkInv, InsertsOK
  <2>2. ASSUME NEW r \in Requests, BootstrapTx(r), req[r].new = req[p].new PROVE FALSE
    <3>1. r = p
      BY <1>5, <2>2 DEF BootstrapTx, LinkInv, InsertsOK
    <3> QED
      BY <1>1, <1>5, <2>2, <3>1 DEF BootstrapTx, Finish, Idle
  <2> QED
    BY <1>4, <1>5, <2>1, <2>2, AbsentStep
<1>6. ASSUME NEW h \in Hardware, BootstrapRead(p, h)
      PROVE  /\ session'[req'[p].new].status = "absent"
             /\ \A q \in Requests \ {p} : req'[q].at = "bootstrap" => req'[q].new # req'[p].new
  BY <1>2, <1>6 DEF FreeSessions, Reserved
<1> QED
  BY <1>3, <1>5, <1>6

LEMMA TargetsStep == TypeInv /\ LinkInv /\ [Next]_vars => TargetsOK'
<1> SUFFICES ASSUME TypeInv, LinkInv, [Next]_vars, NEW p \in Requests, req'[p].at = "claimRevoke"
             PROVE  \A d \in req'[p].targets : d \in Devices /\ d[2] = req'[p].dev[2]
  BY DEF TargetsOK
<1>1. req \in [Requests -> Request]
  BY DEF TypeInv, Shapes, TypeOK
<1>2. CASE req'[p] = req[p]
  BY <1>2 DEF LinkInv, TargetsOK
<1>3. CASE ClaimWrite(p) \/ ClaimScan(p)
  BY <1>3, ClaimGoesOn DEF LiveDevices, DevicesOf
<1>4. ~\E u \in Users, s \in Sessions : ClaimRead(p, u, s)
  BY <1>1 DEF ClaimRead, Start
<1>5. ~\E h \in Hardware : BootstrapRead(p, h)
  BY <1>1 DEF BootstrapRead, Start
<1> QED
  BY <1>2, <1>3, <1>4, <1>5, RequestStep, PollStarts

LEMMA LinkInvariant == Spec => [](TypeInv /\ LinkInv)
<1>1. Init => TypeInv /\ LinkInv
  BY TypeInvInit, LinkInvInit
<1>2. (TypeInv /\ LinkInv) /\ [Next]_vars => (TypeInv /\ LinkInv)'
  BY TypeInvStep, UsedStep, ClaimsStep, InsertsStep, TargetsStep DEF LinkInv
<1> QED
  BY <1>1, <1>2, PTL DEF Spec

(***************************************************************************)
(* claim-status follows the link of a used session to an existing device   *)
(* of the hardware that asks, whatever raced with the claim.               *)
(***************************************************************************)
THEOREM LinksAreRight == Spec => []UsedSessionOwnsDevice
<1>1. LinkInv => UsedSessionOwnsDevice
  BY DEF LinkInv
<1> QED
  BY <1>1, LinkInvariant, PTL

(***************************************************************************)
(* A claim revokes devices of its own hardware only, and leaves one live:  *)
(* however claims overlap, only an owner's revoke ends the last device.    *)
(***************************************************************************)
THEOREM ClaimsLeaveOneLive == Spec => ClaimsLeaveALiveDevice
<1>1. ASSUME TypeInv, LinkInv, [Next]_vars, NEW h \in Hardware,
             LiveDevices(h) # {}, LiveDevices(h)' = {}
      PROVE  \E d \in Devices : Revoke(d)
  <2>1. PICK d \in Devices : d[2] = h /\ Exists(d) /\ device[d].live
    BY <1>1 DEF LiveDevices, DevicesOf
  <2>2. Exists(d)' /\ ~device'[d].live
    BY <1>1, <2>1, RowsStay DEF LiveDevices, DevicesOf
  <2>3. device \in [Devices -> DeviceRow]
    BY <1>1 DEF TypeInv, Shapes, TypeOK
  <2>4. device' # device
    BY <2>1, <2>2
  <2>5. ASSUME NEW r \in Requests, ClaimCommit(r) PROVE FALSE
    <3>1. PICK d0 \in Devices : d0 = req[r].dev
      BY <1>1, <2>5, RequestShape DEF ClaimCommit, TypeInv, Shapes, TypeOK, RevokingReq
    <3>2. device'[d0] = Claimed(device[d0], req[r].secret)
      BY <2>5, <3>1 DEF ClaimCommit
    <3>3. device'[d0].live /\ Exists(d0)'
      BY <2>3, <3>2 DEF Claimed, Exists, DeviceRow
    <3>4. d = d0 \/ d \in req[r].targets
      BY <2>1, <2>2, <2>5, <3>1 DEF ClaimCommit
    <3>5. d0[2] = h
      BY <1>1, <2>1, <2>5, <3>1, <3>4 DEF ClaimCommit, LinkInv, TargetsOK
    <3> QED
      BY <1>1, <3>3, <3>5 DEF LiveDevices, DevicesOf
  <2>6. ASSUME NEW r \in Requests, Deliver(r) PROVE FALSE
    BY <2>1, <2>2, <2>3, <2>6 DEF Deliver, DeviceRow
  <2>7. ASSUME NEW e \in Devices, CreateDevice(e) PROVE FALSE
    BY <2>1, <2>2, <2>3, <2>7 DEF CreateDevice, DeviceRow
  <2>8. ASSUME NEW e \in Devices, RotateSecret(e) PROVE FALSE
    BY <2>1, <2>2, <2>3, <2>8 DEF RotateSecret, DeviceRow
  <2> QED
    BY <1>1, <2>4, <2>5, <2>6, <2>7, <2>8
       DEF Next, Arrive, Continue, vars, BootstrapRead, BootstrapTx, ClaimRead, ClaimWrite, ClaimScan,
           ClaimRollback, PollUsed, PollOver, ExpireSession, LoginRead, LoginIssue, Lapse, Crash
<1>2. TypeInv /\ LinkInv /\ [Next]_vars
        => [\A h \in Hardware : LiveDevices(h) # {} /\ LiveDevices(h)' = {}
               => \E d \in Devices : Revoke(d)]_vars
  BY <1>1
<1> QED
  BY <1>2, LinkInvariant, PTL DEF Spec, ClaimsLeaveALiveDevice

(***************************************************************************)
(* The secret that waits for a device is the one that logs it in, until    *)
(* its owner rotates: a claim sets both, and a poll only takes it away.    *)
(***************************************************************************)
THEOREM OnlyRotationsPart == Spec => OnlyRotationParts
<1>1. ASSUME TypeInv, [Next]_vars, NEW d \in Devices, device[d].post \in {0, device[d].secret},
             ~RotateSecret(d)
      PROVE  device'[d].post \in {0, device'[d].secret}
  <2>1. device \in [Devices -> DeviceRow]
    BY <1>1 DEF TypeInv, Shapes, TypeOK
  <2>2. CASE UNCHANGED device
    BY <1>1, <2>2
  <2>3. ASSUME NEW r \in Requests, ClaimCommit(r) PROVE device'[d].post \in {0, device'[d].secret}
    <3>1. device'[d] = IF d = req[r].dev THEN Claimed(device[d], req[r].secret)
                       ELSE IF d \in req[r].targets THEN [device[d] EXCEPT !.live = FALSE]
                       ELSE device[d]
      BY <2>3 DEF ClaimCommit
    <3> QED
      BY <1>1, <2>1, <3>1 DEF Claimed, DeviceRow
  <2>4. ASSUME NEW r \in Requests, Deliver(r) PROVE device'[d].post \in {0, device'[d].secret}
    BY <1>1, <2>1, <2>4 DEF Deliver, DeviceRow
  <2>5. ASSUME NEW e \in Devices, CreateDevice(e) PROVE device'[d].post \in {0, device'[d].secret}
    BY <1>1, <2>1, <2>5 DEF CreateDevice, DeviceRow
  <2>6. ASSUME NEW e \in Devices, RotateSecret(e) PROVE device'[d].post \in {0, device'[d].secret}
    BY <1>1, <2>1, <2>6 DEF RotateSecret, DeviceRow
  <2>7. ASSUME NEW e \in Devices, Revoke(e) PROVE device'[d].post \in {0, device'[d].secret}
    BY <1>1, <2>1, <2>7 DEF Revoke, DeviceRow
  <2> QED
    BY <1>1, <2>2, <2>3, <2>4, <2>5, <2>6, <2>7
       DEF Next, Arrive, Continue, vars, BootstrapRead, BootstrapTx, ClaimRead, ClaimWrite, ClaimScan,
           ClaimRollback, PollUsed, PollOver, ExpireSession, LoginRead, LoginIssue, Lapse, Crash
<1>2. TypeInv /\ [Next]_vars
        => [\A d \in Devices : device[d].post \in {0, device[d].secret}
               => device'[d].post \in {0, device'[d].secret} \/ RotateSecret(d)]_vars
  BY <1>1
<1> QED
  BY <1>2, LinkInvariant, PTL DEF Spec, OnlyRotationParts

-----------------------------------------------------------------------------
(***************************************************************************)
(* What overlap leaves of the promises of bootstraps and claims            *)
(* (ProvisioningOverlap).  As long as no bootstrap of a hardware crossed   *)
(* another, one that is under way knows the only session that is open; as  *)
(* long as no claim did, one about to commit revokes every other live      *)
(* device; and who is going to write a used session has been overtaken.    *)
(***************************************************************************)
UrlOK ==
    \A h \in Hardware \ bootstraps :
        /\ AtMostOneOpen(h)
        /\ \A r \in Bootstrapping(h) : OpenSessions(h) \subseteq {req[r].old}

LiveOK ==
    \A h \in Hardware \ claims :
        /\ AtMostOneLive(h)
        /\ \A r \in Revoking(h) : LiveDevices(h) \subseteq req[r].targets \cup {req[r].dev}

OvertakenOK ==
    \A r \in Requests, s \in Sessions : Writes(r, s) /\ session[s].status = "used" => r \in overtaken

OverlapInv == UrlOK /\ LiveOK /\ OvertakenOK

LEMMA OverlapInvInit == OverlapInit => OverlapInv
BY DEF OverlapInit, Init, OverlapInv, UrlOK, LiveOK, OvertakenOK, AtMostOneOpen, AtMostOneLive,
       OpenSessions, LiveDevices, DevicesOf, Bootstrapping, Revoking, Writes, InClaim, Idle,
       NoSession, NoDevice

\* The clock closes sessions and opens none.
LEMMA LapseCloses ==
    ASSUME TypeInv, NEW s \in Sessions, Lapse(s), NEW h \in Hardware
    PROVE  OpenSessions(h)' \subseteq OpenSessions(h)
<1>1. session \in [Sessions -> SessionRow]
  BY DEF TypeInv, Shapes, TypeOK
<1>2. \A t \in Sessions : /\ session'[t].status = session[t].status
                          /\ session'[t].hw = session[t].hw
                          /\ session[t].lapsed => session'[t].lapsed
  BY <1>1 DEF Lapse, SessionRow
<1> QED
  BY <1>2 DEF OpenSessions

\* Only the transaction of a bootstrap opens a session, and it closes the one
\* that it has found.
LEMMA OnlyBootstrapsOpen ==
    ASSUME TypeInv, Next, NEW h \in Hardware
    PROVE  \/ OpenSessions(h)' \subseteq OpenSessions(h)
           \/ \E r \in Bootstrapping(h) :
                 /\ BootstrapTx(r)
                 /\ OpenSessions(h)' \subseteq (OpenSessions(h) \ {req[r].old}) \cup {req[r].new}
<1> DEFINE Goal == \/ OpenSessions(h)' \subseteq OpenSessions(h)
                   \/ \E r \in Bootstrapping(h) :
                         /\ BootstrapTx(r)
                         /\ OpenSessions(h)' \subseteq (OpenSessions(h) \ {req[r].old}) \cup {req[r].new}
<1>1. session \in [Sessions -> SessionRow] /\ req \in [Requests -> Request]
  BY DEF TypeInv, Shapes, TypeOK
<1>2. ASSUME UNCHANGED session PROVE Goal
  BY <1>2 DEF OpenSessions
<1>3. ASSUME NEW r \in Requests, BootstrapTx(r) PROVE Goal
  <2>1. req[r] \in BootstrapReq
    BY <1>1, <1>3, RequestShape DEF BootstrapTx
  <2>2. \A z \in Sessions : session'[z] = IF z = req[r].new THEN NewSession(req[r].hw)
                                          ELSE IF z = req[r].old THEN [session[z] EXCEPT !.status = "cancelled"]
                                          ELSE session[z]
    BY <1>3 DEF BootstrapTx
  <2>3. OpenSessions(h)' \subseteq (OpenSessions(h) \ {req[r].old}) \cup {req[r].new}
    BY <1>1, <2>2 DEF OpenSessions, SessionRow
  <2>4. CASE req[r].hw = h
    <3>1. r \in Bootstrapping(h)
      BY <1>3, <2>4 DEF BootstrapTx, Bootstrapping
    <3> QED
      BY <1>3, <2>3, <3>1
  <2>5. CASE req[r].hw # h
    <3>1. req[r].new \in Sessions
      BY <2>1 DEF BootstrapReq
    <3>2. session'[req[r].new] = NewSession(req[r].hw)
      BY <2>2, <3>1
    <3>3. session'[req[r].new].hw = req[r].hw
      BY <3>2 DEF NewSession
    <3>4. req[r].new \notin OpenSessions(h)'
      BY <2>5, <3>3 DEF OpenSessions
    <3> QED
      BY <2>3, <3>4
  <2> QED
    BY <2>4, <2>5
<1>4. ASSUME NEW r \in Requests, ClaimCommit(r) PROVE Goal
  BY <1>1, <1>4 DEF ClaimCommit, OpenSessions, SessionRow
<1>5. ASSUME NEW r \in Requests, ExpireSession(r) PROVE Goal
  BY <1>1, <1>5 DEF ExpireSession, OpenSessions, SessionRow
<1>6. ASSUME NEW z \in Sessions, Lapse(z) PROVE Goal
  BY <1>6, LapseCloses
<1> HIDE DEF Goal
<1>7. Goal
  BY <1>2, <1>3, <1>4, <1>5, <1>6
     DEF Next, Arrive, Continue, BootstrapRead, ClaimRead, PollUsed, PollOver, LoginRead,
         ClaimWrite, ClaimScan, ClaimRollback, Deliver, LoginIssue, CreateDevice, RotateSecret,
         Revoke, Crash
<1> QED
  BY <1>7 DEF Goal

\* The bootstraps under way after a step were so before, or have just looked.
LEMMA BootstrapsUnderWay ==
    ASSUME TypeInv, Next, NEW h \in Hardware, NEW p \in Bootstrapping(h)'
    PROVE  \/ req'[p] = req[p] /\ p \in Bootstrapping(h)
           \/ /\ BootstrapRead(p, h) /\ UNCHANGED session
              /\ req'[p].old \in IF OpenSessions(h) = {} THEN {Nil} ELSE OpenSessions(h)
<1>1. req \in [Requests -> Request]
  BY DEF TypeInv, Shapes, TypeOK
<1>2. p \in Requests /\ req'[p].at = "bootstrap" /\ req'[p].hw = h
  BY DEF Bootstrapping
<1>3. ASSUME NEW g \in Hardware, BootstrapRead(p, g)
      PROVE  /\ g = h /\ UNCHANGED session
             /\ req'[p].old \in IF OpenSessions(h) = {} THEN {Nil} ELSE OpenSessions(h)
  BY <1>1, <1>2, <1>3 DEF BootstrapRead, Start
<1>4. ~\E u \in Users, s \in Sessions : ClaimRead(p, u, s)
  BY <1>1, <1>2 DEF ClaimRead, Start
<1>5. ~(ClaimWrite(p) \/ ClaimScan(p)) /\ ~\E s \in Sessions : PollUsed(p, s) \/ PollOver(p, s)
  BY <1>2, ClaimGoesOn, PollStarts
<1> QED
  BY <1>2, <1>3, <1>4, <1>5, RequestStep DEF Bootstrapping

LEMMA UrlStep == TypeInv /\ UrlOK /\ Next /\ Remember => UrlOK'
<1> SUFFICES ASSUME TypeInv, UrlOK, Next, Remember, NEW h \in Hardware, h \notin bootstraps'
             PROVE  /\ AtMostOneOpen(h)'
                    /\ \A r \in Bootstrapping(h)' : OpenSessions(h)' \subseteq {req'[r].old}
  BY DEF UrlOK
<1>1. req \in [Requests -> Request]
  BY DEF TypeInv, Shapes, TypeOK
<1>2. \/ AtMostOneOpen(h)' /\ Bootstrapping(h)' = {}
      \/ h \notin bootstraps /\ ~BootstrapsCross(h)
  BY DEF Remember
<1>3. CASE h \notin bootstraps /\ OpenSessions(h)' \subseteq OpenSessions(h)
  <2>1. AtMostOneOpen(h)'
    BY <1>3 DEF UrlOK, AtMostOneOpen
  <2>2. ASSUME NEW p \in Bootstrapping(h)' PROVE OpenSessions(h)' \subseteq {req'[p].old}
    BY <1>3, <2>2, BootstrapsUnderWay DEF UrlOK, AtMostOneOpen
  <2> QED
    BY <2>1, <2>2
<1>4. ASSUME h \notin bootstraps, ~BootstrapsCross(h), NEW r \in Bootstrapping(h), BootstrapTx(r),
             OpenSessions(h)' \subseteq (OpenSessions(h) \ {req[r].old}) \cup {req[r].new}
      PROVE  AtMostOneOpen(h)' /\ Bootstrapping(h)' = {}
  <2>1. OpenSessions(h)' \subseteq {req[r].new}
    BY <1>4 DEF UrlOK
  <2>2. Bootstrapping(h) = {r}
    BY <1>4 DEF BootstrapsCross
  <2>3. req'[r] = Idle /\ \A p \in Requests \ {r} : req'[p] = req[p]
    BY <1>1, <1>4 DEF BootstrapTx, Finish, Bootstrapping
  <2> QED
    BY <2>1, <2>2, <2>3 DEF AtMostOneOpen, Bootstrapping, Idle
<1> QED
  BY <1>2, <1>3, <1>4, OnlyBootstrapsOpen

\* A device comes to life by the commit of a claim of its hardware, or by
\* POST /devices.
LEMMA OnlyClaimsEnliven ==
    ASSUME TypeInv, Next, NEW h \in Hardware
    PROVE  \/ LiveDevices(h)' \subseteq LiveDevices(h)
           \/ \E u \in Users : CreateDevice(<<u, h>>)
           \/ \E r \in Revoking(h) : ClaimCommit(r)
<1> SUFFICES ASSUME ~\E u \in Users : CreateDevice(<<u, h>>), ~\E r \in Revoking(h) : ClaimCommit(r)
             PROVE  \A d \in Devices : d[2] = h /\ device'[d].live => device[d].live
  BY DEF LiveDevices, DevicesOf, TypeInv, Shapes, RowsOK
<1> DEFINE Goal == \A d \in Devices : d[2] = h /\ device'[d].live => device[d].live
<1>1. device \in [Devices -> DeviceRow]
  BY DEF TypeInv, Shapes, TypeOK
<1>2. ASSUME NEW r \in Requests, ClaimCommit(r) PROVE Goal
  <2>1. req[r].dev[2] # h
    BY <1>2 DEF ClaimCommit, Revoking
  <2> QED
    BY <1>1, <1>2, <2>1 DEF ClaimCommit, DeviceRow
<1>3. ASSUME NEW r \in Requests, Deliver(r) PROVE Goal
  BY <1>1, <1>3 DEF Deliver, DeviceRow
<1>4. ASSUME NEW e \in Devices, CreateDevice(e) PROVE Goal
  <2>1. e[2] # h
    BY <1>4 DEF Devices
  <2> QED
    BY <1>1, <1>4, <2>1 DEF CreateDevice, DeviceRow
<1>5. ASSUME NEW e \in Devices, RotateSecret(e) PROVE Goal
  BY <1>1, <1>5 DEF RotateSecret, DeviceRow
<1>6. ASSUME NEW e \in Devices, Revoke(e) PROVE Goal
  BY <1>1, <1>6 DEF Revoke, DeviceRow
<1>7. ASSUME UNCHANGED device PROVE Goal
  BY <1>7
<1> HIDE DEF Goal
<1>8. Goal
  BY <1>2, <1>3, <1>4, <1>5, <1>6, <1>7
     DEF Next, Arrive, Continue, BootstrapRead, BootstrapTx, ClaimRead, ClaimWrite, ClaimScan,
         ClaimRollback, PollUsed, PollOver, ExpireSession, LoginRead, LoginIssue, Lapse, Crash
<1> QED
  BY <1>8 DEF Goal

\* The claims about to commit after a step were so before, or have just picked
\* every other live device of their hardware.
LEMMA ClaimsUnderWay ==
    ASSUME TypeInv, Next, NEW h \in Hardware, NEW p \in Revoking(h)'
    PROVE  \/ req'[p] = req[p] /\ p \in Revoking(h)
           \/ LiveDevices(h) \subseteq req'[p].targets \cup {req'[p].dev}
<1>1. req \in [Requests -> Request]
  BY DEF TypeInv, Shapes, TypeOK
<1>2. p \in Requests /\ req'[p].at = "claimRevoke" /\ req'[p].dev[2] = h
  BY DEF Revoking
<1>3. CASE ClaimWrite(p) \/ ClaimScan(p)
  BY <1>2, <1>3, ClaimGoesOn
<1>4. ~\E u \in Users, s \in Sessions : ClaimRead(p, u, s)
  BY <1>1, <1>2 DEF ClaimRead, Start
<1>5. ~\E g \in Hardware : BootstrapRead(p, g)
  BY <1>1, <1>2 DEF BootstrapRead, Start
<1>6. ~\E s \in Sessions : PollUsed(p, s) \/ PollOver(p, s)
  BY <1>2, PollStarts
<1> QED
  BY <1>2, <1>3, <1>4, <1>5, <1>6, RequestStep DEF Revoking

LEMMA LiveStep == TypeInv /\ LiveOK /\ Next /\ Remember => LiveOK'
<1> SUFFICES ASSUME TypeInv, LiveOK, Next, Remember, NEW h \in Hardware, h \notin claims'
             PROVE  /\ AtMostOneLive(h)'
                    /\ \A r \in Revoking(h)' : LiveDevices(h)' \subseteq req'[r].targets \cup {req'[r].dev}
  BY DEF LiveOK
<1>1. req \in [Requests -> Request] /\ device \in [Devices -> DeviceRow]
  BY DEF TypeInv, Shapes, TypeOK
<1>2. \/ AtMostOneLive(h)' /\ Revoking(h)' = {}
      \/ h \notin claims /\ ~ClaimsCross(h)
  BY DEF Remember
<1>3. CASE h \notin claims /\ LiveDevices(h)' \subseteq LiveDevices(h)
  <2>1. AtMostOneLive(h)'
    BY <1>3 DEF LiveOK, AtMostOneLive
  <2>2. ASSUME NEW p \in Revoking(h)'
        PROVE  LiveDevices(h)' \subseteq req'[p].targets \cup {req'[p].dev}
    BY <1>3, <2>2, ClaimsUnderWay DEF LiveOK
  <2> QED
    BY <2>1, <2>2
<1>4. ASSUME h \notin claims, ~ClaimsCross(h), NEW r \in Revoking(h), ClaimCommit(r)
      PROVE  AtMostOneLive(h)' /\ Revoking(h)' = {}
  <2>1. \A z \in Devices : z # req[r].dev /\ device'[z].live =>
            z \notin req[r].targets /\ device'[z] = device[z]
    BY <1>1, <1>4 DEF ClaimCommit, DeviceRow
  <2>2. LiveDevices(h)' \subseteq {req[r].dev}
    BY <1>4, <2>1 DEF LiveOK, LiveDevices, DevicesOf, Exists
  <2>3. Revoking(h) = {r}
    BY <1>4 DEF ClaimsCross
  <2>4. req'[r] = Idle /\ \A p \in Requests \ {r} : req'[p] = req[p]
    BY <1>1, <1>4 DEF ClaimCommit, Finish, Revoking
  <2> QED
    BY <2>2, <2>3, <2>4 DEF AtMostOneLive, Revoking, Idle
<1> QED
  BY <1>2, <1>3, <1>4, OnlyClaimsEnliven DEF ClaimsCross

LEMMA OvertakenStep == TypeInv /\ OvertakenOK /\ Next /\ Remember => OvertakenOK'
<1> SUFFICES ASSUME TypeInv, OvertakenOK, Next, Remember, NEW p \in Requests, NEW s \in Sessions,
                    Writes(p, s)', session'[s].status = "used"
             PROVE  p \in overtaken'
  BY DEF OvertakenOK
<1>1. req \in [Requests -> Request]
  BY DEF TypeInv, Shapes, TypeOK
<1>2. req'[p].at \in {"bootstrap", "claim", "claimScan", "claimRevoke", "expire"}
  BY DEF Writes, InClaim
<1>3. CASE Writes(p, s)
  BY <1>2, <1>3 DEF OvertakenOK, Remember, Overtakes, Idle
<1>4. CASE ~Writes(p, s)
  <2>1. req'[p] # req[p]
    BY <1>4 DEF Writes, InClaim
  <2>2. ASSUME NEW z \in Sessions, PollUsed(p, z) \/ PollOver(p, z) PROVE FALSE
    BY <1>2, <2>2, PollStarts DEF Writes, InClaim
  <2>3. ASSUME NEW h \in Hardware, BootstrapRead(p, h) PROVE FALSE
    <3>1. /\ req'[p].at = "bootstrap" /\ UNCHANGED session
          /\ req'[p].old \in IF OpenSessions(h) = {} THEN {Nil} ELSE OpenSessions(h)
      BY <1>1, <2>3 DEF BootstrapRead, Start
    <3> QED
      BY <3>1, NilAssumption DEF Writes, InClaim, OpenSessions
  <2>4. ASSUME NEW u \in Users, NEW z \in Sessions, ClaimRead(p, u, z) PROVE FALSE
    BY <1>1, <2>4 DEF ClaimRead, Start, Writes, InClaim
  <2>5. ASSUME ClaimWrite(p) \/ ClaimScan(p) PROVE FALSE
    BY <1>4, <2>5, ClaimGoesOn DEF Writes
  <2> QED
    BY <1>2, <2>1, <2>2, <2>3, <2>4, <2>5, RequestStep
<1> QED
  BY <1>3, <1>4

LEMMA OverlapInvariant == OverlapSpec => [](TypeInv /\ LinkInv /\ OverlapInv)
<1>1. OverlapInit => TypeInv /\ LinkInv /\ OverlapInv
  BY OverlapInvInit, TypeInvInit, LinkInvInit DEF OverlapInit
<1>2. ASSUME TypeInv, LinkInv, OverlapInv, [Next /\ Remember]_<<vars, history>>
      PROVE  (TypeInv /\ LinkInv /\ OverlapInv)'
  <2>1. [Next]_vars
    BY <1>2 DEF vars, history
  <2>2. (TypeInv /\ LinkInv)'
    BY <1>2, <2>1, TypeInvStep, UsedStep, ClaimsStep, InsertsStep, TargetsStep DEF LinkInv
  <2>3. CASE Next /\ Remember
    <3>1. TypeInv /\ UrlOK /\ LiveOK /\ OvertakenOK
      BY <1>2 DEF OverlapInv
    <3>2. UrlOK' /\ LiveOK' /\ OvertakenOK'
      BY <2>3, <3>1, UrlStep, LiveStep, OvertakenStep
    <3> QED
      BY <2>2, <3>2 DEF OverlapInv
  <2>4. CASE UNCHANGED <<vars, history>>
    <3>1. UNCHANGED <<device, session, req, bootstraps, claims, overtaken>>
      BY <2>4 DEF vars, history
    <3>2. UrlOK' /\ LiveOK' /\ OvertakenOK'
      <4>1. UrlOK'
        BY <1>2, <3>1 DEF OverlapInv, UrlOK, AtMostOneOpen, OpenSessions, Bootstrapping
      <4>2. LiveOK'
        BY <1>2, <3>1 DEF OverlapInv, LiveOK, AtMostOneLive, LiveDevices, DevicesOf, Exists, Revoking
      <4>3. OvertakenOK'
        BY <1>2, <3>1 DEF OverlapInv, OvertakenOK, Writes, InClaim
      <4> QED
        BY <4>1, <4>2, <4>3
    <3> QED
      BY <2>2, <3>2 DEF OverlapInv
  <2> QED
    BY <1>2, <2>2, <2>3, <2>4
<1> QED
  BY <1>1, <1>2, PTL DEF OverlapSpec

(***************************************************************************)
(* No cancel, expiry or second confirm touches a used session, but for a   *)
(* request that was under way when a claim used it (claim.service.ts,      *)
(* bootstrap.service.ts).                                                  *)
(***************************************************************************)
THEOREM UsedStays == OverlapSpec => UsedIsFinal
<1>1. ASSUME TypeInv, LinkInv, OverlapInv, Next, NEW s \in Sessions,
             session[s].status = "used", session'[s] # session[s]
      PROVE  \E r \in overtaken : Writes(r, s)
  <2>1. session \in [Sessions -> SessionRow] /\ req \in [Requests -> Request]
    BY <1>1 DEF TypeInv, Shapes, TypeOK
  <2>2. SUFFICES \E r \in Requests : Writes(r, s)
    BY <1>1 DEF OverlapInv, OvertakenOK
  <2>3. ASSUME NEW r \in Requests, BootstrapTx(r) PROVE Writes(r, s)
    <3>1. s # req[r].new
      BY <1>1, <2>3 DEF BootstrapTx, LinkInv, InsertsOK
    <3> QED
      BY <1>1, <2>3, <3>1 DEF BootstrapTx, Writes
  <2>4. ASSUME NEW r \in Requests, ClaimCommit(r) PROVE Writes(r, s)
    BY <1>1, <2>1, <2>4 DEF ClaimCommit, Writes, InClaim
  <2>5. ASSUME NEW r \in Requests, ExpireSession(r) PROVE Writes(r, s)
    BY <1>1, <2>1, <2>5 DEF ExpireSession, Writes
  <2>6. ASSUME NEW z \in Sessions, Lapse(z) PROVE FALSE
    BY <1>1, <2>1, <2>6 DEF Lapse
  <2> QED
    BY <1>1, <2>3, <2>4, <2>5, <2>6
       DEF Next, Arrive, Continue, BootstrapRead, ClaimRead, PollUsed, PollOver, LoginRead,
           ClaimWrite, ClaimScan, ClaimRollback, Deliver, LoginIssue, CreateDevice, RotateSecret,
           Revoke, Crash
<1>2. TypeInv /\ LinkInv /\ OverlapInv /\ [Next /\ Remember]_<<vars, history>>
        => [\A s \in Sessions : session[s].status = "used" /\ session'[s] # session[s]
              => \E r \in overtaken : Writes(r, s)]_<<vars, history>>
  BY <1>1
<1> QED
  BY <1>2, OverlapInvariant, PTL DEF OverlapSpec, UsedIsFinal

\* A set whose members are all the same has at most one.
LEMMA AtMostOne ==
    ASSUME NEW S, \A x, y \in S : x = y
    PROVE  Cardinality(S) <= 1
<1>1. CASE S = {}
  BY <1>1, FS_EmptySet
<1>2. ASSUME NEW x \in S PROVE Cardinality(S) <= 1
  <2>1. S = {x}
    OBVIOUS
  <2> QED
    BY <2>1, FS_Singleton
<1> QED
  BY <1>1, <1>2

(***************************************************************************)
(* A hardware has two claim URLs that work only after bootstraps of it     *)
(* have crossed (bootstrap.service.ts).                                    *)
(***************************************************************************)
THEOREM OneUrl == OverlapSpec => []OneOpenSession
<1>1. OverlapInv => OneOpenSession
  BY AtMostOne DEF OverlapInv, UrlOK, AtMostOneOpen, OneOpenSession
<1> QED
  BY <1>1, OverlapInvariant, PTL

(***************************************************************************)
(* A hardware has two live devices only after POST /devices or after       *)
(* claims of it have crossed (claim.service.ts, the comment in             *)
(* bootstrap.service.ts).                                                  *)
(***************************************************************************)
THEOREM OneDevice == OverlapSpec => []OneLiveDevice
<1>1. OverlapInv => OneLiveDevice
  BY AtMostOne DEF OverlapInv, LiveOK, AtMostOneLive, OneLiveDevice
<1> QED
  BY <1>1, OverlapInvariant, PTL

(***************************************************************************)
(* SecretShownOnce is not inductive.  What waits in a row has not been     *)
(* shown and waits in no other row; the secret of a claim in flight has    *)
(* not been shown either and is in no row and with no other request, so    *)
(* that its commit puts a fresh one there; and a poll carries what waits   *)
(* nowhere but in the row it is about to clear.                            *)
(***************************************************************************)
Unshown == (1..drawn) \ shown

PostsOK ==
    \A d \in Devices : device[d].post # 0 =>
        /\ device[d].post \in Unshown
        /\ \A e \in Devices \ {d} : device[e].post # device[d].post

ClaimedOK ==
    \A r \in Requests : InClaim(r) =>
        /\ req[r].secret \in Unshown
        /\ \A d \in Devices : device[d].post # req[r].secret

PolledOK ==
    \A r \in Requests : req[r].at = "deliver" =>
        /\ req[r].secret \in 1..drawn
        /\ \A d \in Devices \ {req[r].dev} : device[d].post # req[r].secret

ApartOK ==
    \A r, p \in Requests :
        r # p /\ InClaim(r) /\ (InClaim(p) \/ req[p].at = "deliver") => req[p].secret # req[r].secret

SecretInv == shown \subseteq 1..drawn /\ PostsOK /\ ClaimedOK /\ PolledOK /\ ApartOK

LEMMA SecretInvInit == Init => SecretInv
BY DEF Init, SecretInv, PostsOK, ClaimedOK, PolledOK, ApartOK, Unshown, NoDevice, Idle, InClaim

\* A claim in flight has the secret it had, or has just drawn it.
LEMMA ClaimCarries ==
    ASSUME TypeInv, [Next]_vars, NEW p \in Requests, InClaim(p)'
    PROVE  \/ InClaim(p) /\ req'[p].secret = req[p].secret
           \/ \E u \in Users, s \in Sessions : ClaimRead(p, u, s)
<1>1. req \in [Requests -> Request]
  BY DEF TypeInv, Shapes, TypeOK
<1>2. ASSUME ClaimWrite(p) PROVE req'[p].secret = req[p].secret
  <2>1. req[p] \in ClaimReq
    BY <1>1, <1>2, RequestShape DEF ClaimWrite
  <2> QED
    BY <1>1, <1>2, <2>1 DEF ClaimWrite, ClaimReq
<1>3. ASSUME ClaimScan(p) PROVE req'[p].secret = req[p].secret
  BY <1>1, <1>3 DEF ClaimScan
<1>4. ~\E h \in Hardware : BootstrapRead(p, h)
  BY <1>1 DEF BootstrapRead, Start, InClaim
<1> QED
  BY <1>2, <1>3, <1>4, RequestStep, PollStarts, ClaimGoesOn DEF InClaim

\* A poll about to deliver is as it was, or has just read what waits in its row.
LEMMA PollCarries ==
    ASSUME TypeInv, [Next]_vars, NEW p \in Requests, req'[p].at = "deliver"
    PROVE  \/ req'[p] = req[p]
           \/ /\ UNCHANGED <<device, drawn, shown>>
              /\ \E d \in Devices : /\ req'[p].dev = d /\ req'[p].secret = device[d].post
                                    /\ device[d].post # 0
<1>1. req \in [Requests -> Request]
  BY DEF TypeInv, Shapes, TypeOK
<1>2. ASSUME NEW s \in Sessions, PollUsed(p, s)
      PROVE  /\ UNCHANGED <<device, drawn, shown>>
             /\ \E d \in Devices : /\ req'[p].dev = d /\ req'[p].secret = device[d].post
                                   /\ device[d].post # 0
  <2>1. session[s].dev \in Devices
    BY <1>2 DEF PollUsed, TypeInv, Shapes, SessionsOK
  <2> QED
    BY <1>1, <1>2, <2>1 DEF PollUsed, Start
<1>3. ~\E s \in Sessions : PollOver(p, s)
  BY <1>1 DEF PollOver, Start
<1>4. ~\E h \in Hardware : BootstrapRead(p, h)
  BY <1>1 DEF BootstrapRead, Start
<1>5. ~\E u \in Users, s \in Sessions : ClaimRead(p, u, s)
  BY <1>1 DEF ClaimRead, Start
<1>6. ASSUME ClaimWrite(p) \/ ClaimScan(p) PROVE FALSE
  <2>1. CASE ClaimScan(p)
    BY <1>1, <2>1 DEF ClaimScan
  <2>2. CASE ClaimWrite(p)
    <3>1. req[p] \in ClaimReq
      BY <1>1, <2>2, RequestShape DEF ClaimWrite
    <3> QED
      BY <1>1, <2>2, <3>1 DEF ClaimWrite, ClaimReq
  <2> QED
    BY <1>6, <2>1, <2>2
<1> QED
  BY <1>2, <1>3, <1>4, <1>5, <1>6, RequestStep

\* A request that was there keeps apart from the claims that were; the secret
\* of a claim that begins is greater than all there are.
LEMMA ApartStep == TypeInv /\ SecretInv /\ [Next]_vars => ApartOK'
<1> SUFFICES ASSUME TypeInv, SecretInv, [Next]_vars, NEW r \in Requests, NEW p \in Requests, r # p,
                    InClaim(r)', InClaim(p)' \/ req'[p].at = "deliver"
             PROVE  req'[p].secret # req'[r].secret
  BY DEF ApartOK
<1>1. req \in [Requests -> Request] /\ drawn \in Nat /\ 0 \notin Unshown
  BY BoundAssumption DEF TypeInv, Shapes, TypeOK, Unshown
<1> DEFINE Old(q) == (InClaim(q) \/ req[q].at = "deliver") /\ req'[q].secret = req[q].secret
<1>2. ASSUME NEW q \in Requests, Old(q) PROVE req'[q].secret \in 1..drawn
  BY <1>2 DEF SecretInv, ClaimedOK, PolledOK, Unshown
<1>3. ASSUME NEW q \in Requests, NEW t \in Requests, q # t, NEW u \in Users, NEW s \in Sessions,
             ClaimRead(q, u, s)
      PROVE  req'[q].secret = drawn + 1 /\ req'[t] = req[t] /\ drawn' # drawn
  BY <1>1, <1>3 DEF ClaimRead, Start
<1>4. ASSUME NEW q \in Requests, req'[q].at = "deliver", req'[q] # req[q]
      PROVE  /\ drawn' = drawn
             /\ \E d \in Devices : req'[q].secret = device[d].post
  BY <1>4, PollCarries
<1>5. ASSUME NEW q \in Requests, InClaim(q)', ~InClaim(q) \/ req'[q].secret # req[q].secret
      PROVE  \E u \in Users, s \in Sessions : ClaimRead(q, u, s)
  BY <1>5, ClaimCarries
<1>6. CASE Old(r) /\ InClaim(r) /\ Old(p)
  BY <1>6 DEF SecretInv, ApartOK
<1>7. CASE Old(r) /\ InClaim(r) /\ ~Old(p)
  <2>1. CASE InClaim(p)'
    <3>1. req'[p].secret = drawn + 1
      BY <1>3, <1>5, <1>7, <2>1
    <3> QED
      BY <1>1, <1>2, <1>7, <3>1
  <2>2. CASE req'[p].at = "deliver"
    BY <1>4, <1>7, <2>2 DEF SecretInv, ClaimedOK
  <2> QED
    BY <2>1, <2>2
<1>8. CASE ~(Old(r) /\ InClaim(r))
  <2>1. PICK u \in Users, s \in Sessions : ClaimRead(r, u, s)
    BY <1>5, <1>8
  <2>2. req'[r].secret = drawn + 1 /\ req'[p] = req[p]
    BY <1>3, <2>1
  <2>3. Old(p)
    BY <2>2 DEF InClaim
  <2> QED
    BY <1>1, <1>2, <2>2, <2>3
<1> QED
  BY <1>6, <1>7, <1>8

LEMMA SecretStep == TypeInv /\ SecretInv /\ [Next]_vars => SecretInv'
<1> SUFFICES ASSUME TypeInv, SecretInv, [Next]_vars
             PROVE  shown' \subseteq 1..drawn' /\ PostsOK' /\ ClaimedOK' /\ PolledOK'
  BY ApartStep DEF SecretInv
<1>0. /\ req \in [Requests -> Request] /\ device \in [Devices -> DeviceRow]
      /\ drawn \in Nat /\ 0 \notin Unshown
  BY BoundAssumption DEF TypeInv, Shapes, TypeOK, Unshown
<1> DEFINE Kept == shown' \subseteq 1..drawn' /\ PostsOK' /\ ClaimedOK' /\ PolledOK'
\* Nothing is stored: rows may lose their secret, and what is newly shown was
\* never stored or carried.
<1>1. ASSUME \A d \in Devices : device'[d].post \in {0, device[d].post},
             drawn' \in {drawn, drawn + 1},
             shown' \subseteq shown \cup ((1..drawn') \ (1..drawn)),
             \A p \in Requests, u \in Users, s \in Sessions : ~ClaimRead(p, u, s)
      PROVE  Kept
  <2>1. shown' \subseteq 1..drawn' /\ Unshown \subseteq Unshown' /\ 1..drawn \subseteq 1..drawn'
    BY <1>0, <1>1 DEF SecretInv, Unshown
  <2>2. PostsOK'
    BY <1>1, <2>1 DEF SecretInv, PostsOK
  <2>3. ClaimedOK'
    <3> SUFFICES ASSUME NEW p \in Requests, InClaim(p)'
                 PROVE  req'[p].secret \in Unshown' /\ \A d \in Devices : device'[d].post # req'[p].secret
      BY DEF ClaimedOK
    <3>1. InClaim(p) /\ req'[p].secret = req[p].secret
      BY <1>1, ClaimCarries
    <3> QED
      BY <1>0, <1>1, <2>1, <3>1 DEF SecretInv, ClaimedOK
  <2>4. PolledOK'
    <3> SUFFICES ASSUME NEW p \in Requests, req'[p].at = "deliver"
                 PROVE  /\ req'[p].secret \in 1..drawn'
                        /\ \A d \in Devices \ {req'[p].dev} : device'[d].post # req'[p].secret
      BY DEF PolledOK
    <3>1. CASE req'[p] = req[p]
      BY <1>0, <1>1, <2>1, <3>1 DEF SecretInv, PolledOK, Unshown
    <3>2. ASSUME NEW d \in Devices, req'[p].dev = d, req'[p].secret = device[d].post,
                 device[d].post # 0, UNCHANGED <<device, drawn, shown>>
          PROVE  /\ req'[p].secret \in 1..drawn'
                 /\ \A e \in Devices \ {req'[p].dev} : device'[e].post # req'[p].secret
      BY <3>2 DEF SecretInv, PostsOK, Unshown
    <3> QED
      BY <3>1, <3>2, PollCarries
  <2> QED
    BY <2>1, <2>2, <2>3, <2>4
<1>2. ASSUME NEW r \in Requests, NEW u \in Users, NEW s \in Sessions, ClaimRead(r, u, s)
      PROVE  Kept
  <2>1. drawn' = drawn + 1 /\ UNCHANGED <<device, shown>>
    BY <1>2 DEF ClaimRead
  <2>2. /\ req'[r].at = "claim" /\ req'[r].secret = drawn + 1
        /\ \A p \in Requests \ {r} : req'[p] = req[p]
    BY <1>0, <1>2, <2>1 DEF ClaimRead, Start
  <2>3. /\ shown' \subseteq 1..drawn' /\ Unshown \subseteq Unshown' /\ drawn + 1 \in Unshown'
        /\ 1..drawn \subseteq 1..drawn'
    BY <1>0, <2>1 DEF SecretInv, Unshown
  <2>4. \A d \in Devices : device[d].post # drawn + 1
    BY <1>0 DEF SecretInv, PostsOK, Unshown
  <2>5. PostsOK'
    BY <2>1, <2>3 DEF SecretInv, PostsOK
  <2>6. ClaimedOK'
    BY <2>1, <2>2, <2>3, <2>4 DEF SecretInv, ClaimedOK, InClaim
  <2>7. PolledOK'
    BY <2>1, <2>2, <2>3 DEF SecretInv, PolledOK
  <2> QED
    BY <2>3, <2>5, <2>6, <2>7
<1>3. ASSUME NEW r \in Requests, ClaimCommit(r) PROVE Kept
  <2>1. UNCHANGED <<drawn, shown>> /\ InClaim(r)
    BY <1>3 DEF ClaimCommit, InClaim
  <2>2. req'[r] = Idle /\ \A p \in Requests \ {r} : req'[p] = req[p]
    BY <1>0, <1>3 DEF ClaimCommit, Finish
  <2>3. \A d \in Devices :
            device'[d].post = IF d = req[r].dev THEN req[r].secret ELSE device[d].post
    BY <1>0, <1>3 DEF ClaimCommit, Claimed, DeviceRow
  <2>4. req[r].secret \in Unshown /\ \A d \in Devices : device[d].post # req[r].secret
    BY <2>1 DEF SecretInv, ClaimedOK
  <2>5. \A p \in Requests \ {r} :
            InClaim(p) \/ req[p].at = "deliver" => req[p].secret # req[r].secret
    BY <2>1 DEF SecretInv, ApartOK
  <2>6. Unshown' = Unshown /\ shown' \subseteq 1..drawn'
    BY <2>1 DEF Unshown, SecretInv
  <2>7. PostsOK'
    BY <2>3, <2>4, <2>6 DEF SecretInv, PostsOK
  <2>8. ClaimedOK'
    BY <2>2, <2>3, <2>5, <2>6 DEF SecretInv, ClaimedOK, InClaim, Idle
  <2>9. PolledOK'
    BY <2>1, <2>2, <2>3, <2>5 DEF SecretInv, PolledOK, Idle
  <2> QED
    BY <2>6, <2>7, <2>8, <2>9
<1>4. ASSUME NEW r \in Requests, Deliver(r) PROVE Kept
  <2>1. /\ req[r].at = "deliver" /\ drawn' = drawn
        /\ shown \subseteq shown' /\ shown' \subseteq shown \cup {req[r].secret}
    BY <1>4 DEF Deliver
  <2>2. req'[r] = Idle /\ \A p \in Requests \ {r} : req'[p] = req[p]
    BY <1>0, <1>4 DEF Deliver, Finish
  <2>3. \A d \in Devices : device'[d].post = IF d = req[r].dev THEN 0 ELSE device[d].post
    BY <1>0, <1>4 DEF Deliver, DeviceRow
  <2>4. /\ req[r].secret \in 1..drawn
        /\ \A d \in Devices \ {req[r].dev} : device[d].post # req[r].secret
    BY <2>1 DEF SecretInv, PolledOK
  <2>5. \A p \in Requests : InClaim(p) => p # r /\ req[p].secret # req[r].secret
    BY <2>1 DEF SecretInv, ApartOK, InClaim
  <2>6. shown' \subseteq 1..drawn' /\ Unshown \subseteq Unshown' \cup {req[r].secret}
    BY <2>1, <2>4 DEF SecretInv, Unshown
  <2>7. PostsOK'
    BY <2>3, <2>4, <2>6 DEF SecretInv, PostsOK
  <2>8. ClaimedOK'
    BY <1>0, <2>2, <2>3, <2>5, <2>6 DEF SecretInv, ClaimedOK, InClaim, Idle
  <2>9. PolledOK'
    BY <1>0, <2>1, <2>2, <2>3 DEF SecretInv, PolledOK, Idle
  <2> QED
    BY <2>6, <2>7, <2>8, <2>9
<1>5. ASSUME NEW e \in Devices, CreateDevice(e) \/ RotateSecret(e) \/ Revoke(e) PROVE Kept
  <2>1. /\ req' = req /\ drawn' \in {drawn, drawn + 1}
        /\ shown' \subseteq shown \cup ((1..drawn') \ (1..drawn))
    BY <1>0, <1>5 DEF CreateDevice, RotateSecret, Revoke
  <2>2. \A d \in Devices : device'[d].post \in {0, device[d].post}
    <3>1. CASE CreateDevice(e)
      BY <1>0, <3>1 DEF CreateDevice, DeviceRow
    <3>2. CASE RotateSecret(e)
      BY <1>0, <3>2 DEF RotateSecret, DeviceRow
    <3>3. CASE Revoke(e)
      BY <1>0, <3>3 DEF Revoke, DeviceRow
    <3> QED
      BY <1>5, <3>1, <3>2, <3>3
  <2>3. \A p \in Requests, u \in Users, s \in Sessions : ~ClaimRead(p, u, s)
    BY <1>0, <2>1 DEF ClaimRead, Start, Idle
  <2> QED
    BY <1>1, <2>1, <2>2, <2>3
<1>6. ASSUME UNCHANGED <<device, drawn, shown>> PROVE Kept
  <2>1. \A p \in Requests, u \in Users, s \in Sessions : ~ClaimRead(p, u, s)
    BY <1>0, <1>6 DEF ClaimRead
  <2> QED
    BY <1>1, <1>6, <2>1
<1> HIDE DEF Kept
<1>7. Kept
  BY <1>2, <1>3, <1>4, <1>5, <1>6
     DEF Next, Arrive, Continue, vars, BootstrapRead, BootstrapTx, ClaimWrite, ClaimScan,
         ClaimRollback, PollUsed, PollOver, ExpireSession, LoginRead, LoginIssue, Lapse, Crash
<1> QED
  BY <1>7 DEF Kept

(***************************************************************************)
(* However polls, claims and rotations overlap, what waits to be collected *)
(* has been shown to nobody (bootstrap.service.ts getClaimStatus).         *)
(***************************************************************************)
THEOREM SecretsShownOnce == Spec => []SecretShownOnce
<1>1. Init => TypeInv /\ SecretInv
  BY TypeInvInit, SecretInvInit
<1>2. (TypeInv /\ SecretInv) /\ [Next]_vars => (TypeInv /\ SecretInv)'
  BY TypeInvStep, SecretStep
<1>3. TypeInv /\ SecretInv => SecretShownOnce
  BY BoundAssumption DEF SecretInv, PostsOK, Unshown, SecretShownOnce, TypeInv, Shapes, TypeOK
<1> QED
  BY <1>1, <1>2, <1>3, PTL DEF Spec
=============================================================================
