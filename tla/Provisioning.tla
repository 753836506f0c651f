---------------------------- MODULE Provisioning ----------------------------
(***************************************************************************)
(* How a device gets, changes and loses the credential it logs in with:    *)
(* BootstrapService, ClaimService, the credential operations of            *)
(* DevicesService and the device half of AuthService.                      *)
(*                                                                         *)
(* The Node process interleaves its requests at every await; PostgreSQL    *)
(* runs each statement outside $transaction as a transaction of its own    *)
(* and the interactive ones at READ COMMITTED.  A request in flight is a   *)
(* record in req: "at" names the statement it has yet to run, the other    *)
(* fields are the locals it read before.  An operation whose earlier reads *)
(* check only what stays true (a device row is never deleted and never     *)
(* changes owner) is one step, the step of its write.                      *)
(***************************************************************************)
EXTENDS Naturals, FiniteSets

CONSTANTS
    Users,       \* account holders
    Hardware,    \* physical hardware ids
    Registrars,  \* the users that also call POST /devices
    Sessions,    \* primary keys (and so nonces) of ClaimSession rows
    Requests,    \* requests that may be in flight at once
    MaxSecret,   \* bound: raw secrets the server generates
    MaxTokens,   \* bound: no login starts with that many tokens issued
    Nil          \* SQL NULL

Devices == Users \X Hardware   \* unique (userId, hardwareId): one row a pair

ASSUME RegistrarsAssumption == Registrars \subseteq Users
ASSUME NilAssumption == Nil \notin Hardware \cup Sessions \cup Devices
ASSUME BoundAssumption == MaxSecret \in Nat /\ MaxTokens \in Nat

VARIABLES
    device,    \* committed Device rows
    session,   \* committed ClaimSession rows
    req,       \* requests in flight
    drawn,     \* secrets generated so far; the n-th one is n
    shown,     \* secrets sent in some response
    tokens     \* device JWTs issued, each with the secret it was bought with

vars == <<device, session, req, drawn, shown, tokens>>

(***************************************************************************)
(* Rows.  A secret is a number, 0 stands for NULL; bcrypt is a perfect     *)
(* hash, so a row holds the secret its hash was made from.  A row that     *)
(* does not exist has version 0.  "lapsed" abstracts expiresAt to the one  *)
(* thing read of it: has the wall clock passed it.                         *)
(***************************************************************************)
Secrets == 1..MaxSecret

DeviceRow == [secret: 0..MaxSecret, version: Nat, live: BOOLEAN, post: 0..MaxSecret]
NoDevice == [secret |-> 0, version |-> 0, live |-> FALSE, post |-> 0]

SessionRow == [status: {"absent", "pending", "used", "expired", "cancelled"},
               hw: Hardware \cup {Nil}, lapsed: BOOLEAN, dev: Devices \cup {Nil}]
NoSession == [status |-> "absent", hw |-> Nil, lapsed |-> FALSE, dev |-> Nil]
NewSession(h) == [status |-> "pending", hw |-> h, lapsed |-> FALSE, dev |-> Nil]

Token == [dev: Devices, version: Nat, secret: Secrets]

Exists(d) == device[d].version > 0
DevicesOf(h) == {d \in Devices : d[2] = h /\ Exists(d)}
LiveDevices(h) == {d \in DevicesOf(h) : device[d].live}

\* What DeviceJwtStrategy.validate lets through.
Accepted(t) == device[t.dev].live /\ device[t.dev].version = t.version

(***************************************************************************)
(* Requests in flight.                                                     *)
(***************************************************************************)
Idle == [at |-> "idle"]

BootstrapReq == [at: {"bootstrap"}, old: Sessions \cup {Nil}, new: Sessions, hw: Hardware]
ClaimReq == [at: {"claim", "claimScan"}, dev: Devices, sess: Sessions, secret: Secrets]
RevokingReq == [at: {"claimRevoke"}, dev: Devices, sess: Sessions, secret: Secrets,
                targets: SUBSET Devices]
DeliverReq == [at: {"deliver"}, dev: Devices, secret: Secrets]
ExpireReq == [at: {"expire"}, sess: Sessions]
LoginReq == [at: {"login"}, token: Token]

Request == {Idle} \cup BootstrapReq \cup ClaimReq \cup RevokingReq
             \cup DeliverReq \cup ExpireReq \cup LoginReq

InClaim(r) == req[r].at \in {"claim", "claimScan", "claimRevoke"}
\* The transaction of r has written its device and its session, uncommitted.
HoldsLocks(r) == req[r].at \in {"claimScan", "claimRevoke"}
DeviceLocked(d) == \E r \in Requests : HoldsLocks(r) /\ req[r].dev = d
SessionLocked(s) == \E r \in Requests : HoldsLocks(r) /\ req[r].sess = s

Start(r, record) == req[r] = Idle /\ req' = [req EXCEPT ![r] = record]
Finish(r) == req' = [req EXCEPT ![r] = Idle]

Init ==
    /\ device = [d \in Devices |-> NoDevice]
    /\ session = [s \in Sessions |-> NoSession]
    /\ req = [r \in Requests |-> Idle]
    /\ drawn = 0
    /\ shown = {}
    /\ tokens = {}

-----------------------------------------------------------------------------
(***************************************************************************)
(* POST /bootstrap.  Outside any transaction it looks for one unexpired    *)
(* pending session (no ORDER BY: any of them); then one transaction        *)
(* cancels that session, whatever became of it, and inserts the new row.   *)
(***************************************************************************)
OpenSessions(h) ==
    {s \in Sessions : session[s].hw = h /\ session[s].status = "pending" /\ ~session[s].lapsed}

Reserved == {req[r].new : r \in {q \in Requests : req[q].at = "bootstrap"}}
FreeSessions == {s \in Sessions : session[s].status = "absent"} \ Reserved

BootstrapRead(r, h) ==
    /\ \E old \in (IF OpenSessions(h) = {} THEN {Nil} ELSE OpenSessions(h)), new \in FreeSessions :
          Start(r, [at |-> "bootstrap", old |-> old, new |-> new, hw |-> h])
    /\ UNCHANGED <<device, session, drawn, shown, tokens>>

\* Mutant: the open session is not cancelled.
BootstrapTxNoCancel(r) ==
    /\ req[r].at = "bootstrap"
    /\ session' = [session EXCEPT ![req[r].new] = NewSession(req[r].hw)]
    /\ Finish(r)
    /\ UNCHANGED <<device, drawn, shown, tokens>>

BootstrapTx(r) ==
    /\ req[r].at = "bootstrap"
    /\ ~SessionLocked(req[r].old)
    /\ session' = [s \in Sessions |->
                     IF s = req[r].new THEN NewSession(req[r].hw)
                     ELSE IF s = req[r].old THEN [session[s] EXCEPT !.status = "cancelled"]
                     ELSE session[s]]
    /\ Finish(r)
    /\ UNCHANGED <<device, drawn, shown, tokens>>

(***************************************************************************)
(* POST /claim/confirm.  The checks and the secret come before the         *)
(* transaction, whose three statements are ClaimWrite (upsert of the row   *)
(* of this user and hardware, update of the session: both stay locked),    *)
(* ClaimScan (updateMany picks the rows to revoke among the COMMITTED      *)
(* ones) and ClaimCommit (it has locked those rows too, and commits).      *)
(* The effects show at the commit.  A row updated by ClaimWrite is locked  *)
(* from then on, so its new version can be computed at the commit.         *)
(***************************************************************************)
\* Mutant: the status of the session is not checked.
ClaimReadAnyStatus(r, u, s) ==
    /\ session[s].hw # Nil
    /\ ~session[s].lapsed
    /\ drawn < MaxSecret
    /\ drawn' = drawn + 1
    /\ Start(r, [at |-> "claim", dev |-> <<u, session[s].hw>>, sess |-> s, secret |-> drawn'])
    /\ UNCHANGED <<device, session, shown, tokens>>

ClaimRead(r, u, s) ==
    /\ session[s].status = "pending"
    /\ ~session[s].lapsed
    /\ drawn < MaxSecret
    /\ drawn' = drawn + 1
    /\ Start(r, [at |-> "claim", dev |-> <<u, session[s].hw>>, sess |-> s, secret |-> drawn'])
    /\ UNCHANGED <<device, session, shown, tokens>>

ClaimWrite(r) ==
    /\ req[r].at = "claim"
    /\ ~DeviceLocked(req[r].dev)
    /\ ~SessionLocked(req[r].sess)
    /\ req' = [req EXCEPT ![r].at = "claimScan"]
    /\ UNCHANGED <<device, session, drawn, shown, tokens>>

\* Mutant: no updateMany, the former owners keep their device.
ClaimScanNoRevoke(r) ==
    /\ req[r].at = "claimScan"
    /\ req' = [req EXCEPT ![r] =
                 [at |-> "claimRevoke", dev |-> @.dev, sess |-> @.sess, secret |-> @.secret,
                  targets |-> {}]]
    /\ UNCHANGED <<device, session, drawn, shown, tokens>>

ClaimScan(r) ==
    /\ req[r].at = "claimScan"
    /\ req' = [req EXCEPT ![r] =
                 [at |-> "claimRevoke", dev |-> @.dev, sess |-> @.sess, secret |-> @.secret,
                  targets |-> LiveDevices(@.dev[2]) \ {@.dev}]]
    /\ UNCHANGED <<device, session, drawn, shown, tokens>>

\* Mutants: claiming a device again keeps its hash and version; or its revokedAt.
ClaimedKeepsCredential(row, k) ==
    IF row.version = 0 THEN [secret |-> k, version |-> 1, live |-> TRUE, post |-> k]
    ELSE [row EXCEPT !.live = TRUE, !.post = k]
ClaimedStillRevoked(row, k) ==
    [secret |-> k, version |-> row.version + 1, live |-> row.version = 0 \/ row.live, post |-> k]

\* Mutant: the update branch of the upsert leaves postClaimSecret.
ClaimedKeepsPost(row, k) ==
    [secret |-> k, version |-> row.version + 1, live |-> TRUE,
     post |-> IF row.version = 0 THEN k ELSE row.post]

Claimed(row, k) == [secret |-> k, version |-> row.version + 1, live |-> TRUE, post |-> k]

\* Mutant: the session is not linked to the device.
ClaimCommitUnlinked(r) ==
    /\ req[r].at = "claimRevoke"
    /\ \A d \in req[r].targets : ~DeviceLocked(d)
    /\ device' = [device EXCEPT ![req[r].dev] = Claimed(@, req[r].secret)]
    /\ session' = [session EXCEPT ![req[r].sess].status = "used"]
    /\ Finish(r)
    /\ UNCHANGED <<drawn, shown, tokens>>

ClaimCommit(r) ==
    /\ req[r].at = "claimRevoke"
    /\ \A d \in req[r].targets : ~DeviceLocked(d)
    /\ device' = [d \in Devices |->
                    IF d = req[r].dev THEN Claimed(device[d], req[r].secret)
                    ELSE IF d \in req[r].targets THEN [device[d] EXCEPT !.live = FALSE]
                    ELSE device[d]]
    /\ session' = [session EXCEPT ![req[r].sess].status = "used",
                                  ![req[r].sess].dev = req[r].dev]
    /\ Finish(r)
    /\ UNCHANGED <<drawn, shown, tokens>>

\* Mutant: a transaction that waits for a row lock is never given up.
ClaimRollbackNotWaiting(r) ==
    /\ req[r].at = "claimScan"
    /\ Finish(r)
    /\ UNCHANGED <<device, session, drawn, shown, tokens>>

\* Prisma's transaction timeout, or PostgreSQL choosing this side of a deadlock.
ClaimRollback(r) ==
    /\ HoldsLocks(r)
    /\ Finish(r)
    /\ UNCHANGED <<device, session, drawn, shown, tokens>>

(***************************************************************************)
(* GET /bootstrap/claim-status/:id.  Whatever the read found decides the   *)
(* one write that follows, which does not look again.  The answer may be   *)
(* lost on its way to the device.  A poll with nothing to write changes    *)
(* nothing and is not an action.                                           *)
(***************************************************************************)
\* Mutant: the secret is handed out without a look whether there is one.
PollUsedUnchecked(r, s) ==
    /\ session[s].status = "used"
    /\ Start(r, [at |-> "deliver", dev |-> session[s].dev, secret |-> device[session[s].dev].post])
    /\ UNCHANGED <<device, session, drawn, shown, tokens>>

PollUsed(r, s) ==
    /\ session[s].status = "used"
    /\ device[session[s].dev].post # 0
    /\ Start(r, [at |-> "deliver", dev |-> session[s].dev, secret |-> device[session[s].dev].post])
    /\ UNCHANGED <<device, session, drawn, shown, tokens>>

PollOver(r, s) ==
    /\ session[s].status = "cancelled" \/ (session[s].status = "pending" /\ session[s].lapsed)
    /\ Start(r, [at |-> "expire", sess |-> s])
    /\ UNCHANGED <<device, session, drawn, shown, tokens>>

\* Mutant: the row keeps the raw secret.
DeliverKeep(r) ==
    /\ req[r].at = "deliver"
    /\ ~DeviceLocked(req[r].dev)
    /\ shown' = shown \cup {req[r].secret}
    /\ Finish(r)
    /\ UNCHANGED <<device, session, drawn, tokens>>

Deliver(r) ==
    /\ req[r].at = "deliver"
    /\ ~DeviceLocked(req[r].dev)
    /\ device' = [device EXCEPT ![req[r].dev].post = 0]
    /\ shown' \in {shown, shown \cup {req[r].secret}}
    /\ Finish(r)
    /\ UNCHANGED <<session, drawn, tokens>>

ExpireSession(r) ==
    /\ req[r].at = "expire"
    /\ ~SessionLocked(req[r].sess)
    /\ session' = [session EXCEPT ![req[r].sess].status = "expired"]
    /\ Finish(r)
    /\ UNCHANGED <<device, drawn, shown, tokens>>

(***************************************************************************)
(* DevicesService: create, rotate and revoke.  A second create for the     *)
(* same pair breaks the unique index and fails, changing nothing.          *)
(***************************************************************************)
CreateDevice(d) ==
    /\ d[1] \in Registrars
    /\ ~Exists(d)
    /\ ~DeviceLocked(d)
    /\ drawn < MaxSecret
    /\ drawn' = drawn + 1
    /\ device' = [device EXCEPT ![d] =
                    [secret |-> drawn', version |-> 1, live |-> TRUE, post |-> 0]]
    /\ shown' = shown \cup {drawn'}
    /\ UNCHANGED <<session, req, tokens>>

\* Mutant: the token version is not incremented.
RotateSecretSameVersion(d) ==
    /\ Exists(d)
    /\ ~DeviceLocked(d)
    /\ drawn < MaxSecret
    /\ drawn' = drawn + 1
    /\ device' = [device EXCEPT ![d].secret = drawn']
    /\ shown' = shown \cup {drawn'}
    /\ UNCHANGED <<session, req, tokens>>

RotateSecret(d) ==
    /\ Exists(d)
    /\ ~DeviceLocked(d)
    /\ drawn < MaxSecret
    /\ drawn' = drawn + 1
    /\ device' = [device EXCEPT ![d].secret = drawn', ![d].version = @ + 1]
    /\ shown' = shown \cup {drawn'}
    /\ UNCHANGED <<session, req, tokens>>

Revoke(d) ==
    /\ Exists(d)
    /\ ~DeviceLocked(d)
    /\ device' = [device EXCEPT ![d].live = FALSE]
    /\ UNCHANGED <<session, req, drawn, shown, tokens>>

(***************************************************************************)
(* POST /auth/device.  validateDevice reads the live rows of a hardware    *)
(* id, then awaits one bcrypt.compare after the other; the token carries   *)
(* the version of the row AS READ.  A secret is of one row only, so at     *)
(* most one row matches; a login that matches none changes nothing.        *)
(***************************************************************************)
LoginRead(r, d) ==
    /\ device[d].live
    /\ device[d].secret \in shown
    /\ Cardinality(tokens) < MaxTokens
    /\ Start(r, [at |-> "login",
                 token |-> [dev |-> d, version |-> device[d].version, secret |-> device[d].secret]])
    /\ UNCHANGED <<device, session, drawn, shown, tokens>>

\* Mutant: the version is read again after the secret was compared.
LoginIssueReread(r) ==
    /\ req[r].at = "login"
    /\ tokens' = tokens \cup {[req[r].token EXCEPT !.version = device[req[r].token.dev].version]}
    /\ Finish(r)
    /\ UNCHANGED <<device, session, drawn, shown>>

LoginIssue(r) ==
    /\ req[r].at = "login"
    /\ tokens' = tokens \cup {req[r].token}
    /\ Finish(r)
    /\ UNCHANGED <<device, session, drawn, shown>>

-----------------------------------------------------------------------------
\* The clock passes expiresAt; it is read of pending sessions only.
Lapse(s) ==
    /\ session[s].status = "pending"
    /\ ~session[s].lapsed
    /\ session' = [session EXCEPT ![s].lapsed = TRUE]
    /\ UNCHANGED <<device, req, drawn, shown, tokens>>

\* The process dies: every request is gone and its open transaction rolled back.
Crash ==
    /\ req' = [r \in Requests |-> Idle]
    /\ UNCHANGED <<device, session, drawn, shown, tokens>>

Arrive(r) ==
    \/ \E h \in Hardware : BootstrapRead(r, h)
    \/ \E u \in Users, s \in Sessions : ClaimRead(r, u, s)
    \/ \E s \in Sessions : PollUsed(r, s) \/ PollOver(r, s)
    \/ \E d \in Devices : LoginRead(r, d)

Continue(r) ==
    \/ BootstrapTx(r)
    \/ ClaimWrite(r) \/ ClaimScan(r) \/ ClaimCommit(r)
    \/ Deliver(r) \/ ExpireSession(r)
    \/ LoginIssue(r)

Next ==
    \/ \E r \in Requests : Arrive(r) \/ Continue(r) \/ ClaimRollback(r)
    \/ \E d \in Devices : CreateDevice(d) \/ RotateSecret(d) \/ Revoke(d)
    \/ \E s \in Sessions : Lapse(s)
    \/ Crash

Spec == Init /\ [][Next]_vars

(***************************************************************************)
(* Fairness.  The event loop and the database run what is ready; waiters   *)
(* on a row lock are queued, so a statement that is ready again and again  *)
(* runs (SF).  An interactive transaction is timed out after 5 s, so one   *)
(* that stays open is rolled back (WF).  No arrival, no clock and no crash *)
(* is assumed to happen.                                                   *)
(***************************************************************************)
Fairness == \A r \in Requests : SF_vars(Continue(r)) /\ WF_vars(ClaimRollback(r))
FairSpec == Spec /\ Fairness

-----------------------------------------------------------------------------
(***************************************************************************)
(* Properties.                                                             *)
(***************************************************************************)

\* Every variable keeps its shape; tokens are for rows that exist.
TypeOK ==
    /\ device \in [Devices -> DeviceRow]
    /\ session \in [Sessions -> SessionRow]
    /\ req \in [Requests -> Request]
    /\ drawn \in 0..MaxSecret
    /\ shown \subseteq Secrets
    /\ tokens \subseteq Token

(***************************************************************************)
(* The device-jwt guard compares versions, never secrets, and the version  *)
(* in a token was read before several awaits.  It nevertheless lets a      *)
(* token through exactly when the device is live and the token was bought  *)
(* with the secret the device has now.                                     *)
(***************************************************************************)
TokenBoundToSecret ==
    \A t \in tokens : Accepted(t) <=> (device[t.dev].live /\ device[t.dev].secret = t.secret)

(***************************************************************************)
(* A token the guard once refuses is refused for good: revoking, rotating  *)
(* or re-claiming a device never brings an old token back, although a      *)
(* re-claim clears revokedAt on the same row.                              *)
(***************************************************************************)
NoTokenRevival == [][\A t \in tokens : Accepted(t)' => Accepted(t)]_vars

(***************************************************************************)
(* A used claim session points to an existing device of the hardware that  *)
(* bootstrapped it, whatever cancels, polls and other claims raced with    *)
(* it: claim-status reads the secret through that link.                    *)
(***************************************************************************)
UsedSessionOwnsDevice ==
    \A s \in Sessions : session[s].status = "used" =>
        /\ session[s].dev \in Devices
        /\ session[s].dev[2] = session[s].hw
        /\ Exists(session[s].dev)

(***************************************************************************)
(* Claims revoke each other's device, but however they overlap they never  *)
(* leave a hardware without a live device: only its owner can do that.     *)
(***************************************************************************)
ClaimsLeaveALiveDevice ==
    [][\A h \in Hardware : LiveDevices(h) # {} /\ LiveDevices(h)' = {}
          => \E d \in Devices : Revoke(d)]_vars

(***************************************************************************)
(* The secret kept for a device to collect is the one it can log in with.  *)
(* Only a rotation of its owner parts the two, never a claim, a poll or a  *)
(* crash, however they overlap.                                            *)
(***************************************************************************)
OnlyRotationParts ==
    [][\A d \in Devices : device[d].post \in {0, device[d].secret}
          => device'[d].post \in {0, device'[d].secret} \/ RotateSecret(d)]_vars

\* Locks are never waited for in vain: every request in flight ends.
RequestsEnd == \A r \in Requests : (req[r] # Idle) ~> (req[r] = Idle)

\* Logins count from the read of the row: the token's version is fixed there.
Bought(t) == [dev |-> t.dev, secret |-> t.secret]
Pending == {req[r].token : r \in {q \in Requests : req[q].at = "login"}}

Credentials == INSTANCE DeviceCredentials WITH
    cred <- [d \in Devices |-> [secret |-> device[d].secret, live |-> device[d].live]],
    granted <- {Bought(t) : t \in tokens \cup Pending},
    accepted <- {Bought(t) : t \in {u \in tokens \cup Pending : Accepted(u)}}

\* The versions, requests and transactions implement the abstract promise.
CredentialsKept == Credentials!Spec

\* The raw secret that waits to be collected has been sent to nobody: a poll
\* that begins after a secret was shown does not get it again.  Only polls that
\* overlap can, because each carries what its own read found.
SecretShownOnce == \A d \in Devices : device[d].post \notin shown
=============================================================================
