----------------------------- MODULE UserSession -----------------------------
(***************************************************************************)
(* The session of one user: AuthService.login, refreshTokens and logout    *)
(* with AuthController and the refresh guard, called from the tabs of one  *)
(* browser, which share the refresh_token cookie.  Tokens are numbered in  *)
(* the order they are signed; 0 is no token.  Access tokens, which the     *)
(* database never revokes, and the expiry of tokens are left out.          *)
(***************************************************************************)
EXTENDS Naturals

CONSTANTS
    Requests,    \* requests that may be in flight at once
    MaxTokens    \* bound: refresh tokens signed

ASSUME BoundAssumption == MaxTokens \in Nat

VARIABLES
    hash,     \* User.refreshTokenHash: the token it was made from, or 0 (NULL)
    signed,   \* refresh tokens signed so far
    jar,      \* the browser's cookie, or 0
    req       \* requests in flight, between their read and their write

vars == <<hash, signed, jar, req>>

Tokens == 1..MaxTokens

Idle == [at |-> "idle"]
Request == {Idle} \cup [at: {"login", "refresh"}, token: Tokens] \cup [at: {"logout"}]

(***************************************************************************)
(* bcrypt reads 72 bytes.  The header of a token and its dot take 37, the  *)
(* rest holds 26 bytes of payload: sub, email and, behind a short email,   *)
(* type, never iat.  All refresh tokens of a user look the same to         *)
(* bcrypt.compare.                                                         *)
(***************************************************************************)
Matches(token, h) == h # 0 /\ token # 0

\* A refresh with this cookie would be let through now.
Accepts(token) == Matches(token, hash)

Start(r, record) == req[r] = Idle /\ req' = [req EXCEPT ![r] = record]
Finish(r) == req' = [req EXCEPT ![r] = Idle]

\* Mutant: the token is not a new one.
SignAgain == signed < MaxTokens /\ signed' = signed

Sign == signed < MaxTokens /\ signed' = signed + 1

\* The answer sets the cookie (0 clears it), if it arrives.
Answer(token) == jar' \in {jar, token}

Init == hash = 0 /\ signed = 0 /\ jar = 0 /\ req = [r \in Requests |-> Idle]

\* The password is right; the tokens are signed before the hash is stored.
Login(r) ==
    /\ Sign
    /\ Start(r, [at |-> "login", token |-> signed'])
    /\ UNCHANGED <<hash, jar>>

\* Mutant: the cookie is not compared with the stored hash.
RefreshUnchecked(r) ==
    /\ jar # 0
    /\ Sign
    /\ Start(r, [at |-> "refresh", token |-> signed'])
    /\ UNCHANGED <<hash, jar>>

\* refreshTokens reads the hash and compares the cookie, then signs.
Refresh(r) ==
    /\ jar # 0
    /\ Accepts(jar)
    /\ Sign
    /\ Start(r, [at |-> "refresh", token |-> signed'])
    /\ UNCHANGED <<hash, jar>>

\* The update of refreshTokenHash, by id and unconditionally.
Store(r) ==
    /\ req[r].at \in {"login", "refresh"}
    /\ hash' = req[r].token
    /\ Answer(req[r].token)
    /\ Finish(r)
    /\ UNCHANGED signed

\* The guard of logout reads the user; the update of the hash comes after it.
LogoutRead(r) ==
    /\ signed > 0
    /\ Start(r, [at |-> "logout"])
    /\ UNCHANGED <<hash, signed, jar>>

Logout(r) ==
    /\ req[r].at = "logout"
    /\ hash' = 0
    /\ Answer(0)
    /\ Finish(r)
    /\ UNCHANGED signed

\* The process restarts.
Crash ==
    /\ req' = [r \in Requests |-> Idle]
    /\ UNCHANGED <<hash, signed, jar>>

Next ==
    \/ \E r \in Requests : Login(r) \/ Refresh(r) \/ Store(r) \/ LogoutRead(r) \/ Logout(r)
    \/ Crash

Spec == Init /\ [][Next]_vars

-----------------------------------------------------------------------------
\* The stored hash and the cookie are of tokens that were signed.
TypeOK ==
    /\ signed \in 0..MaxTokens
    /\ hash \in 0..signed
    /\ jar \in 0..signed
    /\ req \in [Requests -> Request]

(***************************************************************************)
(* "The old refresh token is invalidated": when a refresh stores its new   *)
(* token, every token of before is refused (auth.controller.ts:94).  It is *)
(* violated: bcrypt.compare cannot tell the old tokens from the new.       *)
(***************************************************************************)
OldRefreshTokensEnd ==
    [][\A r \in Requests : req[r].at = "refresh" /\ Store(r) =>
         \A t \in 1..signed \ {req[r].token} : ~Accepts(t)']_vars

(***************************************************************************)
(* A logout that no refresh overlaps is final: from then on only a login   *)
(* makes a refresh possible.                                               *)
(***************************************************************************)
LoggedOut == hash = 0 /\ \A r \in Requests : req[r].at # "refresh"
LogoutIsFinal ==
    [][LoggedOut => LoggedOut' \/ \E r \in Requests : req[r].at = "login" /\ Store(r)]_vars
=============================================================================
