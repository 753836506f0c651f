-------------------------- MODULE UserSessionProofs --------------------------
(***************************************************************************)
(* TypeOK and LogoutIsFinal hold of UserSession for any set of requests    *)
(* and any bound.  TypeOK is not inductive alone: what a request in flight *)
(* is about to store must be a token that was signed.                      *)
(***************************************************************************)
EXTENDS UserSession, TLAPS

InFlightSigned == \A r \in Requests : req[r].at \in {"login", "refresh"} => req[r].token <= signed

Inv == TypeOK /\ InFlightSigned

USE BoundAssumption DEF Tokens

\* Before the first login there is nothing but NULLs.
LEMMA InitInv == Init => Inv
  BY DEF Init, Inv, TypeOK, InFlightSigned, Request, Idle

\* Every step keeps the invariant.
LEMMA NextInv == Inv /\ [Next]_vars => Inv'
<1> SUFFICES ASSUME Inv, [Next]_vars PROVE Inv'
  OBVIOUS
<1> USE DEF Inv, TypeOK, InFlightSigned, Request, Idle
<1>1. CASE UNCHANGED vars
  BY <1>1 DEF vars
<1>2. CASE Crash
  BY <1>2 DEF Crash
<1>3. ASSUME NEW r \in Requests, Login(r) PROVE Inv'
  <2>1. signed' \in Tokens /\ signed' = signed + 1
    BY <1>3 DEF Login, Sign
  <2>2. req' = [req EXCEPT ![r] = [at |-> "login", token |-> signed']]
    BY <1>3 DEF Login, Start
  <2> QED BY <1>3, <2>1, <2>2 DEF Login
<1>4. ASSUME NEW r \in Requests, Refresh(r) PROVE Inv'
  <2>1. signed' \in Tokens /\ signed' = signed + 1
    BY <1>4 DEF Refresh, Sign
  <2>2. req' = [req EXCEPT ![r] = [at |-> "refresh", token |-> signed']]
    BY <1>4 DEF Refresh, Start
  <2> QED BY <1>4, <2>1, <2>2 DEF Refresh
<1>5. ASSUME NEW r \in Requests, Store(r) PROVE Inv'
  BY <1>5 DEF Store, Answer, Finish
<1>6. ASSUME NEW r \in Requests, LogoutRead(r) PROVE Inv'
  BY <1>6 DEF LogoutRead, Start
<1>7. ASSUME NEW r \in Requests, Logout(r) PROVE Inv'
  BY <1>7 DEF Logout, Answer, Finish
<1> QED BY <1>1, <1>2, <1>3, <1>4, <1>5, <1>6, <1>7 DEF Next

\* The database, the cookie and the requests in flight hold signed tokens only
\* (AuthService.login, refreshTokens and logout).
THEOREM TypeCorrect == Spec => []TypeOK
<1>1. Inv => TypeOK
  BY DEF Inv
<1> QED BY InitInv, NextInv, <1>1, PTL DEF Spec

\* While logged out with nothing to undo it, a step that is not the end of a
\* login leaves it so: refreshTokens refuses when the hash is NULL.
LEMMA StepStaysOut ==
  ASSUME Inv, [Next]_vars, LoggedOut
  PROVE  LoggedOut' \/ \E r \in Requests : req[r].at = "login" /\ Store(r)
<1> USE DEF LoggedOut, Inv, TypeOK, Idle
<1>1. ASSUME NEW r \in Requests, Login(r) PROVE LoggedOut'
  BY <1>1 DEF Login, Start
<1>2. ASSUME NEW r \in Requests, Refresh(r) PROVE FALSE
  BY <1>2 DEF Refresh, Accepts, Matches
<1>3. ASSUME NEW r \in Requests, Store(r) PROVE req[r].at = "login"
  BY <1>3 DEF Store
<1>4. ASSUME NEW r \in Requests, LogoutRead(r) PROVE LoggedOut'
  BY <1>4 DEF LogoutRead, Start
<1>5. ASSUME NEW r \in Requests, Logout(r) PROVE LoggedOut'
  BY <1>5 DEF Logout, Finish
<1>6. CASE Crash
  BY <1>6 DEF Crash
<1>7. CASE UNCHANGED vars
  BY <1>7 DEF vars
<1> QED BY <1>1, <1>2, <1>3, <1>4, <1>5, <1>6, <1>7 DEF Next

\* A logout that no refresh overlaps is final until the next login.
THEOREM LogoutsLast == Spec => LogoutIsFinal
<1>1. Inv /\ [Next]_vars =>
        [LoggedOut => LoggedOut' \/ \E r \in Requests : req[r].at = "login" /\ Store(r)]_vars
  BY StepStaysOut
<1> QED BY InitInv, NextInv, <1>1, PTL DEF Spec, LogoutIsFinal
=============================================================================
