------------------------------ MODULE AuthSession ------------------------------
(***************************************************************************)
(* One account's sign-in sessions: registration, login, the rotation of a  *)
(* session's refresh token, logout, and the check of an access token, which *)
(* asks for the session behind it.                                         *)
(*                                                                         *)
(* Tokens are numbered in the order they are issued; a hash stands for its *)
(* token.  Failed attempts, which only add to the audit log, change        *)
(* nothing here.                                                           *)
(***************************************************************************)
EXTENDS Requests

CONSTANTS
  Sessions,  \* identifiers createSession may draw
  MaxTokens, \* bound on the refresh tokens issued
  SessionTtl \* refreshTokenTtlDays

ASSUME AuthAssumption == MaxTokens \in Nat /\ SessionTtl \in Nat \ {0}

UserStatus == {"ACTIVE", "SUSPENDED"} \* DELETED is refused like SUSPENDED
Tokens == 1 .. MaxTokens
NoSession == [token |-> 0, revoked |-> FALSE, expiresAt |-> NULL]

VARIABLES
  account, \* the user's status, "NONE" before its registration
  auth,    \* the auth_sessions row of each identifier
  issued,  \* refresh tokens issued so far
  parent   \* history: the token each token was exchanged for, 0 at login

authVars == <<account, auth, issued, parent, environment>>

AuthInit ==
  /\ EnvironmentInit
  /\ account = "NONE"
  /\ auth = [s \in Sessions |-> NoSession]
  /\ issued = 0
  /\ parent = [t \in Tokens |-> 0]

Live(s) ==
  /\ auth[s].token # 0
  /\ ~auth[s].revoked
  /\ auth[s].expiresAt > now

Issue(s, from) ==
  /\ issued < MaxTokens
  /\ issued' = issued + 1
  /\ parent' = [parent EXCEPT ![issued + 1] = from]

CreateSession(s) ==
  /\ auth[s].token = 0
  /\ Issue(s, 0)
  /\ auth' = [auth EXCEPT ![s] =
       [token |-> issued + 1, revoked |-> FALSE, expiresAt |-> now + SessionTtl]]

-----------------------------------------------------------------------------
\* The unique email refuses a second registration.
Register(s) ==
  /\ account = "NONE"
  /\ account' = "ACTIVE"
  /\ CreateSession(s)
  /\ Single

\* The password is verified between the user's read and the transaction.
VerifyPassword(h) ==
  /\ account = "ACTIVE"
  /\ Begin(h, "login", Nothing)
  /\ UNCHANGED <<account, auth, issued, parent>>

Login(h, s) ==
  /\ at[h] = "login"
  /\ CreateSession(s)
  /\ Finish(h)
  /\ UNCHANGED account

\* Any session's present token may be presented; the others are refused.
FindSession(h, s) ==
  /\ Live(s)
  /\ account = "ACTIVE"
  /\ Begin(h, "rotate", [id |-> s, token |-> auth[s].token, now |-> now])
  /\ UNCHANGED <<account, auth, issued, parent>>

\* Bug: the row is found by its id alone, whatever token it has by now.
RotatableById(h) ==
  LET s == mem[h].id IN
  /\ ~auth[s].revoked
  /\ auth[s].expiresAt > mem[h].now

\* Bug: revocation is tested by the read only.
RotatableRevoked(h) ==
  LET s == mem[h].id IN
  /\ auth[s].token = mem[h].token
  /\ auth[s].expiresAt > mem[h].now

\* The conditions of the updateMany; expiry is still that of the read.
Rotatable(h) ==
  LET s == mem[h].id IN
  /\ auth[s].token = mem[h].token
  /\ ~auth[s].revoked
  /\ auth[s].expiresAt > mem[h].now

Rotate(h) ==
  /\ at[h] = "rotate"
  /\ Rotatable(h)
  /\ Issue(mem[h].id, mem[h].token)
  /\ auth' = [auth EXCEPT ![mem[h].id].token = issued + 1]
  /\ Finish(h)
  /\ UNCHANGED account

RotateRefused(h) ==
  /\ at[h] = "rotate"
  /\ ~Rotatable(h)
  /\ Finish(h)
  /\ UNCHANGED <<account, auth, issued, parent>>

\* validateAccessToken, in the guard of every authenticated request.
ValidateAccessToken(h, s) ==
  /\ Live(s)
  /\ account = "ACTIVE"
  /\ Begin(h, "logout", s)
  /\ UNCHANGED <<account, auth, issued, parent>>

Logout(h) ==
  /\ at[h] = "logout"
  /\ auth' = [auth EXCEPT ![mem[h]].revoked = TRUE] \* refused when it was
  /\ Finish(h)
  /\ UNCHANGED <<account, issued, parent>>

\* An operator suspends and reinstates; no code under src/ does.
SetStatus(status) ==
  /\ account \in UserStatus \ {status}
  /\ account' = status
  /\ Single
  /\ UNCHANGED <<auth, issued, parent>>

AuthTick == PassTime /\ UNCHANGED <<account, auth, issued, parent>>

AuthNext ==
  \/ \E s \in Sessions : Register(s)
  \/ \E h \in Handlers :
       \/ VerifyPassword(h) \/ Rotate(h) \/ RotateRefused(h) \/ Logout(h)
       \/ \E s \in Sessions :
            Login(h, s) \/ FindSession(h, s) \/ ValidateAccessToken(h, s)
  \/ \E status \in UserStatus : SetStatus(status)
  \/ AuthTick

AuthSpec == AuthInit /\ [][AuthNext]_authVars

-----------------------------------------------------------------------------
AuthTypeOK ==
  /\ account \in {"NONE"} \cup UserStatus
  /\ auth \in [Sessions -> [token : 0 .. MaxTokens, revoked : BOOLEAN, expiresAt : Int]]
  /\ issued \in 0 .. MaxTokens
  /\ parent \in [Tokens -> 0 .. MaxTokens]
  /\ at \in [Handlers -> {Free, "login", "rotate", "logout"}]
  /\ \A h \in Handlers :
       /\ at[h] = "rotate" => mem[h] \in [id : Sessions, token : Tokens, now : Int]
       /\ at[h] = "logout" => mem[h] \in Sessions

(* A refresh token is exchanged at most once, however many requests present *)
(* it at the same time: both find the session by its hash, and only one    *)
(* updateMany still meets that hash.                                       *)
TokenSpentOnce ==
  \A t, u \in Tokens : parent[t] = parent[u] /\ parent[t] # 0 => t = u

(* A session that was logged out stays as it was: a refresh that found it  *)
(* alive before gives it no new token.                                     *)
RevokedIsFinal ==
  [][\A s \in Sessions : auth[s].revoked => auth'[s] = auth[s]]_auth
=============================================================================
