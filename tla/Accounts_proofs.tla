----------------------------- MODULE Accounts_proofs -----------------------------
(***************************************************************************)
(* Theorems about what one account has: its sign-in sessions, the ways it  *)
(* can be reached, and its settings.  They hold for any number of requests *)
(* at a time.                                                              *)
(***************************************************************************)
EXTENDS AuthSession, MessagingDestination, UserSettings, TLAPS

\* The clock is a time, and the handlers have a statement and a memory each.
Registers ==
  /\ now \in Times
  /\ at = [h \in Handlers |-> at[h]]
  /\ mem = [h \in Handlers |-> mem[h]]

(* At the start every handler is free. *)
LEMMA RegistersStart ==
  ASSUME EnvironmentInit
  PROVE  Registers /\ \A h \in Handlers : at[h] = Free /\ mem[h] = Nothing
BY RequestsAssumption DEF EnvironmentInit, Registers, Times

(* A handler that begins or proceeds leaves the others where they are.     *)
LEMMA HandlerMoves ==
  ASSUME Registers, NEW h \in Handlers, NEW step, NEW memory,
         Begin(h, step, memory) \/ Proceed(h, step, memory)
  PROVE  /\ Registers'
         /\ at'[h] = step /\ mem'[h] = memory
         /\ \A g \in Handlers \ {h} : at'[g] = at[g] /\ mem'[g] = mem[g]
         /\ now' = now
<1>1. /\ at' = [at EXCEPT ![h] = step]
      /\ mem' = [mem EXCEPT ![h] = memory]
      /\ now' = now
  BY DEF Begin, Proceed
<1>. QED
  BY <1>1 DEF Registers

(* The clock stays within its bound. *)
LEMMA ClockMoves ==
  ASSUME Registers, PassTime
  PROVE  Registers' /\ UNCHANGED <<at, mem>>
BY RequestsAssumption DEF Registers, PassTime, requests, Times

-----------------------------------------------------------------------------
(* AuthSession.                                                            *)

\* The clock is a number, and a handler's memory a function of the handlers.
AuthMemory == now \in Nat /\ DOMAIN mem = Handlers /\ mem = [h \in Handlers |-> mem[h]]

\* A request that logs out holds a session that was created, and a session
\* that was not created is not revoked.
SessionsCreated ==
  /\ \A h \in Handlers : at[h] = "logout" => auth[mem[h]].token # 0
  /\ \A s \in Sessions : auth[s].revoked => auth[s].token # 0

AuthTypes == AuthTypeOK /\ AuthMemory /\ SessionsCreated

\* Two sessions never have one token; nothing was exchanged for the token a
\* session has, nor for one that is yet to be issued.
Unspent ==
  /\ \A t \in Tokens : parent[t] <= issued /\ (t > issued => parent[t] = 0)
  /\ \A s \in Sessions : auth[s].token <= issued
  /\ \A r, s \in Sessions : auth[r].token = auth[s].token /\ auth[s].token # 0 => r = s
  /\ \A s \in Sessions, t \in Tokens : auth[s].token # 0 => parent[t] # auth[s].token

SpendInv == AuthTypes /\ Unspent /\ TokenSpentOnce

(* The tables are empty, and no request is under way. *)
LEMMA SpendInit == AuthInit => SpendInv
<1> SUFFICES ASSUME AuthInit PROVE SpendInv
  OBVIOUS
<1> USE AuthAssumption, RequestsAssumption
<1>1. AuthTypeOK
  BY DEF AuthInit, EnvironmentInit, AuthTypeOK, NoSession, Tokens, Free, NULL
<1>2. AuthMemory /\ SessionsCreated
  BY DEF AuthInit, EnvironmentInit, AuthMemory, SessionsCreated, NoSession, Free
<1>3. Unspent /\ TokenSpentOnce
  BY DEF AuthInit, EnvironmentInit, Unspent, TokenSpentOnce, NoSession, Tokens
<1>. QED
  BY <1>1, <1>2, <1>3 DEF SpendInv, AuthTypes

(* Issuing numbers a token that no table has. *)
LEMMA IssueNext ==
  ASSUME AuthTypes, NEW s, NEW from \in 0 .. MaxTokens, Issue(s, from)
  PROVE  /\ issued + 1 \in Tokens
         /\ issued' = issued + 1
         /\ parent' \in [Tokens -> 0 .. MaxTokens]
         /\ \A t \in Tokens : parent'[t] = IF t = issued + 1 THEN from ELSE parent[t]
BY AuthAssumption DEF AuthTypes, AuthTypeOK, Issue, Tokens

(* A session that exchanges its token, or none for its first, leaves every *)
(* token exchanged at most once and the present ones not at all.           *)
LEMMA ExchangeStep ==
  ASSUME SpendInv, NEW s \in Sessions, Issue(s, auth[s].token),
         \A r \in Sessions : auth'[r].token = IF r = s THEN issued + 1 ELSE auth[r].token
  PROVE  Unspent' /\ TokenSpentOnce'
<1>1. \A r \in Sessions : auth[r].token \in 0 .. MaxTokens
  BY DEF SpendInv, AuthTypes, AuthTypeOK
<1>2. /\ issued \in Nat
      /\ issued' = issued + 1
      /\ \A t \in Tokens : parent'[t] = IF t = issued + 1 THEN auth[s].token ELSE parent[t]
  BY <1>1, IssueNext DEF SpendInv, AuthTypes, AuthTypeOK
<1>3. \A t \in Tokens : t \in Nat \ {0} /\ parent[t] \in Nat
  BY AuthAssumption DEF SpendInv, AuthTypes, AuthTypeOK, Tokens
<1>4. /\ \A t \in Tokens : parent[t] <= issued /\ (t > issued => parent[t] = 0)
      /\ \A r \in Sessions : auth[r].token \in Nat /\ auth[r].token <= issued
      /\ \A q, r \in Sessions : auth[q].token = auth[r].token /\ auth[q].token # 0 => q = r
      /\ \A r \in Sessions, t \in Tokens : auth[r].token # 0 => parent[t] # auth[r].token
      /\ \A t, u \in Tokens : parent[t] = parent[u] /\ parent[t] # 0 => t = u
  BY <1>1 DEF SpendInv, Unspent, TokenSpentOnce
<1>5. \A t \in Tokens : parent'[t] <= issued' /\ (t > issued' => parent'[t] = 0)
  BY <1>2, <1>3, <1>4
<1>6. \A r \in Sessions : auth'[r].token <= issued'
  BY <1>2, <1>4
<1>7. \A q, r \in Sessions : auth'[q].token = auth'[r].token /\ auth'[q].token # 0 => q = r
  BY <1>2, <1>4
<1>8. \A r \in Sessions, t \in Tokens : auth'[r].token # 0 => parent'[t] # auth'[r].token
  <2> SUFFICES ASSUME NEW r \in Sessions, NEW t \in Tokens, auth'[r].token # 0
               PROVE  parent'[t] # auth'[r].token
    OBVIOUS
  <2>1. CASE r = s
    BY <1>2, <1>3, <1>4, <2>1
  <2>2. CASE r # s
    BY <1>2, <1>4, <2>2
  <2>. QED
    BY <2>1, <2>2
<1>9. \A t, u \in Tokens : parent'[t] = parent'[u] /\ parent'[t] # 0 => t = u
  BY <1>2, <1>3, <1>4
<1>. QED
  BY <1>5, <1>6, <1>7, <1>8, <1>9 DEF Unspent, TokenSpentOnce

(* A created session holds the token just issued. *)
LEMMA CreateNext ==
  ASSUME SpendInv, NEW s \in Sessions, CreateSession(s)
  PROVE  /\ auth' \in [Sessions -> [token : 0 .. MaxTokens, revoked : BOOLEAN, expiresAt : Int]]
         /\ issued' \in 0 .. MaxTokens
         /\ parent' \in [Tokens -> 0 .. MaxTokens]
         /\ \A r \in Sessions : auth[r].token # 0 => auth'[r] = auth[r]
         /\ auth'[s].token # 0
         /\ \A r \in Sessions : auth'[r].revoked => auth'[r].token # 0
         /\ Unspent' /\ TokenSpentOnce'
<1> USE AuthAssumption
<1>1. /\ issued + 1 \in Tokens
      /\ issued' = issued + 1
      /\ parent' \in [Tokens -> 0 .. MaxTokens]
      /\ \A t \in Tokens : parent'[t] = IF t = issued + 1 THEN 0 ELSE parent[t]
  BY IssueNext DEF SpendInv, CreateSession
<1>2. auth' = [auth EXCEPT ![s] =
                 [token |-> issued + 1, revoked |-> FALSE, expiresAt |-> now + SessionTtl]]
      /\ auth[s].token = 0
  BY DEF CreateSession
<1>3. /\ auth' \in [Sessions -> [token : 0 .. MaxTokens, revoked : BOOLEAN, expiresAt : Int]]
      /\ \A r \in Sessions : auth'[r] = IF r = s THEN
            [token |-> issued + 1, revoked |-> FALSE, expiresAt |-> now + SessionTtl] ELSE auth[r]
  BY <1>1, <1>2 DEF SpendInv, AuthTypes, AuthTypeOK, AuthMemory, Tokens
<1>4. Unspent' /\ TokenSpentOnce'
  <2>1. Issue(s, auth[s].token)
    BY <1>2 DEF CreateSession
  <2>2. \A r \in Sessions : auth'[r].token = IF r = s THEN issued + 1 ELSE auth[r].token
    BY <1>3
  <2>. QED
    BY <2>1, <2>2, ExchangeStep
<1>. QED
  BY <1>1, <1>2, <1>3, <1>4 DEF SpendInv, AuthTypes, SessionsCreated, AuthTypeOK, Tokens

(* Every step keeps the types and exchanges no token twice. *)
LEMMA SpendNext == SpendInv /\ [AuthNext]_authVars => SpendInv'
<1> SUFFICES ASSUME SpendInv, [AuthNext]_authVars PROVE SpendInv'
  OBVIOUS
<1> USE AuthAssumption, RequestsAssumption
<1>1. ASSUME NEW s \in Sessions, Register(s) PROVE SpendInv'
  <2>1. CreateSession(s)
    BY <1>1 DEF Register
  <2>2. account' = "ACTIVE" /\ UNCHANGED <<now, at, mem>>
    BY <1>1 DEF Register, Single
  <2>. QED
    BY <2>1, <2>2, CreateNext
       DEF SpendInv, AuthTypes, AuthTypeOK, AuthMemory, SessionsCreated, UserStatus
<1>2. ASSUME NEW h \in Handlers, NEW s \in Sessions, Login(h, s) PROVE SpendInv'
  <2>1. CreateSession(s)
    BY <1>2 DEF Login
  <2>2. /\ UNCHANGED <<account, now>>
        /\ at' = [at EXCEPT ![h] = Free]
        /\ mem' = [mem EXCEPT ![h] = Nothing]
    BY <1>2 DEF Login, Finish, Proceed
  <2>3. \A g \in Handlers : at'[g] # Free => at'[g] = at[g] /\ mem'[g] = mem[g]
    BY <2>2 DEF SpendInv, AuthTypes, AuthMemory, AuthTypeOK
  <2>4. AuthTypeOK'
    BY <2>1, <2>2, <2>3, CreateNext DEF SpendInv, AuthTypes, AuthTypeOK, Free
  <2>5. AuthMemory'
    BY <2>2 DEF SpendInv, AuthTypes, AuthMemory
  <2>6. SessionsCreated'
    BY <2>1, <2>3, CreateNext DEF SpendInv, AuthTypes, AuthTypeOK, SessionsCreated, Free
  <2>. QED
    BY <2>1, <2>4, <2>5, <2>6, CreateNext DEF SpendInv, AuthTypes
<1>3. ASSUME NEW h \in Handlers, Rotate(h) PROVE SpendInv'
  <2> DEFINE s == mem[h].id
  <2>1. s \in Sessions /\ auth[s].token = mem[h].token /\ auth[s].token \in Tokens
    BY <1>3 DEF Rotate, Rotatable, SpendInv, AuthTypes, AuthTypeOK
  <2>2. /\ issued + 1 \in Tokens
        /\ issued' = issued + 1
        /\ parent' \in [Tokens -> 0 .. MaxTokens]
        /\ \A t \in Tokens : parent'[t] = IF t = issued + 1 THEN auth[s].token ELSE parent[t]
    BY <1>3, <2>1, IssueNext DEF Rotate, SpendInv, Tokens
  <2>3. /\ auth' = [auth EXCEPT ![s].token = issued + 1]
        /\ UNCHANGED <<account, now>>
        /\ at' = [at EXCEPT ![h] = Free]
        /\ mem' = [mem EXCEPT ![h] = Nothing]
    BY <1>3 DEF Rotate, Finish, Proceed
  <2>4. auth' \in [Sessions -> [token : 0 .. MaxTokens, revoked : BOOLEAN, expiresAt : Int]]
    <3>1. issued + 1 \in 0 .. MaxTokens
      BY <2>2 DEF Tokens
    <3>2. [auth[s] EXCEPT !.token = issued + 1]
            \in [token : 0 .. MaxTokens, revoked : BOOLEAN, expiresAt : Int]
      BY <2>1, <3>1 DEF SpendInv, AuthTypes, AuthTypeOK
    <3>. QED
      BY <2>1, <2>3, <3>2 DEF SpendInv, AuthTypes, AuthTypeOK
  <2>5. \A r \in Sessions :
          /\ auth'[r].token = IF r = s THEN issued + 1 ELSE auth[r].token
          /\ auth'[r].revoked = auth[r].revoked
    BY <2>1, <2>3 DEF SpendInv, AuthTypes, AuthTypeOK
  <2>6. \A g \in Handlers : at'[g] # Free => at'[g] = at[g] /\ mem'[g] = mem[g]
    BY <2>3 DEF SpendInv, AuthTypes, AuthMemory, AuthTypeOK
  <2>7. AuthTypeOK'
    <3>1. issued' \in 0 .. MaxTokens
      BY <2>2 DEF Tokens
    <3>2. at' \in [Handlers -> {Free, "login", "rotate", "logout"}]
      BY <2>3 DEF SpendInv, AuthTypes, AuthTypeOK
    <3>. QED
      BY <2>2, <2>3, <2>4, <2>6, <3>1, <3>2 DEF SpendInv, AuthTypes, AuthTypeOK, Free
  <2>8. AuthMemory'
    BY <2>3 DEF SpendInv, AuthTypes, AuthMemory
  <2>9. SessionsCreated'
    <3>1. issued + 1 # 0
      BY <2>2 DEF Tokens
    <3>2. \A r \in Sessions : auth[r].token # 0 => auth'[r].token # 0
      BY <2>5, <3>1
    <3>. QED
      BY <2>5, <2>6, <3>2 DEF SpendInv, AuthTypes, AuthTypeOK, SessionsCreated, Free
  <2>10. Unspent' /\ TokenSpentOnce'
    BY <1>3, <2>1, <2>5, ExchangeStep DEF Rotate, Issue
  <2>. QED
    BY <2>7, <2>8, <2>9, <2>10 DEF SpendInv, AuthTypes
<1>4. ASSUME NEW h \in Handlers, Logout(h) PROVE SpendInv'
  <2>1. /\ mem[h] \in Sessions
        /\ auth' = [auth EXCEPT ![mem[h]].revoked = TRUE]
        /\ UNCHANGED <<account, issued, parent, now>>
        /\ at' = [at EXCEPT ![h] = Free]
        /\ mem' = [mem EXCEPT ![h] = Nothing]
    BY <1>4 DEF Logout, Finish, Proceed, SpendInv, AuthTypes, AuthTypeOK
  <2>2. /\ auth' \in [Sessions -> [token : 0 .. MaxTokens, revoked : BOOLEAN, expiresAt : Int]]
        /\ \A r \in Sessions : auth'[r].token = auth[r].token
        /\ \A r \in Sessions : auth'[r].revoked => auth[r].revoked \/ r = mem[h]
    BY <2>1 DEF SpendInv, AuthTypes, AuthTypeOK
  <2>3. \A g \in Handlers : at'[g] # Free => at'[g] = at[g] /\ mem'[g] = mem[g]
    BY <2>1 DEF SpendInv, AuthTypes, AuthMemory, AuthTypeOK
  <2>4. AuthTypeOK'
    BY <2>1, <2>2, <2>3 DEF SpendInv, AuthTypes, AuthTypeOK, Free
  <2>5. AuthMemory' /\ SessionsCreated'
    BY <1>4, <2>1, <2>2, <2>3 DEF Logout, SpendInv, AuthTypes, AuthTypeOK, AuthMemory, SessionsCreated, Free
  <2>6. Unspent' /\ TokenSpentOnce'
    BY <2>1, <2>2 DEF SpendInv, Unspent, TokenSpentOnce
  <2>. QED
    BY <2>4, <2>5, <2>6 DEF SpendInv, AuthTypes
<1>5. ASSUME NEW h \in Handlers,
             \/ VerifyPassword(h) \/ RotateRefused(h)
             \/ \E s \in Sessions : FindSession(h, s) \/ ValidateAccessToken(h, s)
      PROVE  SpendInv'
  <2> USE DEF SpendInv, AuthTypes, AuthTypeOK
  <2>1. UNCHANGED <<account, auth, issued, parent, now>>
    BY <1>5 DEF VerifyPassword, RotateRefused, FindSession, ValidateAccessToken, Begin, Finish, Proceed
  <2>2. \A g \in Handlers \ {h} : at'[g] = at[g] /\ mem'[g] = mem[g]
    BY <1>5 DEF VerifyPassword, RotateRefused, FindSession, ValidateAccessToken, Begin,
       Finish, Proceed, AuthMemory
  <2>3. /\ at' \in [Handlers -> {Free, "login", "rotate", "logout"}]
        /\ AuthMemory'
    BY <1>5 DEF VerifyPassword, RotateRefused, FindSession, ValidateAccessToken, Begin,
       Finish, Proceed, AuthMemory, Free
  <2>4. /\ at'[h] = "rotate" => mem'[h] \in [id : Sessions, token : Tokens, now : Int]
        /\ at'[h] = "logout" => mem'[h] \in Sessions /\ auth[mem'[h]].token # 0
    BY <1>5 DEF VerifyPassword, RotateRefused, FindSession, ValidateAccessToken, Begin, Finish,
       Proceed, AuthMemory, Live, Free, Tokens
  <2>5. Unspent' /\ TokenSpentOnce'
    BY <2>1 DEF Unspent, TokenSpentOnce
  <2>. QED
    BY <2>1, <2>2, <2>3, <2>4, <2>5 DEF SessionsCreated
<1>6. CASE AuthTick \/ (\E status \in UserStatus : SetStatus(status)) \/ UNCHANGED authVars
  BY <1>6 DEF AuthTick, PassTime, SetStatus, Single, Request, authVars, environment, requests,
     SpendInv, AuthTypes, AuthTypeOK, AuthMemory, SessionsCreated, Unspent, TokenSpentOnce
<1>. QED
  BY <1>1, <1>2, <1>3, <1>4, <1>5, <1>6 DEF AuthNext

(* Every account, session and request keeps its type. *)
THEOREM AuthTypeCorrect == AuthSpec => []AuthTypeOK
<1>1. SpendInv => AuthTypeOK
  BY DEF SpendInv, AuthTypes
<1>. QED
  BY SpendInit, SpendNext, <1>1, PTL DEF AuthSpec

(* Of the requests that present one refresh token, at most one is given    *)
(* its successor, for any number of requests, sessions and tokens.         *)
THEOREM TokenIsSpentOnce == AuthSpec => []TokenSpentOnce
<1>1. SpendInv => TokenSpentOnce
  BY DEF SpendInv
<1>. QED
  BY SpendInit, SpendNext, <1>1, PTL DEF AuthSpec

\* The sessions that are revoked stay as they are.
StaysRevoked == \A s \in Sessions : auth[s].revoked => auth'[s] = auth[s]

(* Only a session that is not revoked is given a token, or is revoked. *)
LEMMA RevokedKept == SpendInv /\ [AuthNext]_authVars => [StaysRevoked]_auth
<1> SUFFICES ASSUME SpendInv, AuthNext PROVE StaysRevoked \/ UNCHANGED auth
  BY DEF authVars
<1> USE DEF StaysRevoked, SpendInv, AuthTypes, AuthTypeOK
<1>1. ASSUME NEW s \in Sessions, CreateSession(s) PROVE StaysRevoked
  BY <1>1 DEF CreateSession, SessionsCreated
<1>2. ASSUME NEW h \in Handlers, Rotate(h) PROVE StaysRevoked
  BY <1>2 DEF Rotate, Rotatable
<1>3. ASSUME NEW h \in Handlers, Logout(h) PROVE StaysRevoked
  <2>1. mem[h] \in Sessions /\ auth' = [auth EXCEPT ![mem[h]].revoked = TRUE]
    BY <1>3 DEF Logout
  <2>2. \A s \in Sessions : auth[s].revoked => [auth[s] EXCEPT !.revoked = TRUE] = auth[s]
    OBVIOUS
  <2>. QED
    BY <2>1, <2>2
<1>. QED
  BY <1>1, <1>2, <1>3 DEF AuthNext, Register, Login, VerifyPassword, FindSession,
     RotateRefused, ValidateAccessToken, SetStatus, AuthTick

(* No request gives a revoked session a new token or a new expiry.         *)
THEOREM RevokedStaysRevoked == AuthSpec => RevokedIsFinal
BY SpendInit, SpendNext, RevokedKept, PTL DEF AuthSpec, RevokedIsFinal, StaysRevoked

-----------------------------------------------------------------------------
(* MessagingDestination.                                                   *)

MessagingMemory ==
  \A h \in Handlers :
    /\ at[h] \in {"ensure", "create"} =>
         mem[h].purpose \in PhoneVerificationPurpose /\ mem[h].number \in Numbers
    /\ at[h] = "complete" => mem[h].purpose \in PhoneVerificationPurpose
    /\ at[h] = "prefer" => mem[h].channel \in NotificationChannel

\* A number stays once it was entered, and all but the start of a
\* verification needs one.
Numbered ==
  \/ verified \/ whatsapp # "NOT_CONNECTED"
  \/ \E p \in PhoneVerificationPurpose : code[p].issuedAt # NULL
  \/ \E h \in Handlers : at[h] = "create"
  => number # NoNumber

\* The lock of the code's row: one confirmation has it, and the code is unused.
CodeLocked ==
  \A h \in Handlers : at[h] = "complete" =>
    /\ code[mem[h].purpose].issuedAt # NULL
    /\ code[mem[h].purpose].uses = 0
    /\ \A g \in Handlers \ {h} : at[g] = "complete" => mem[g].purpose # mem[h].purpose

\* Whoever made the endpoint active has a registration, or is at it.
ActiveIsWanted ==
  pushEndpoint = "ACTIVE" => wanted \/ \E h \in Handlers : at[h] = "register"

CodeRow == [issuedAt : {NULL} \cup Times, sentTo : {NoNumber} \cup Numbers, uses : Nat]

MessagingInv ==
  /\ Registers /\ MessagingTypeOK /\ MessagingMemory
  /\ Numbered /\ CodeLocked /\ CodeUsedOnce /\ VerifiedNumber /\ ActiveIsWanted

(* Nothing is registered, entered or asked for. *)
LEMMA MessagingStarts == MessagingInit => MessagingInv
<1> SUFFICES ASSUME MessagingInit PROVE MessagingInv
  OBVIOUS
<1>1. Registers /\ \A h \in Handlers : at[h] = Free
  BY RegistersStart DEF MessagingInit
<1>2. MessagingTypeOK
  BY DEF MessagingInit, MessagingTypeOK, NotificationEndpointStatus, WhatsAppConnectionStatus,
     NoCode, NotificationChannel
<1>3. MessagingMemory /\ CodeLocked /\ Numbered
  BY <1>1 DEF MessagingInit, MessagingMemory, CodeLocked, Numbered, Free, NoCode
<1>4. CodeUsedOnce /\ VerifiedNumber /\ ActiveIsWanted
  BY DEF MessagingInit, CodeUsedOnce, VerifiedNumber, ActiveIsWanted, NoCode
<1>. QED
  BY <1>1, <1>2, <1>3, <1>4 DEF MessagingInv

(* Every step keeps the invariant. *)
LEMMA MessagingStep == MessagingInv /\ [MessagingNext]_messagingVars => MessagingInv'
<1> SUFFICES ASSUME MessagingInv, [MessagingNext]_messagingVars PROVE MessagingInv'
  OBVIOUS
<1> USE VerificationAssumption DEF MessagingInv
<1>1. ASSUME NEW h \in Handlers, RegisterEndpoint(h) \/ RegisterDevice(h)
                                \/ RevokeRegistration(h) \/ RevokeEndpoint(h)
      PROVE  MessagingInv'
  <2>1. /\ Registers'
        /\ at'[h] \in {"register", "revoke", Free}
        /\ \A g \in Handlers \ {h} : at'[g] = at[g] /\ mem'[g] = mem[g]
    BY <1>1, HandlerMoves DEF RegisterEndpoint, RegisterDevice, RevokeRegistration, RevokeEndpoint,
       Finish
  <2>2. UNCHANGED <<number, verified, whatsapp, waEndpoint, code, confirmed, enabled>>
    BY <1>1 DEF RegisterEndpoint, RegisterDevice, RevokeRegistration, RevokeEndpoint, phoneVars
  <2>3. MessagingTypeOK'
    BY <1>1, <2>2 DEF MessagingTypeOK, RegisterEndpoint, RegisterDevice, RevokeRegistration,
       RevokeEndpoint, NotificationEndpointStatus
  <2>4. MessagingMemory' /\ CodeLocked' /\ CodeUsedOnce'
    BY <2>1, <2>2 DEF MessagingMemory, CodeLocked, CodeUsedOnce, Free
  <2>5. Numbered' /\ VerifiedNumber'
    BY <2>1, <2>2 DEF Numbered, VerifiedNumber, Free
  <2>6. ActiveIsWanted'
    <3>1. CASE RegisterEndpoint(h)
      BY <3>1, HandlerMoves DEF RegisterEndpoint, ActiveIsWanted
    <3>2. CASE RegisterDevice(h) \/ RevokeEndpoint(h)
      BY <3>2 DEF RegisterDevice, RevokeEndpoint, ActiveIsWanted
    <3>3. CASE RevokeRegistration(h)
      BY <2>1, <3>3 DEF RevokeRegistration, Begin, ActiveIsWanted, Free
    <3>. QED
      BY <1>1, <3>1, <3>2, <3>3
  <2>. QED
    BY <2>1, <2>3, <2>4, <2>5, <2>6
<1>2. ASSUME NEW h \in Handlers, EnsureDestination(h) PROVE MessagingInv'
  <2>1. /\ Registers'
        /\ at[h] = "ensure" /\ at'[h] = "create" /\ mem'[h] = mem[h]
        /\ \A g \in Handlers \ {h} : at'[g] = at[g] /\ mem'[g] = mem[g]
    BY <1>2, HandlerMoves DEF EnsureDestination
  <2>2. /\ number' \in Numbers
        /\ whatsapp' \in WhatsAppConnectionStatus
        /\ waEndpoint' \in [Numbers -> {"NONE"} \cup NotificationEndpointStatus]
        /\ UNCHANGED <<code, confirmed, device, pushEndpoint, wanted, enabled>>
    BY <1>2 DEF EnsureDestination, MessagingMemory, MessagingTypeOK, WhatsAppConnectionStatus,
       Upserted, NotificationEndpointStatus, deviceVars
  <2>3. MessagingTypeOK' /\ Numbered'
    BY <2>2 DEF MessagingTypeOK, Numbered
  <2>4. MessagingMemory' /\ CodeLocked' /\ CodeUsedOnce' /\ ActiveIsWanted'
    BY <2>1, <2>2 DEF MessagingMemory, CodeLocked, CodeUsedOnce, ActiveIsWanted
  <2>5. VerifiedNumber'
    <3>1. Changed(mem[h].number) \/ number = NoNumber \/ number' = number
      BY <1>2 DEF EnsureDestination, Changed
    <3>2. whatsapp' = "VERIFIED" => confirmed'["WHATSAPP"] = number'
      <4>. SUFFICES ASSUME whatsapp' = "VERIFIED" PROVE confirmed'["WHATSAPP"] = number'
        OBVIOUS
      <4>1. whatsapp = "VERIFIED" /\ ~Changed(mem[h].number)
        BY <1>2 DEF EnsureDestination
      <4>. QED
        BY <2>2, <3>1, <4>1 DEF VerifiedNumber, MessagingTypeOK
    <3>3. verified' => confirmed'["PHONE"] = number'
      <4>1. CASE verified'
        <5>1. verified /\ ~Changed(mem[h].number)
          BY <1>2, <4>1, Zenon DEF EnsureDestination
        <5>. QED
          BY <2>2, <3>1, <5>1 DEF VerifiedNumber, MessagingTypeOK
      <4>. QED
        BY <4>1
    <3>. QED
      BY <3>2, <3>3, Zenon DEF VerifiedNumber
  <2>. QED
    BY <2>1, <2>3, <2>4, <2>5
<1>3. ASSUME NEW h \in Handlers, CreateVerification(h) PROVE MessagingInv'
  <2> DEFINE p == mem[h].purpose
             new == NewCode(mem[h].number)
  <2>1. /\ Registers' /\ now' = now
        /\ at[h] = "create" /\ at'[h] = Free
        /\ \A g \in Handlers \ {h} : at'[g] = at[g] /\ mem'[g] = mem[g]
    BY <1>3, HandlerMoves DEF CreateVerification, Finish
  <2>2. /\ p \in PhoneVerificationPurpose
        /\ code' = [code EXCEPT ![p] = new]
        /\ new \in CodeRow /\ new.uses = 0
        /\ \A g \in Handlers : at[g] = "complete" => mem[g].purpose # p
        /\ UNCHANGED <<number, verified, whatsapp, waEndpoint, confirmed, deviceVars, enabled>>
    BY <1>3 DEF CreateVerification, MayCreate, Unlocked, NewCode, CodeRow, Registers,
       MessagingMemory
  <2>3. MessagingTypeOK' /\ CodeUsedOnce'
    BY <2>2 DEF MessagingTypeOK, CodeRow, CodeUsedOnce, deviceVars
  <2>4. MessagingMemory' /\ CodeLocked'
    BY <2>1, <2>2 DEF MessagingMemory, CodeLocked, MessagingTypeOK, Free
  <2>5. Numbered' /\ VerifiedNumber' /\ ActiveIsWanted'
    BY <2>1, <2>2 DEF Numbered, VerifiedNumber, ActiveIsWanted, deviceVars, Free
  <2>. QED
    BY <2>1, <2>3, <2>4, <2>5
<1>4. ASSUME NEW h \in Handlers, CompleteVerification(h) PROVE MessagingInv'
  <2> DEFINE p == mem[h].purpose
  <2>1. /\ Registers' /\ now' = now
        /\ at[h] = "complete" /\ at'[h] = Free
        /\ \A g \in Handlers \ {h} : at'[g] = at[g] /\ mem'[g] = mem[g]
    BY <1>4, HandlerMoves DEF CompleteVerification, Finish
  <2>2. /\ p \in PhoneVerificationPurpose
        /\ code[p] \in CodeRow
        /\ code[p].uses = 0 /\ code[p].issuedAt # NULL
        /\ code' = [code EXCEPT ![p].uses = @ + 1]
        /\ confirmed' = [confirmed EXCEPT ![p] = number]
        /\ \A g \in Handlers \ {h} : at[g] = "complete" => mem[g].purpose # p
        /\ UNCHANGED <<number, deviceVars, enabled>>
    <3>1. p \in PhoneVerificationPurpose
      BY <2>1 DEF MessagingMemory
    <3>. QED
      BY <1>4, <2>1, <3>1 DEF CompleteVerification, CodeLocked, MessagingTypeOK, CodeRow
  <2>3. /\ code' \in [PhoneVerificationPurpose -> CodeRow]
        /\ code'[p].uses = 1
        /\ \A q \in PhoneVerificationPurpose : q # p => code'[q] = code[q]
        /\ \A q \in PhoneVerificationPurpose : code'[q].issuedAt = code[q].issuedAt
    BY <2>2 DEF MessagingTypeOK, CodeRow
  <2>4. number # NoNumber
    BY <2>2 DEF Numbered
  <2>5. /\ whatsapp' \in WhatsAppConnectionStatus
        /\ waEndpoint' \in [Numbers -> {"NONE"} \cup NotificationEndpointStatus]
    BY <1>4 DEF CompleteVerification, MessagingTypeOK, WhatsAppConnectionStatus,
       NotificationEndpointStatus
  <2>6. MessagingTypeOK' /\ Numbered'
    BY <2>2, <2>3, <2>4, <2>5 DEF MessagingTypeOK, CodeRow, Numbered, deviceVars
  <2>7. MessagingMemory' /\ CodeLocked' /\ CodeUsedOnce'
    BY <2>1, <2>2, <2>3 DEF MessagingMemory, CodeLocked, CodeUsedOnce, Free
  <2>8. ActiveIsWanted'
    BY <2>1, <2>2 DEF ActiveIsWanted, deviceVars, Free
  <2>9. VerifiedNumber'
    BY <1>4, <2>2 DEF CompleteVerification, VerifiedNumber, MessagingTypeOK,
       PhoneVerificationPurpose
  <2>. QED
    BY <2>1, <2>6, <2>7, <2>8, <2>9
<1>5. ASSUME NEW h \in Handlers, NEW p \in PhoneVerificationPurpose,
             \/ FindVerification(h, p)
             \/ \E n \in Numbers : StartVerification(h, p, n)
      PROVE  MessagingInv'
  <2>1. /\ Registers' /\ at[h] = Free
        /\ \A g \in Handlers \ {h} : at'[g] = at[g] /\ mem'[g] = mem[g]
        /\ UNCHANGED <<deviceVars, phoneVars, enabled>>
    BY <1>5, HandlerMoves DEF FindVerification, StartVerification, Begin
  <2>2. CASE FindVerification(h, p)
    <3>1. at'[h] = "complete" /\ mem'[h] = [purpose |-> p] /\ Confirmable(p)
      BY <2>2, HandlerMoves DEF FindVerification
    <3>2. MessagingMemory' /\ CodeLocked'
      BY <2>1, <3>1 DEF MessagingMemory, CodeLocked, Confirmable, Unlocked, phoneVars
    <3>3. Numbered' /\ ActiveIsWanted'
      BY <2>1, <3>1 DEF Numbered, ActiveIsWanted, deviceVars, phoneVars, Free
    <3>. QED
      BY <2>1, <3>2, <3>3 DEF MessagingTypeOK, CodeUsedOnce, VerifiedNumber, deviceVars, phoneVars
  <2>3. ASSUME NEW n \in Numbers, StartVerification(h, p, n) PROVE MessagingInv'
    <3>1. at'[h] = "ensure" /\ mem'[h] = [purpose |-> p, number |-> n]
      BY <2>3, HandlerMoves DEF StartVerification
    <3>2. MessagingMemory' /\ CodeLocked'
      BY <2>1, <3>1 DEF MessagingMemory, CodeLocked, phoneVars
    <3>3. Numbered' /\ ActiveIsWanted'
      BY <2>1, <3>1 DEF Numbered, ActiveIsWanted, deviceVars, phoneVars, Free
    <3>. QED
      BY <2>1, <3>2, <3>3 DEF MessagingTypeOK, CodeUsedOnce, VerifiedNumber, deviceVars, phoneVars
  <2>. QED
    BY <1>5, <2>2, <2>3
<1>6. ASSUME NEW h \in Handlers,
             \/ EnsureRefused(h) \/ CreateRefused(h)
             \/ DisconnectDestination(h) \/ DisconnectEndpoint(h) \/ UpdatePreference(h)
             \/ \E c \in NotificationChannel, on \in BOOLEAN : CheckAvailability(h, c, on)
      PROVE  MessagingInv'
  <2>1. /\ Registers'
        /\ at[h] # "register"
        /\ at'[h] \in {Free, "disconnect", "prefer"}
        /\ at'[h] = "prefer" => mem'[h].channel \in NotificationChannel
        /\ \A g \in Handlers \ {h} : at'[g] = at[g] /\ mem'[g] = mem[g]
    BY <1>6, HandlerMoves DEF EnsureRefused, CreateRefused, DisconnectDestination,
       DisconnectEndpoint, UpdatePreference, CheckAvailability, Finish, Free, Begin
  <2>2. /\ UNCHANGED <<number, verified, code, confirmed, deviceVars>>
        /\ whatsapp' = whatsapp \/ (whatsapp = "VERIFIED" /\ whatsapp' = "REVOKED")
        /\ waEndpoint' \in [Numbers -> {"NONE"} \cup NotificationEndpointStatus]
        /\ enabled' \subseteq NotificationChannel
    BY <1>6 DEF EnsureRefused, CreateRefused, DisconnectDestination, DisconnectEndpoint,
       UpdatePreference, CheckAvailability, deviceVars, phoneVars, MessagingTypeOK,
       MessagingMemory, NotificationEndpointStatus
  <2>3. MessagingTypeOK' /\ CodeUsedOnce'
    BY <2>2 DEF MessagingTypeOK, CodeUsedOnce, deviceVars, WhatsAppConnectionStatus
  <2>4. MessagingMemory' /\ CodeLocked'
    BY <2>1, <2>2 DEF MessagingMemory, CodeLocked, Free
  <2>5. Numbered' /\ VerifiedNumber' /\ ActiveIsWanted'
    BY <2>1, <2>2 DEF Numbered, VerifiedNumber, ActiveIsWanted, deviceVars, Free
  <2>. QED
    BY <2>1, <2>3, <2>4, <2>5
<1>7. CASE MessagingTick \/ UNCHANGED messagingVars
  <2>1. /\ Registers'
        /\ UNCHANGED <<deviceVars, phoneVars, enabled, at, mem>>
    BY <1>7, ClockMoves DEF MessagingTick, messagingVars, environment, requests, Registers
  <2>. QED
    BY <2>1 DEF deviceVars, phoneVars, MessagingTypeOK, MessagingMemory, Numbered, CodeLocked,
       CodeUsedOnce, VerifiedNumber, ActiveIsWanted
<1>. QED
  BY <1>1, <1>2, <1>3, <1>4, <1>5, <1>6, <1>7 DEF MessagingNext

(* Devices, numbers, codes and channels keep their types, and nothing is   *)
(* verified without a number.                                              *)
THEOREM MessagingTypeCorrect == MessagingSpec => []MessagingTypeOK
<1>1. MessagingInv => MessagingTypeOK
  BY DEF MessagingInv
<1>. QED
  BY MessagingStarts, MessagingStep, <1>1, PTL DEF MessagingSpec

(* With the invariant, a code is used once, a verified number was confirmed *)
(* and a revoked device is silent.                                         *)
LEMMA DestinationsSound == MessagingInv => CodeUsedOnce /\ VerifiedNumber /\ RevokedDeviceSilent
BY DEF MessagingInv, ActiveIsWanted, RevokedDeviceSilent, Reachable

CodeApart ==
  \A p \in PhoneVerificationPurpose : code'[p].issuedAt # code[p].issuedAt => ~CoolingDown(p)

(* A code is issued by the transaction that has looked at the cooldown. *)
LEMMA CodesApart == MessagingInv /\ [MessagingNext]_messagingVars => [CodeApart]_code
<1> SUFFICES ASSUME MessagingInv, MessagingNext PROVE CodeApart \/ UNCHANGED code
  BY DEF messagingVars, phoneVars
<1>1. ASSUME NEW h \in Handlers, CreateVerification(h) PROVE CodeApart
  <2>1. code' = [code EXCEPT ![mem[h].purpose] = NewCode(mem[h].number)] /\ ~CoolingDown(mem[h].purpose)
    BY <1>1 DEF CreateVerification, MayCreate
  <2>. QED
    BY <2>1 DEF MessagingInv, MessagingTypeOK, CodeApart
<1>2. ASSUME NEW h \in Handlers, CompleteVerification(h) PROVE CodeApart
  BY <1>2 DEF CompleteVerification, MessagingInv, MessagingTypeOK, CodeApart
<1>. QED
  BY <1>1, <1>2 DEF MessagingNext, RegisterEndpoint, RegisterDevice, RevokeRegistration,
     RevokeEndpoint, EnsureDestination, EnsureRefused, CreateRefused, DisconnectDestination,
     DisconnectEndpoint, UpdatePreference, FindVerification, StartVerification,
     CheckAvailability, MessagingTick, phoneVars

(* Of any number of confirmations, one uses a code; what is verified was   *)
(* confirmed while the number was the present one; a device that is        *)
(* revoked is silent, unless its user registers it again; and two codes    *)
(* are more than the cooldown apart.                                       *)
THEOREM MessagingIsSound == MessagingSpec => MessagingSound
BY MessagingStarts, MessagingStep, DestinationsSound, CodesApart, PTL
   DEF MessagingSpec, MessagingSound, CodesAreSpaced, CodeApart

-----------------------------------------------------------------------------
(* UserSettings.                                                           *)

SettingsMemory ==
  \A h \in Handlers :
    /\ at[h] = "place" =>
         /\ mem[h].id \in Places
         /\ mem[h].type \in Patch(SavedPlaceType)
         /\ mem[h].labelled \in BOOLEAN
    /\ at[h] = "preference" => mem[h] \in Preference
    /\ at[h] = "assign" => mem[h].status \in ContributorStatus

SettingsInv == Registers /\ SettingsTypeOK /\ SettingsMemory /\ PlacesWellFormed /\ ChoiceKept

(* What a request leaves out is what it was. *)
LEMMA MergeType ==
  ASSUME NEW S, NEW field \in Patch(S), NEW current
  PROVE  Merge(field, current) \in S \cup {current}
<1>1. CASE field = {}
  BY <1>1 DEF Merge
<1>2. CASE field # {}
  <2>1. PICK x \in S : field = {x}
    BY <1>2 DEF Patch
  <2>. QED
    BY <1>2, <2>1 DEF Merge
<1>. QED
  BY <1>1, <1>2

(* Nothing is saved or assigned. *)
LEMMA SettingsStart == SettingsInit => SettingsInv
<1> SUFFICES ASSUME SettingsInit PROVE SettingsInv
  OBVIOUS
<1>1. Registers /\ \A h \in Handlers : at[h] = Free
  BY RegistersStart DEF SettingsInit
<1>2. SettingsTypeOK /\ PlacesWellFormed /\ ChoiceKept
  BY DEF SettingsInit, SettingsTypeOK, PlacesWellFormed, ChoiceKept, NoPlace, Valid, Standard
<1>3. SettingsMemory
  BY <1>1 DEF SettingsMemory, Free
<1>. QED
  BY <1>1, <1>2, <1>3 DEF SettingsInv

(* A row that the service and the database accept leaves the places well   *)
(* formed.                                                                 *)
LEMMA StoredNext ==
  ASSUME SettingsTypeOK, PlacesWellFormed, NEW p \in Places, NEW row \in Place,
         Storable(p, row), place' = [place EXCEPT ![p] = row]
  PROVE  place' \in [Places -> {NoPlace} \cup Place] /\ PlacesWellFormed'
<1>1. \A q \in Places : place'[q] = IF q = p THEN row ELSE place[q]
  BY DEF SettingsTypeOK
<1>. QED
  BY <1>1 DEF SettingsTypeOK, PlacesWellFormed, Storable, Valid

(* Every step keeps the invariant. *)
LEMMA SettingsStep == SettingsInv /\ [SettingsNext]_settingsVars => SettingsInv'
<1> SUFFICES ASSUME SettingsInv, [SettingsNext]_settingsVars PROVE SettingsInv'
  OBVIOUS
<1> USE DEF SettingsInv
<1>1. ASSUME NEW p \in Places, DeletePlace(p) \/ \E row \in Place : CreatePlace(p, row)
      PROVE  SettingsInv'
  <2>1. /\ UNCHANGED <<preference, chosen, contributor, audit, read, now, at, mem>>
        /\ Registers' /\ SettingsMemory'
    BY <1>1 DEF DeletePlace, CreatePlace, Single, Registers, SettingsMemory
  <2>2. place' \in [Places -> {NoPlace} \cup Place] /\ PlacesWellFormed'
    <3>1. CASE DeletePlace(p)
      <4>1. \A q \in Places : place'[q] = IF q = p THEN NoPlace ELSE place[q]
        BY <3>1 DEF DeletePlace, SettingsTypeOK
      <4>. QED
        BY <3>1, <4>1 DEF DeletePlace, SettingsTypeOK, PlacesWellFormed, Valid, NoPlace, Standard
    <3>2. CASE \E row \in Place : CreatePlace(p, row)
      BY <3>2, StoredNext DEF CreatePlace
    <3>. QED
      BY <1>1, <3>1, <3>2
  <2>. QED
    BY <2>1, <2>2 DEF SettingsTypeOK, ChoiceKept
<1>2. ASSUME NEW h \in Handlers, UpdatePlace(h) PROVE SettingsInv'
  <2> DEFINE p == mem[h].id
             next == [type |-> Merge(mem[h].type, place[p].type), labelled |-> mem[h].labelled]
  <2>1. /\ Registers'
        /\ at[h] = "place" /\ at'[h] = Free
        /\ \A g \in Handlers \ {h} : at'[g] = at[g] /\ mem'[g] = mem[g]
        /\ UNCHANGED <<preference, chosen, contributor, audit, read>>
    BY <1>2, HandlerMoves DEF UpdatePlace, Finish
  <2>2. SettingsMemory'
    BY <2>1 DEF SettingsMemory, Free
  <2>3. p \in Places /\ mem[h].type \in Patch(SavedPlaceType) /\ mem[h].labelled \in BOOLEAN
    BY <2>1 DEF SettingsMemory
  <2>4. place' \in [Places -> {NoPlace} \cup Place] /\ PlacesWellFormed'
    <3>1. CASE place' = place
      BY <3>1 DEF SettingsTypeOK, PlacesWellFormed
    <3>2. CASE place' # place
      <4>1. place[p] # NoPlace /\ Storable(p, next) /\ place' = [place EXCEPT ![p] = next]
        BY <1>2, <3>2 DEF UpdatePlace
      <4>2. place[p] \in Place
        BY <2>3, <4>1 DEF SettingsTypeOK
      <4>3. Merge(mem[h].type, place[p].type) \in SavedPlaceType
        BY <2>3, <4>2, MergeType DEF Place
      <4>4. next \in Place
        BY <2>3, <4>3 DEF Place
      <4>. QED
        BY <2>3, <4>1, <4>4, StoredNext
    <3>. QED
      BY <3>1, <3>2
  <2>. QED
    BY <2>1, <2>2, <2>4 DEF SettingsTypeOK, ChoiceKept
<1>3. ASSUME NEW h \in Handlers, NEW p \in Places, NEW t \in Patch(SavedPlaceType),
             NEW l \in Patch(BOOLEAN), FindPlace(h, p, t, l)
      PROVE  SettingsInv'
  <2> DEFINE label == Merge(l, place[p].labelled)
  <2>1. /\ place[p] # NoPlace
        /\ Begin(h, "place", [id |-> p, type |-> t, labelled |-> label])
        /\ UNCHANGED <<place, preference, chosen, contributor, audit, read>>
    BY <1>3 DEF FindPlace, settings
  <2>2. label \in BOOLEAN
    BY <2>1, MergeType DEF SettingsTypeOK, Place
  <2>3. /\ Registers'
        /\ at'[h] = "place" /\ mem'[h] = [id |-> p, type |-> t, labelled |-> label]
        /\ \A g \in Handlers \ {h} : at'[g] = at[g] /\ mem'[g] = mem[g]
    BY <2>1, HandlerMoves
  <2>4. SettingsMemory'
    BY <2>2, <2>3 DEF SettingsMemory
  <2>. QED
    BY <2>1, <2>3, <2>4 DEF SettingsTypeOK, PlacesWellFormed, ChoiceKept
<1>4. Inserted \in Preference /\ (chosen # NoPreference => Inserted = chosen)
  BY DefaultAssumption DEF Inserted, SettingsTypeOK, ChoiceKept, Preference, IncidentTypes
<1>5. CASE GetDefault \/ MarkRead
  <2>1. /\ UNCHANGED <<place, chosen, contributor, audit, now, at, mem>>
        /\ preference' \in {preference, Inserted} /\ read' \in {read, TRUE}
    BY <1>5 DEF GetDefault, MarkRead, Single
  <2>. QED
    BY <1>4, <2>1 DEF Registers, SettingsMemory, SettingsTypeOK, PlacesWellFormed, ChoiceKept
<1>6. ASSUME NEW h \in Handlers, FindEffective(h) \/ EnsureDefault(h) \/ AssignStatus(h)
      PROVE  SettingsInv'
  <2>1. /\ Registers'
        /\ at'[h] \in {"default", Free}
        /\ \A g \in Handlers \ {h} : at'[g] = at[g] /\ mem'[g] = mem[g]
    BY <1>6, HandlerMoves DEF FindEffective, EnsureDefault, AssignStatus, Finish
  <2>2. SettingsMemory'
    BY <2>1 DEF SettingsMemory, Free
  <2>3. /\ UNCHANGED <<place, chosen, read>>
        /\ preference' \in {preference, Inserted}
    BY <1>6 DEF FindEffective, EnsureDefault, AssignStatus, settings
  <2>4. /\ contributor' \in {"NONE"} \cup ContributorStatus
        /\ audit' \in {"NONE"} \cup ContributorStatus
    BY <1>6 DEF FindEffective, EnsureDefault, AssignStatus, settings, SettingsMemory, SettingsTypeOK
  <2>. QED
    BY <1>4, <2>1, <2>2, <2>3, <2>4 DEF SettingsTypeOK, PlacesWellFormed, ChoiceKept
<1>7. ASSUME NEW h \in Handlers, NEW r \in Patch(Radii), NEW t \in Patch({{}, {"optional"}}),
             FindDefault(h, r, t)
      PROVE  SettingsInv'
  <2> DEFINE given == [radius |-> Merge(r, Inserted.radius),
                       types |-> NormalizeIncidentTypes(Merge(t, Inserted.types))]
  <2>1. Begin(h, "preference", given)
        /\ UNCHANGED <<place, preference, chosen, contributor, audit, read>>
    BY <1>7 DEF FindDefault, settings
  <2>2. given \in Preference
    <3>1. Merge(r, Inserted.radius) \in Radii
      BY <1>4, MergeType DEF Preference
    <3>2. Merge(t, Inserted.types) \in {{}, {"optional"}} \cup IncidentTypes
      BY <1>4, MergeType DEF Preference
    <3>3. \A types \in {{}, {"optional"}} \cup IncidentTypes :
            NormalizeIncidentTypes(types) \in IncidentTypes
      BY DEF NormalizeIncidentTypes, IncidentTypes
    <3>. QED
      BY <3>1, <3>2, <3>3 DEF Preference
  <2>3. /\ Registers'
        /\ at'[h] = "preference" /\ mem'[h] = given
        /\ \A g \in Handlers \ {h} : at'[g] = at[g] /\ mem'[g] = mem[g]
    BY <2>1, HandlerMoves
  <2>4. SettingsMemory'
    BY <2>2, <2>3 DEF SettingsMemory
  <2>. QED
    BY <2>1, <2>3, <2>4 DEF SettingsTypeOK, PlacesWellFormed, ChoiceKept
<1>8. ASSUME NEW h \in Handlers, UpsertDefault(h) PROVE SettingsInv'
  <2>1. /\ Registers'
        /\ at[h] = "preference" /\ at'[h] = Free
        /\ \A g \in Handlers \ {h} : at'[g] = at[g] /\ mem'[g] = mem[g]
    BY <1>8, HandlerMoves DEF UpsertDefault, Finish
  <2>2. /\ preference' = mem[h] /\ chosen' = mem[h] /\ mem[h] \in Preference
        /\ UNCHANGED <<place, contributor, audit, read>>
    BY <1>8, <2>1 DEF UpsertDefault, SettingsMemory
  <2>3. SettingsMemory'
    BY <2>1 DEF SettingsMemory, Free
  <2>. QED
    BY <2>1, <2>2, <2>3 DEF SettingsTypeOK, PlacesWellFormed, ChoiceKept
<1>9. ASSUME NEW h \in Handlers, NEW s \in ContributorStatus, FindContributor(h, s)
      PROVE  SettingsInv'
  <2>1. /\ Registers'
        /\ at'[h] = "assign" /\ mem'[h].status = s
        /\ \A g \in Handlers \ {h} : at'[g] = at[g] /\ mem'[g] = mem[g]
        /\ UNCHANGED <<place, preference, chosen, contributor, audit, read>>
    BY <1>9, HandlerMoves DEF FindContributor, settings
  <2>2. SettingsMemory'
    BY <2>1 DEF SettingsMemory
  <2>. QED
    BY <2>1, <2>2 DEF SettingsTypeOK, PlacesWellFormed, ChoiceKept
<1>10. CASE UNCHANGED settingsVars
  BY <1>10 DEF settingsVars, settings, environment, requests, Registers, SettingsMemory,
     SettingsTypeOK, PlacesWellFormed, ChoiceKept
<1>. QED
  BY <1>1, <1>2, <1>3, <1>5, <1>6, <1>7, <1>8, <1>9, <1>10 DEF SettingsNext

(* The rows keep their types: a preference never loses the required type.  *)
THEOREM SettingsTypeCorrect == SettingsSpec => []SettingsTypeOK
<1>1. SettingsInv => SettingsTypeOK
  BY DEF SettingsInv
<1>. QED
  BY SettingsStart, SettingsStep, <1>1, PTL DEF SettingsSpec

(* Whatever updates and inserts of defaults overlap, every place keeps its *)
(* label, a standard type its only place, and a preference the user's      *)
(* choice.                                                                 *)
THEOREM SettingsAreKept == SettingsSpec => []SettingsKept
<1>1. SettingsInv => SettingsKept
  BY DEF SettingsInv, SettingsKept
<1>. QED
  BY SettingsStart, SettingsStep, <1>1, PTL DEF SettingsSpec
=============================================================================
