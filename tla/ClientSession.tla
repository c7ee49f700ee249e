------------------------------ MODULE ClientSession ------------------------------
(***************************************************************************)
(* The browser's side of a session, against the server's: the tokens in    *)
(* the session storage, which every call reads for itself, the refresh a   *)
(* call makes when it is answered 401, the one repetition after it, and    *)
(* login and logout between them.  A handler is one call of api().         *)
(*                                                                         *)
(* A pair of tokens is its session and its number in that session; the     *)
(* server accepts the newest refresh token of a live session only.         *)
(***************************************************************************)
EXTENDS Requests, Sequences

CONSTANT MaxLogins \* bound on the sessions created

ASSUME LoginsAssumption == MaxLogins \in Nat

SignedOut == [session |-> 0, number |-> 0]

VARIABLES
  tokens, \* what the session storage holds
  newest, \* the newest number of each session created, 0 when it is revoked
  lost    \* sessions with a refresh whose answer never arrived

clientState == <<tokens, newest, lost>>

ClientInit ==
  /\ tokens = SignedOut
  /\ newest = <<>>
  /\ lost = {}

CreatedSessions == DOMAIN newest
LiveSession(s) == s \in CreatedSessions /\ newest[s] # 0

Call(h) ==
  /\ Begin(h, "called", [with |-> tokens, retry |-> TRUE])
  /\ UNCHANGED clientState

\* Any answer but 401, a timeout or a network error: nothing is stored.
CallEnds(h) ==
  /\ at[h] = "called"
  /\ Finish(h)
  /\ UNCHANGED clientState

\* 401: no token, one of a revoked session, or one that has expired.  The
\* refresh token is read now, whatever was stored when the call began.
Refresh(h) ==
  /\ at[h] = "called" /\ mem[h].retry
  /\ tokens # SignedOut
  /\ Proceed(h, "refreshing", [with |-> tokens, retry |-> FALSE])
  /\ UNCHANGED clientState

\* Bug: the server accepts an older refresh token too.
AcceptsAny(pair) == LiveSession(pair.session)

Accepts(pair) == LiveSession(pair.session) /\ newest[pair.session] = pair.number

RefreshGranted(h) ==
  LET s == mem[h].with.session IN
  /\ at[h] = "refreshing"
  /\ Accepts(mem[h].with)
  /\ newest' = [newest EXCEPT ![s] = @ + 1]
  /\ Proceed(h, "granted", [mem[h] EXCEPT !.with.number = newest'[s]])
  /\ UNCHANGED <<tokens, lost>>

\* The first fetch is aborted after its timeout; that of a refresh never is.
RefreshLost(h) ==
  /\ at[h] \in {"refreshing", "granted"}
  /\ lost' = IF at[h] = "granted" THEN lost \cup {mem[h].with.session} ELSE lost
  /\ Finish(h)
  /\ UNCHANGED <<tokens, newest>>

\* session.save, and the call again with what is stored then.
SaveRefreshed(h) ==
  /\ at[h] = "granted"
  /\ tokens' = mem[h].with
  /\ Proceed(h, "called", [with |-> tokens', retry |-> FALSE])
  /\ UNCHANGED <<newest, lost>>

\* 401 without a refresh token, with a refresh that is refused or limited, or to
\* the repeated call: whatever is stored by now is removed.
Unauthorized(h) ==
  /\ \/ at[h] = "called" /\ (~mem[h].retry \/ tokens = SignedOut)
     \/ at[h] = "refreshing"
  /\ tokens' = SignedOut
  /\ Finish(h)
  /\ UNCHANGED <<newest, lost>>

\* login, or register: the server creates a session, and its tokens are saved.
SignIn(h) ==
  /\ Len(newest) < MaxLogins
  /\ newest' = Append(newest, 1)
  /\ Begin(h, "signedIn", [with |-> [session |-> Len(newest'), number |-> 1], retry |-> FALSE])
  /\ UNCHANGED <<tokens, lost>>

SaveSignedIn(h) ==
  /\ at[h] = "signedIn"
  /\ tokens' = mem[h].with
  /\ Finish(h)
  /\ UNCHANGED <<newest, lost>>

\* A wrong password is answered 401, as if the session were over.
SignInRefused ==
  /\ tokens' = SignedOut
  /\ Single
  /\ UNCHANGED <<newest, lost>>

\* logout: the server revokes the session of a valid access token, and in the
\* end, whatever its answer, the storage is cleared.
LogOut(h) ==
  /\ newest' \in {newest} \cup
       {[newest EXCEPT ![s] = 0] : s \in {tokens.session} \cap CreatedSessions}
  /\ Begin(h, "loggedOut", [with |-> tokens, retry |-> FALSE])
  /\ UNCHANGED <<tokens, lost>>

ClearLoggedOut(h) ==
  /\ at[h] = "loggedOut"
  /\ tokens' = SignedOut
  /\ Finish(h)
  /\ UNCHANGED <<newest, lost>>

ClientNext ==
  \/ SignInRefused
  \/ \E h \in Handlers :
       \/ Call(h) \/ CallEnds(h) \/ Unauthorized(h)
       \/ Refresh(h) \/ RefreshGranted(h) \/ RefreshLost(h) \/ SaveRefreshed(h)
       \/ SignIn(h) \/ SaveSignedIn(h) \/ LogOut(h) \/ ClearLoggedOut(h)

ClientSpec == EnvironmentInit /\ ClientInit /\ [][ClientNext]_<<clientState, environment>>

-----------------------------------------------------------------------------
Pairs == [session : 0 .. MaxLogins, number : 0 .. MaxRequests]

ClientTypeOK ==
  /\ tokens \in Pairs
  /\ lost \subseteq CreatedSessions
  /\ \A h \in Handlers : at[h] # Free => mem[h].with \in Pairs

(* Calls that are answered 401 together all refresh, with one token or     *)
(* with several, and save in the order of their answers: once they are     *)
(* over, the client is signed out or holds the newest tokens of its        *)
(* session, so that its next refresh is accepted, unless an answer was     *)
(* lost on the way.                                                        *)
QuietClientIsCurrent ==
  (\A h \in Handlers : at[h] = Free) =>
    \/ tokens = SignedOut
    \/ newest[tokens.session] \in {0, tokens.number}
    \/ tokens.session \in lost
=============================================================================
