------------------------------- MODULE Requests -------------------------------
(***************************************************************************)
(* What the components behind the HTTP controllers have in common: a clock *)
(* and the handlers of concurrent requests.  A handler runs its component's *)
(* statements and transactions one by one; between them it keeps what it   *)
(* has read, and others run.                                               *)
(***************************************************************************)
EXTENDS Integers, FiniteSets

CONSTANTS
  Handlers,    \* requests that are handled at the same time
  MaxRequests, \* bound on the requests made
  MaxTime      \* bound on the clock

ASSUME RequestsAssumption == {MaxRequests, MaxTime} \subseteq Nat

NULL == -1
Times == 0 .. MaxTime
Free == "free"
Nothing == <<>>

VARIABLES
  now,
  begun, \* requests made so far
  at,    \* the statement each handler is at
  mem    \* what it has read

requests == <<begun, at, mem>>
environment == <<now, requests>>

EnvironmentInit ==
  /\ now = 0
  /\ begun = 0
  /\ at = [h \in Handlers |-> Free]
  /\ mem = [h \in Handlers |-> Nothing]

Request ==
  /\ begun < MaxRequests
  /\ begun' = begun + 1

\* A request that one statement or transaction serves.
Single == Request /\ UNCHANGED <<now, at, mem>>

\* A request whose first statement reads, or writes, and leaves the handler
\* waiting at `step` with what it has read.
Begin(h, step, read) ==
  /\ at[h] = Free
  /\ Request
  /\ at' = [at EXCEPT ![h] = step]
  /\ mem' = [mem EXCEPT ![h] = read]
  /\ UNCHANGED now

Proceed(h, step, read) ==
  /\ at' = [at EXCEPT ![h] = step]
  /\ mem' = [mem EXCEPT ![h] = read]
  /\ UNCHANGED <<now, begun>>

Finish(h) == Proceed(h, Free, Nothing)

\* No bound on how long a request takes.
PassTime ==
  /\ now < MaxTime
  /\ now' = now + 1
  /\ UNCHANGED requests
=============================================================================
