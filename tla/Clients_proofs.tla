------------------------------ MODULE Clients_proofs ------------------------------
(***************************************************************************)
(* Theorems about the clients: the tokens a browser keeps, the screens     *)
(* whose calls are answered late and out of order, and the two ways to     *)
(* follow what the server holds.                                           *)
(***************************************************************************)
EXTENDS ClientSession, RouteSearch, LiveNavigation, HomeMap, MapFeed, PagedLists,
        Evidence_proofs

(* Of what is counted, one comes or goes at a time. *)
LEMMA Counting ==
  ASSUME NEW S, IsFiniteSet(S), NEW x, NEW T, T \subseteq S \cup {x}
  PROVE  /\ IsFiniteSet(T) /\ Cardinality(T) \in Nat /\ Cardinality(S) \in Nat
         /\ Cardinality(T) <= Cardinality(S) + 1
         /\ T \subseteq S => Cardinality(T) <= Cardinality(S)
         /\ x \in S /\ x \notin T => Cardinality(T) + 1 <= Cardinality(S)
<1>1. /\ IsFiniteSet(S \cup {x}) /\ Cardinality(S) \in Nat
      /\ Cardinality(S \cup {x}) <= Cardinality(S) + 1
  <2>1. Cardinality(S) \in Nat
    BY FS_CardinalityType
  <2>. QED
    BY <2>1, FS_AddElement
<1>2. IsFiniteSet(T) /\ Cardinality(T) \in Nat /\ Cardinality(T) <= Cardinality(S \cup {x})
  BY <1>1, FS_Subset, FS_CardinalityType
<1>3. ASSUME T \subseteq S PROVE Cardinality(T) <= Cardinality(S)
  BY <1>3, FS_Subset
<1>4. ASSUME x \in S, x \notin T PROVE Cardinality(T) + 1 <= Cardinality(S)
  <2>1. T \subseteq S \ {x}
    BY <1>4
  <2>2. IsFiniteSet(S \ {x}) /\ Cardinality(S \ {x}) = Cardinality(S) - 1
    BY <1>4, FS_RemoveElement
  <2>3. Cardinality(T) <= Cardinality(S \ {x})
    BY <2>1, <2>2, FS_Subset
  <2>. QED
    BY <1>1, <1>2, <2>2, <2>3
<1>5. Cardinality(S \cup {x}) \in Nat
  BY <1>1, FS_CardinalityType
<1>. QED
  BY <1>1, <1>2, <1>3, <1>4, <1>5

(***************************************************************************)
(* ClientSession.                                                          *)
(***************************************************************************)

ClientSteps == {Free, "called", "refreshing", "granted", "signedIn", "loggedOut"}
TokenPair == [session : Nat, number : Nat]

\* Handlers with a pair that the server has given and nobody has saved, and
\* those with a pair that they will present.
Unsaved(h) == at[h] \in {"granted", "signedIn"}
Presenting(h) == at[h] = "refreshing"

ClientTypes ==
  /\ tokens \in TokenPair
  /\ newest \in Seq(Nat)
  /\ lost \subseteq DOMAIN newest
  /\ at \in [Handlers -> ClientSteps]
  /\ mem \in [Handlers -> {Nothing} \cup [with : TokenPair, retry : BOOLEAN]]
  /\ \A h \in Handlers : at[h] # Free => mem[h] \in [with : TokenPair, retry : BOOLEAN]

\* A pair the server has given, and of a live session the newest or older.
Given(pair) ==
  /\ pair.session \in DOMAIN newest
  /\ newest[pair.session] = 0 \/ pair.number <= newest[pair.session]

AllGiven ==
  /\ tokens = SignedOut \/ Given(tokens)
  /\ \A h \in Handlers : Presenting(h) \/ Unsaved(h) => Given(mem[h].with)

\* An unsaved pair is the newest of its session, and is nowhere else.
UnsavedIsNewest ==
  \A h \in Handlers : Unsaved(h) =>
    LET pair == mem[h].with IN
    /\ newest[pair.session] \in {0, pair.number}
    /\ tokens # pair
    /\ \A g \in Handlers \ {h} : Presenting(g) \/ Unsaved(g) => mem[g].with # pair

\* What the client holds is the newest, will be, or was lost.
TokensCurrent ==
  \/ tokens = SignedOut
  \/ newest[tokens.session] \in {0, tokens.number}
  \/ tokens.session \in lost
  \/ \E h \in Handlers : at[h] = "granted" /\ mem[h].with.session = tokens.session

ClientInv == ClientTypes /\ AllGiven /\ UnsavedIsNewest /\ TokensCurrent

(* The client is signed out. *)
LEMMA ClientStarts == EnvironmentInit /\ ClientInit => ClientInv
BY DEF EnvironmentInit, ClientInit, ClientInv, ClientTypes, AllGiven, UnsavedIsNewest, TokensCurrent,
   SignedOut, TokenPair, ClientSteps, Free, Nothing, Unsaved, Presenting

(* A handler that proceeds, with a pair or with nothing. *)
LEMMA ClientProceeds ==
  ASSUME ClientTypes, NEW h \in Handlers, NEW step \in ClientSteps,
         NEW memory \in {Nothing} \cup [with : TokenPair, retry : BOOLEAN],
         step # Free => memory \in [with : TokenPair, retry : BOOLEAN],
         \/ Proceed(h, step, memory)
         \/ Begin(h, step, memory)
  PROVE  /\ at' \in [Handlers -> ClientSteps]
         /\ mem' \in [Handlers -> {Nothing} \cup [with : TokenPair, retry : BOOLEAN]]
         /\ \A g \in Handlers : at'[g] # Free => mem'[g] \in [with : TokenPair, retry : BOOLEAN]
         /\ at'[h] = step /\ mem'[h] = memory
         /\ \A g \in Handlers \ {h} : at'[g] = at[g] /\ mem'[g] = mem[g]
<1>1. at' = [at EXCEPT ![h] = step] /\ mem' = [mem EXCEPT ![h] = memory]
  BY DEF Proceed, Begin
<1>. QED
  BY <1>1 DEF ClientTypes

(* A step after which its handler neither presents nor keeps a pair, and   *)
(* which at most removes the tokens.                                       *)
LEMMA RetireNext ==
  ASSUME ClientInv, NEW h \in Handlers, NEW step \in ClientSteps \ {"refreshing", "granted", "signedIn"},
         NEW memory \in {Nothing} \cup [with : TokenPair, retry : BOOLEAN],
         step # Free => memory \in [with : TokenPair, retry : BOOLEAN],
         Proceed(h, step, memory) \/ Begin(h, step, memory),
         UNCHANGED <<newest, lost>>,
         tokens' = SignedOut \/ (tokens' = tokens /\ at[h] # "granted")
  PROVE  ClientInv'
<1> USE DEF ClientInv
<1>1. /\ at' \in [Handlers -> ClientSteps]
      /\ mem' \in [Handlers -> {Nothing} \cup [with : TokenPair, retry : BOOLEAN]]
      /\ \A g \in Handlers : at'[g] # Free => mem'[g] \in [with : TokenPair, retry : BOOLEAN]
      /\ at'[h] = step
      /\ \A g \in Handlers \ {h} : at'[g] = at[g] /\ mem'[g] = mem[g]
  BY ClientProceeds
<1>2. tokens' \in TokenPair
  BY DEF ClientTypes, SignedOut, TokenPair
<1>3. ClientTypes'
  BY <1>1, <1>2 DEF ClientTypes
<1>4. \A g \in Handlers : Presenting(g)' \/ Unsaved(g)' => g # h
  BY <1>1 DEF Presenting, Unsaved
<1>5. AllGiven'
  BY <1>1, <1>4 DEF AllGiven, Given, Presenting, Unsaved
<1>6. UnsavedIsNewest'
  <2>1. \A g \in Handlers : Unsaved(g) => mem[g].with # SignedOut
    BY DEF AllGiven, Given, SignedOut, ClientTypes
  <2>. QED
    BY <1>1, <1>4, <2>1 DEF UnsavedIsNewest, Presenting, Unsaved
<1>7. TokensCurrent'
  BY <1>1 DEF TokensCurrent
<1>. QED
  BY <1>3, <1>5, <1>6, <1>7

(* Every step keeps the invariant. *)
LEMMA ClientStep ==
  ClientInv /\ [ClientNext]_<<clientState, environment>> => ClientInv'
<1> SUFFICES ASSUME ClientInv, [ClientNext]_<<clientState, environment>> PROVE ClientInv'
  OBVIOUS
<1> USE DEF ClientInv
<1>0. ASSUME NEW h \in Handlers, NEW step \in ClientSteps \ {Free},
             NEW pair \in TokenPair, NEW retry \in BOOLEAN,
             \/ Proceed(h, step, [with |-> pair, retry |-> retry])
             \/ Begin(h, step, [with |-> pair, retry |-> retry])
      PROVE  /\ at' \in [Handlers -> ClientSteps]
             /\ mem' \in [Handlers -> {Nothing} \cup [with : TokenPair, retry : BOOLEAN]]
             /\ \A g \in Handlers : at'[g] # Free => mem'[g] \in [with : TokenPair, retry : BOOLEAN]
             /\ at'[h] = step /\ mem'[h].with = pair
             /\ \A g \in Handlers \ {h} : at'[g] = at[g] /\ mem'[g] = mem[g]
  <2>1. [with |-> pair, retry |-> retry] \in [with : TokenPair, retry : BOOLEAN]
    OBVIOUS
  <2>2. mem'[h] = [with |-> pair, retry |-> retry]
    BY <1>0, <2>1, ClientProceeds
  <2>. QED
    BY <1>0, <2>1, <2>2, ClientProceeds
<1>1. ASSUME NEW h \in Handlers, Call(h) \/ CallEnds(h) \/ Unauthorized(h) \/ ClearLoggedOut(h)
      PROVE  ClientInv'
  <2>1. CASE Call(h)
    <3>1. Begin(h, "called", [with |-> tokens, retry |-> TRUE]) /\ at[h] = Free
          /\ UNCHANGED clientState
      BY <2>1 DEF Call, Begin
    <3>. QED
      BY <3>1, RetireNext DEF clientState, ClientTypes, ClientSteps, Free
  <2>2. CASE CallEnds(h) \/ Unauthorized(h) \/ ClearLoggedOut(h)
    <3>1. /\ Proceed(h, Free, Nothing)
          /\ UNCHANGED <<newest, lost>>
          /\ tokens' = SignedOut \/ (tokens' = tokens /\ at[h] = "called")
      BY <2>2 DEF CallEnds, Unauthorized, ClearLoggedOut, Finish, clientState
    <3>. QED
      BY <3>1, RetireNext DEF ClientSteps, Free
  <2>. QED
    BY <1>1, <2>1, <2>2
<1>2. ASSUME NEW h \in Handlers, Refresh(h) PROVE ClientInv'
  <2>1. /\ at[h] = "called" /\ tokens # SignedOut /\ tokens \in TokenPair
        /\ Proceed(h, "refreshing", [with |-> tokens, retry |-> FALSE])
        /\ UNCHANGED <<tokens, newest, lost>>
    BY <1>2 DEF Refresh, clientState, ClientTypes
  <2>2. /\ at' \in [Handlers -> ClientSteps]
        /\ mem' \in [Handlers -> {Nothing} \cup [with : TokenPair, retry : BOOLEAN]]
        /\ \A g \in Handlers : at'[g] # Free => mem'[g] \in [with : TokenPair, retry : BOOLEAN]
        /\ at'[h] = "refreshing" /\ mem'[h].with = tokens
        /\ \A g \in Handlers \ {h} : at'[g] = at[g] /\ mem'[g] = mem[g]
    BY <1>0, <2>1 DEF ClientSteps, Free
  <2>3. ClientTypes'
    BY <2>1, <2>2 DEF ClientTypes
  <2>4. AllGiven'
    BY <2>1, <2>2 DEF AllGiven, Given, Presenting, Unsaved
  <2>5. UnsavedIsNewest'
    BY <2>1, <2>2 DEF UnsavedIsNewest, Presenting, Unsaved
  <2>6. TokensCurrent'
    BY <2>1, <2>2 DEF TokensCurrent
  <2>. QED
    BY <2>3, <2>4, <2>5, <2>6
<1>3. ASSUME NEW h \in Handlers, RefreshGranted(h) PROVE ClientInv'
  <2> DEFINE s == mem[h].with.session
             n == newest[s]
             pair == [session |-> s, number |-> n + 1]
  <2>1. /\ at[h] = "refreshing" /\ mem[h] \in [with : TokenPair, retry : BOOLEAN]
        /\ s \in DOMAIN newest /\ n # 0 /\ mem[h].with.number = n
        /\ n \in Nat
        /\ newest' = [newest EXCEPT ![s] = @ + 1]
        /\ Proceed(h, "granted", [mem[h] EXCEPT !.with.number = newest'[s]])
        /\ UNCHANGED <<tokens, lost>>
    BY <1>3 DEF RefreshGranted, Accepts, LiveSession, CreatedSessions, ClientTypes, Free
  <2>2. /\ newest' \in Seq(Nat) /\ DOMAIN newest' = DOMAIN newest
        /\ \A r \in DOMAIN newest : newest'[r] = IF r = s THEN n + 1 ELSE newest[r]
    BY <2>1 DEF ClientTypes
  <2>3. pair \in TokenPair /\ mem[h].retry \in BOOLEAN
        /\ [mem[h] EXCEPT !.with.number = newest'[s]] = [with |-> pair, retry |-> mem[h].retry]
    <3>1. newest'[s] = n + 1 /\ mem[h].with \in TokenPair /\ mem[h].retry \in BOOLEAN
      BY <2>1, <2>2
    <3>2. [mem[h].with EXCEPT !.number = n + 1] = pair
      BY <3>1 DEF TokenPair
    <3>3. [mem[h] EXCEPT !.with = pair] = [with |-> pair, retry |-> mem[h].retry]
      BY <2>1
    <3>. QED
      BY <2>1, <3>1, <3>2, <3>3 DEF TokenPair
  <2>4. /\ at' \in [Handlers -> ClientSteps]
        /\ mem' \in [Handlers -> {Nothing} \cup [with : TokenPair, retry : BOOLEAN]]
        /\ \A g \in Handlers : at'[g] # Free => mem'[g] \in [with : TokenPair, retry : BOOLEAN]
        /\ at'[h] = "granted" /\ mem'[h].with = pair
        /\ \A g \in Handlers \ {h} : at'[g] = at[g] /\ mem'[g] = mem[g]
    <3>1. Proceed(h, "granted", [with |-> pair, retry |-> mem[h].retry])
      BY <2>1, <2>3
    <3>. QED
      BY <1>0, <2>3, <3>1 DEF ClientSteps, Free
  <2>5. ClientTypes'
    BY <2>1, <2>2, <2>4 DEF ClientTypes
  <2>6. AllGiven'
    <3>1. ASSUME NEW other \in TokenPair, Given(other) PROVE Given(other)'
      BY <2>1, <2>2, <3>1 DEF Given, TokenPair
    <3>2. Given(mem[h].with)'
      BY <2>1, <2>2, <2>4 DEF Given
    <3>3. \A g \in Handlers \ {h} : Presenting(g)' \/ Unsaved(g)' =>
            mem'[g].with = mem[g].with /\ mem[g].with \in TokenPair /\ Given(mem[g].with)
      BY <2>4 DEF AllGiven, Presenting, Unsaved, ClientTypes, Free
    <3>4. ASSUME NEW g \in Handlers \ {h}, Presenting(g)' \/ Unsaved(g)'
          PROVE  Given(mem[g].with)'
      <4>1. mem'[g].with = mem[g].with /\ mem[g].with \in TokenPair /\ Given(mem[g].with)
        BY <3>3, <3>4
      <4>. QED
        BY <2>1, <2>2, <4>1 DEF Given, TokenPair
    <3>. QED
      BY <2>1, <2>4, <3>1, <3>2, <3>4 DEF AllGiven, ClientTypes
  <2>7. \A g \in Handlers : Unsaved(g) => g # h /\ mem[g].with.session # s
    <3>1. SUFFICES ASSUME NEW g \in Handlers, Unsaved(g), mem[g].with.session = s PROVE FALSE
      BY <2>1 DEF Unsaved
    <3>2. g # h /\ mem[g].with.number = n /\ mem[g].with \in TokenPair
      BY <2>1, <3>1 DEF Unsaved, UnsavedIsNewest, ClientTypes, Free
    <3>3. mem[g].with = mem[h].with
      BY <2>1, <3>1, <3>2 DEF TokenPair
    <3>. QED
      BY <2>1, <3>1, <3>2, <3>3 DEF UnsavedIsNewest, Presenting
  <2>8. UnsavedIsNewest'
    <3>1. ASSUME NEW other \in TokenPair, Given(other) PROVE other # pair
      BY <2>1, <3>1 DEF Given, TokenPair
    <3>2. tokens # pair
      BY <2>1, <2>2, <3>1 DEF AllGiven, SignedOut, ClientTypes
    <3>3. \A g \in Handlers \ {h} : Presenting(g) \/ Unsaved(g) => mem[g].with # pair
      BY <3>1 DEF AllGiven, Presenting, Unsaved, ClientTypes, Free
    <3>4. ASSUME NEW g \in Handlers, Unsaved(g)'
          PROVE  newest'[mem'[g].with.session] \in {0, mem'[g].with.number}
      <4>1. CASE g = h
        BY <2>1, <2>2, <2>4, <4>1
      <4>2. CASE g # h
        <5>1. Unsaved(g) /\ mem'[g] = mem[g]
          BY <2>4, <3>4, <4>2 DEF Unsaved
        <5>. QED
          BY <2>2, <2>7, <5>1 DEF UnsavedIsNewest, AllGiven, Given
      <4>. QED
        BY <4>1, <4>2
    <3>. QED
      BY <2>1, <2>4, <3>2, <3>3, <3>4 DEF UnsavedIsNewest, Presenting, Unsaved
  <2>9. TokensCurrent'
    <3>1. CASE tokens = SignedOut \/ tokens.session \in lost
      BY <2>1, <3>1 DEF TokensCurrent
    <3>2. CASE tokens # SignedOut /\ tokens.session = s
      BY <2>1, <2>4, <3>2 DEF TokensCurrent
    <3>3. CASE tokens # SignedOut /\ tokens.session # s
      BY <2>1, <2>2, <2>4, <3>3 DEF TokensCurrent, AllGiven, Given
    <3>. QED
      BY <3>1, <3>2, <3>3
  <2>. QED
    BY <2>5, <2>6, <2>8, <2>9
<1>4. ASSUME NEW h \in Handlers, RefreshLost(h) PROVE ClientInv'
  <2>1. /\ at[h] \in {"refreshing", "granted"}
        /\ lost' = IF at[h] = "granted" THEN lost \cup {mem[h].with.session} ELSE lost
        /\ Proceed(h, Free, Nothing)
        /\ UNCHANGED <<tokens, newest>>
    BY <1>4 DEF RefreshLost, Finish
  <2>2. /\ at' \in [Handlers -> ClientSteps]
        /\ mem' \in [Handlers -> {Nothing} \cup [with : TokenPair, retry : BOOLEAN]]
        /\ \A g \in Handlers : at'[g] # Free => mem'[g] \in [with : TokenPair, retry : BOOLEAN]
        /\ at'[h] = Free
        /\ \A g \in Handlers \ {h} : at'[g] = at[g] /\ mem'[g] = mem[g]
    BY <2>1, ClientProceeds DEF ClientSteps
  <2>3. ClientTypes'
    BY <2>1, <2>2 DEF ClientTypes, AllGiven, Given, Unsaved
  <2>4. AllGiven'
    BY <2>1, <2>2 DEF AllGiven, Given, Presenting, Unsaved, Free
  <2>5. UnsavedIsNewest'
    BY <2>1, <2>2 DEF UnsavedIsNewest, Presenting, Unsaved, Free
  <2>6. TokensCurrent'
    BY <2>1, <2>2 DEF TokensCurrent
  <2>. QED
    BY <2>3, <2>4, <2>5, <2>6
<1>5. ASSUME NEW h \in Handlers, SaveRefreshed(h) \/ SaveSignedIn(h) PROVE ClientInv'
  <2>1. /\ Unsaved(h) /\ mem[h] \in [with : TokenPair, retry : BOOLEAN]
        /\ tokens' = mem[h].with
        /\ UNCHANGED <<newest, lost>>
    BY <1>5 DEF SaveRefreshed, SaveSignedIn, Unsaved, ClientTypes, Free
  <2>2. /\ at' \in [Handlers -> ClientSteps]
        /\ mem' \in [Handlers -> {Nothing} \cup [with : TokenPair, retry : BOOLEAN]]
        /\ \A g \in Handlers : at'[g] # Free => mem'[g] \in [with : TokenPair, retry : BOOLEAN]
        /\ at'[h] \in {"called", Free}
        /\ \A g \in Handlers \ {h} : at'[g] = at[g] /\ mem'[g] = mem[g]
    <3>1. CASE SaveRefreshed(h)
      <4>1. Proceed(h, "called", [with |-> mem[h].with, retry |-> FALSE])
        BY <2>1, <3>1 DEF SaveRefreshed
      <4>. QED
        BY <1>0, <2>1, <4>1 DEF ClientSteps, Free
    <3>2. CASE SaveSignedIn(h)
      BY <3>2, ClientProceeds DEF SaveSignedIn, Finish, ClientSteps
    <3>. QED
      BY <1>5, <3>1, <3>2
  <2>3. ClientTypes'
    BY <2>1, <2>2 DEF ClientTypes
  <2>4. AllGiven'
    BY <2>1, <2>2 DEF AllGiven, Given, Presenting, Unsaved, Free
  <2>5. UnsavedIsNewest'
    BY <2>1, <2>2 DEF UnsavedIsNewest, Presenting, Unsaved, Free
  <2>6. TokensCurrent'
    BY <2>1, <2>2 DEF TokensCurrent, UnsavedIsNewest
  <2>. QED
    BY <2>3, <2>4, <2>5, <2>6
<1>6. ASSUME NEW h \in Handlers, SignIn(h) PROVE ClientInv'
  <2> DEFINE s == Len(newest) + 1
             pair == [session |-> s, number |-> 1]
  <2>1. /\ newest' = Append(newest, 1)
        /\ Begin(h, "signedIn", [with |-> [session |-> Len(newest'), number |-> 1], retry |-> FALSE])
        /\ UNCHANGED <<tokens, lost>>
    BY <1>6 DEF SignIn
  <2>2. /\ newest' \in Seq(Nat) /\ Len(newest') = s /\ s \in Nat \ {0}
        /\ s \notin DOMAIN newest /\ DOMAIN newest' = DOMAIN newest \cup {s}
        /\ newest'[s] = 1
        /\ \A r \in DOMAIN newest : newest'[r] = newest[r]
    BY <2>1 DEF ClientTypes
  <2>3. /\ at' \in [Handlers -> ClientSteps]
        /\ mem' \in [Handlers -> {Nothing} \cup [with : TokenPair, retry : BOOLEAN]]
        /\ \A g \in Handlers : at'[g] # Free => mem'[g] \in [with : TokenPair, retry : BOOLEAN]
        /\ at[h] = Free /\ at'[h] = "signedIn" /\ mem'[h].with = pair
        /\ \A g \in Handlers \ {h} : at'[g] = at[g] /\ mem'[g] = mem[g]
    <3>1. pair \in TokenPair
      BY <2>2 DEF TokenPair
    <3>2. Begin(h, "signedIn", [with |-> pair, retry |-> FALSE]) /\ at[h] = Free
      BY <2>1, <2>2 DEF Begin
    <3>3. "signedIn" \in ClientSteps \ {Free}
      BY DEF ClientSteps, Free
    <3> HIDE DEF pair
    <3>. QED
      BY <1>0, <3>1, <3>2, <3>3
  <2>4. ClientTypes'
    BY <2>1, <2>2, <2>3 DEF ClientTypes
  <2>5. AllGiven'
    <3>1. Given(mem[h].with)'
      BY <2>2, <2>3 DEF Given
    <3>2. tokens' = SignedOut \/ Given(tokens)'
      BY <2>1, <2>2 DEF AllGiven, Given
    <3>3. \A g \in Handlers \ {h} : Presenting(g)' \/ Unsaved(g)' => Given(mem[g].with)'
      BY <2>2, <2>3 DEF AllGiven, Given, Presenting, Unsaved
    <3>. QED
      BY <3>1, <3>2, <3>3 DEF AllGiven
  <2>6. UnsavedIsNewest'
    <3>1. tokens # pair /\ \A g \in Handlers : Presenting(g) \/ Unsaved(g) => mem[g].with # pair
      BY <2>2 DEF AllGiven, Given, SignedOut
    <3>2. \A g \in Handlers \ {h} : Unsaved(g) => newest'[mem[g].with.session] = newest[mem[g].with.session]
      BY <2>2 DEF AllGiven, Given
    <3>3. \A g \in Handlers : Unsaved(g)' => newest'[mem'[g].with.session] \in {0, mem'[g].with.number}
      BY <2>2, <2>3, <3>2 DEF UnsavedIsNewest, Unsaved
    <3>4. \A g \in Handlers : Unsaved(g)' => tokens' # mem'[g].with
      BY <2>1, <2>3, <3>1 DEF UnsavedIsNewest, Unsaved
    <3>5. \A g, f \in Handlers : g # f /\ Unsaved(g)' /\ (Presenting(f) \/ Unsaved(f))' =>
            mem'[f].with # mem'[g].with
      BY <2>3, <3>1 DEF UnsavedIsNewest, Presenting, Unsaved, Free
    <3>. QED
      BY <3>3, <3>4, <3>5 DEF UnsavedIsNewest
  <2>7. TokensCurrent'
    BY <2>1, <2>2, <2>3 DEF TokensCurrent, AllGiven, Given, Free
  <2>. QED
    BY <2>4, <2>5, <2>6, <2>7
<1>7. ASSUME NEW h \in Handlers, LogOut(h) PROVE ClientInv'
  <2>1. /\ newest' \in Seq(Nat) /\ DOMAIN newest' = DOMAIN newest
        /\ \A r \in DOMAIN newest : newest'[r] \in {0, newest[r]}
    <3>1. CASE newest' = newest
      BY <3>1 DEF ClientTypes
    <3>2. ASSUME NEW s \in DOMAIN newest, newest' = [newest EXCEPT ![s] = 0]
          PROVE  /\ newest' \in Seq(Nat) /\ DOMAIN newest' = DOMAIN newest
                 /\ \A r \in DOMAIN newest : newest'[r] \in {0, newest[r]}
      BY <3>2 DEF ClientTypes
    <3>. QED
      BY <1>7, <3>1, <3>2 DEF LogOut, CreatedSessions
  <2>2. /\ at' \in [Handlers -> ClientSteps]
        /\ mem' \in [Handlers -> {Nothing} \cup [with : TokenPair, retry : BOOLEAN]]
        /\ \A g \in Handlers : at'[g] # Free => mem'[g] \in [with : TokenPair, retry : BOOLEAN]
        /\ at[h] = Free /\ at'[h] = "loggedOut"
        /\ \A g \in Handlers \ {h} : at'[g] = at[g] /\ mem'[g] = mem[g]
    <3>1. Begin(h, "loggedOut", [with |-> tokens, retry |-> FALSE]) /\ at[h] = Free
      BY <1>7 DEF LogOut, Begin
    <3>. QED
      BY <1>0, <3>1 DEF ClientSteps, Free, ClientTypes
  <2>3. UNCHANGED <<tokens, lost>>
    BY <1>7 DEF LogOut
  <2>4. ClientTypes'
    BY <2>1, <2>2, <2>3 DEF ClientTypes
  <2>5. AllGiven'
    BY <2>1, <2>2, <2>3, SMTT(30) DEF AllGiven, Given, Presenting, Unsaved
  <2>6. UnsavedIsNewest'
    <3>1. \A g \in Handlers : (Presenting(g) \/ Unsaved(g))' =>
            g # h /\ (Presenting(g) \/ Unsaved(g)) /\ mem'[g] = mem[g]
      BY <2>2 DEF Presenting, Unsaved
    <3>2. \A g \in Handlers : Unsaved(g) => newest'[mem[g].with.session] \in {0, mem[g].with.number}
      BY <2>1 DEF UnsavedIsNewest, AllGiven, Given
    <3>3. \A g \in Handlers : Unsaved(g)' => Unsaved(g)
      BY <2>2 DEF Unsaved
    <3>. QED
      BY <2>3, <3>1, <3>2, <3>3 DEF UnsavedIsNewest
  <2>7. TokensCurrent'
    BY <2>1, <2>2, <2>3 DEF TokensCurrent, AllGiven, Given, Free
  <2>. QED
    BY <2>4, <2>5, <2>6, <2>7
<1>8. CASE SignInRefused
  <2>1. tokens' = SignedOut /\ UNCHANGED <<newest, lost, at, mem>>
    BY <1>8 DEF SignInRefused, Single
  <2>2. \A g \in Handlers : Unsaved(g) => mem[g].with # SignedOut
    BY DEF AllGiven, Given, SignedOut, ClientTypes
  <2>. QED
    BY <2>1, <2>2 DEF ClientTypes, AllGiven, Given, UnsavedIsNewest, TokensCurrent, Unsaved, Presenting,
       SignedOut, TokenPair
<1>9. CASE UNCHANGED <<clientState, environment>>
  BY <1>9 DEF clientState, environment, requests, ClientTypes, AllGiven, Given, UnsavedIsNewest,
     TokensCurrent, Unsaved, Presenting
<1>. QED
  BY <1>1, <1>2, <1>3, <1>4, <1>5, <1>6, <1>7, <1>8, <1>9 DEF ClientNext

(* Once the calls are over, the client is signed out or its next refresh   *)
(* is accepted, unless an answer was lost: for any number of calls at a    *)
(* time and of logins.                                                     *)
THEOREM QuietIsCurrent == ClientSpec => []QuietClientIsCurrent
<1>1. ClientInv => QuietClientIsCurrent
  BY DEF ClientInv, TokensCurrent, QuietClientIsCurrent, Free
<1>. QED
  BY ClientStarts, ClientStep, <1>1, PTL DEF ClientSpec

\* The calls that may still refresh, or do.  Each is a request of its own, so
\* that a session has no more tokens than requests were made, less these.
Entitled == {h \in Handlers : at[h] = "refreshing" \/ (at[h] = "called" /\ mem[h].retry)}
Bounded(pair) == pair.session <= MaxLogins /\ pair.number <= MaxRequests

ClientBounds ==
  /\ begun \in 0 .. MaxRequests
  /\ IsFiniteSet(Entitled) /\ Cardinality(Entitled) <= begun
  /\ Len(newest) <= MaxLogins
  /\ \A s \in DOMAIN newest : newest[s] + Cardinality(Entitled) <= begun
  /\ Bounded(tokens)
  /\ \A h \in Handlers : at[h] # Free => Bounded(mem[h].with)

LEMMA ClientTypeCorrect == ClientInv /\ ClientBounds => ClientTypeOK
<1> SUFFICES ASSUME ClientInv, ClientBounds PROVE ClientTypeOK
  OBVIOUS
<1>1. \A pair \in TokenPair : Bounded(pair) => pair \in Pairs
  BY LoginsAssumption, RequestsAssumption DEF TokenPair, Bounded, Pairs
<1>2. /\ tokens \in TokenPair /\ lost \subseteq DOMAIN newest
      /\ \A h \in Handlers : at[h] # Free => mem[h].with \in TokenPair
  BY DEF ClientInv, ClientTypes
<1>. QED
  BY <1>1, <1>2 DEF ClientBounds, ClientTypeOK, CreatedSessions

LEMMA ClientBoundsStart == EnvironmentInit /\ ClientInit => ClientBounds
<1> SUFFICES ASSUME EnvironmentInit, ClientInit PROVE ClientBounds
  OBVIOUS
<1>1. begun = 0 /\ newest = <<>> /\ tokens = SignedOut /\ \A h \in Handlers : at[h] = Free
  BY DEF EnvironmentInit, ClientInit
<1>2. Entitled = {}
  BY <1>1 DEF Entitled, Free
<1>. QED
  BY <1>1, <1>2, FS_EmptySet, LoginsAssumption, RequestsAssumption
     DEF ClientBounds, Bounded, SignedOut

(* A step that leaves the numbers alone, or revokes a session.             *)
LEMMA BoundsNext ==
  ASSUME ClientInv, ClientBounds, NEW h \in Handlers,
         \A g \in Handlers \ {h} : at'[g] = at[g] /\ mem'[g] = mem[g],
         (begun' = begun /\ Entitled' \subseteq Entitled) \/ (begun < MaxRequests /\ begun' = begun + 1),
         newest' \in Seq(Nat), Len(newest') = Len(newest),
         \A s \in DOMAIN newest : newest'[s] \in {0, newest[s]},
         Bounded(tokens'), at'[h] # Free => Bounded(mem'[h].with)
  PROVE  ClientBounds'
<1>1. Entitled' \subseteq Entitled \cup {h}
  BY DEF Entitled
<1>2. /\ IsFiniteSet(Entitled') /\ Cardinality(Entitled') \in Nat /\ Cardinality(Entitled) \in Nat
      /\ Cardinality(Entitled') <= Cardinality(Entitled) + 1
      /\ Entitled' \subseteq Entitled => Cardinality(Entitled') <= Cardinality(Entitled)
  BY <1>1, Counting DEF ClientBounds
<1>3. begun \in Nat /\ MaxRequests \in Nat /\ newest \in Seq(Nat) /\ Cardinality(Entitled) <= begun
  BY RequestsAssumption DEF ClientBounds, ClientInv, ClientTypes
<1>4. begun' \in 0 .. MaxRequests /\ Cardinality(Entitled') <= begun'
      /\ Cardinality(Entitled') + begun <= Cardinality(Entitled) + begun'
  <2>1. begun <= MaxRequests
    BY DEF ClientBounds
  <2>2. begun \in Nat /\ MaxRequests \in Nat /\ Cardinality(Entitled) <= begun
    BY <1>3
  <2>3. \/ begun' = begun /\ Cardinality(Entitled') <= Cardinality(Entitled)
        \/ begun < MaxRequests /\ begun' = begun + 1 /\ Cardinality(Entitled') <= Cardinality(Entitled) + 1
    BY <1>2
  <2>4. Cardinality(Entitled') \in Nat /\ Cardinality(Entitled) \in Nat
    BY <1>2
  <2>. QED
    BY <2>1, <2>2, <2>3, <2>4
<1>5. \A s \in DOMAIN newest' : newest'[s] + Cardinality(Entitled') <= begun'
  <2>1. DOMAIN newest' = DOMAIN newest /\ \A s \in DOMAIN newest : newest[s] \in Nat
    BY <1>3
  <2> SUFFICES ASSUME NEW s \in DOMAIN newest PROVE newest'[s] + Cardinality(Entitled') <= begun'
    BY <2>1
  <2>2. newest[s] + Cardinality(Entitled) <= begun /\ newest[s] \in Nat
    BY <2>1 DEF ClientBounds
  <2>3. newest'[s] \in Nat /\ newest'[s] <= newest[s]
    <3>1. newest'[s] \in {0, newest[s]}
      OBVIOUS
    <3>. QED
      BY <2>2, <3>1
  <2>4. newest[s] + Cardinality(Entitled') <= begun'
    <3>1. /\ begun \in Nat /\ begun' \in Nat /\ newest[s] \in Nat
          /\ Cardinality(Entitled) \in Nat /\ Cardinality(Entitled') \in Nat
      BY <1>2, <1>3, <1>4, <2>2
    <3>2. /\ Cardinality(Entitled') + begun <= Cardinality(Entitled) + begun'
          /\ newest[s] + Cardinality(Entitled) <= begun
      BY <1>4, <2>2
    <3>. QED
      BY <3>1, <3>2
  <2>5. newest[s] \in Nat /\ Cardinality(Entitled') \in Nat /\ begun' \in Nat
    BY <1>2, <1>4, <2>2
  <2>. QED
    BY <2>3, <2>4, <2>5
<1>. QED
  BY <1>2, <1>4, <1>5 DEF ClientBounds

(* Every step keeps the numbers and the sessions within their bounds.      *)
LEMMA ClientBoundsStep ==
  ClientInv /\ ClientBounds /\ [ClientNext]_<<clientState, environment>> => ClientBounds'
<1> SUFFICES ASSUME ClientInv, ClientBounds, [ClientNext]_<<clientState, environment>> PROVE ClientBounds'
  OBVIOUS
<1>1. /\ ClientTypes /\ newest \in Seq(Nat) /\ tokens \in TokenPair
      /\ Bounded(tokens) /\ Bounded(SignedOut) /\ Bounded(tokens)
      /\ \A h \in Handlers : at[h] # Free => Bounded(mem[h].with) /\ mem[h] \in [with : TokenPair, retry : BOOLEAN]
      /\ Nothing \in {Nothing} /\ ClientSteps = {Free, "called", "refreshing", "granted", "signedIn", "loggedOut"}
  BY LoginsAssumption, RequestsAssumption
     DEF ClientInv, ClientTypes, ClientBounds, Bounded, SignedOut, ClientSteps
<1>2. ASSUME NEW h \in Handlers, NEW step \in ClientSteps \ {Free}, NEW pair \in TokenPair, NEW retry \in BOOLEAN,
             Begin(h, step, [with |-> pair, retry |-> retry]) \/ Proceed(h, step, [with |-> pair, retry |-> retry])
      PROVE  /\ at'[h] = step /\ mem'[h].with = pair
             /\ \A g \in Handlers \ {h} : at'[g] = at[g] /\ mem'[g] = mem[g]
  <2>1. [with |-> pair, retry |-> retry] \in [with : TokenPair, retry : BOOLEAN]
    OBVIOUS
  <2>2. mem'[h] = [with |-> pair, retry |-> retry]
    BY <1>1, <1>2, <2>1, ClientProceeds
  <2>. QED
    BY <1>1, <1>2, <2>1, <2>2, ClientProceeds
<1>3. ASSUME NEW h \in Handlers, Finish(h)
      PROVE  at'[h] = Free /\ begun' = begun /\ \A g \in Handlers \ {h} : at'[g] = at[g] /\ mem'[g] = mem[g]
  BY <1>1, <1>3, ClientProceeds DEF Finish, Proceed
<1>4. ASSUME NEW h \in Handlers, \A g \in Handlers \ {h} : at'[g] = at[g] /\ mem'[g] = mem[g],
             at'[h] \notin {"called", "refreshing"}
      PROVE  Entitled' \subseteq Entitled /\ h \notin Entitled'
  BY <1>4 DEF Entitled
<1>5. ASSUME NEW h \in Handlers, CallEnds(h) \/ Unauthorized(h) \/ ClearLoggedOut(h) \/ RefreshLost(h) \/ SaveSignedIn(h)
      PROVE  ClientBounds'
  <2>1. /\ Finish(h) /\ newest' = newest
        /\ tokens' \in {tokens, SignedOut} \/ (at[h] = "signedIn" /\ tokens' = mem[h].with)
    BY <1>5 DEF CallEnds, Unauthorized, ClearLoggedOut, RefreshLost, SaveSignedIn, clientState
  <2>2. Bounded(tokens')
    BY <1>1, <2>1 DEF Free
  <2>3. Entitled' \subseteq Entitled
    BY <1>3, <1>4, <2>1 DEF Free
  <2>. QED
    BY <1>1, <1>3, <2>1, <2>2, <2>3, BoundsNext
<1>6. ASSUME NEW h \in Handlers, Call(h) \/ LogOut(h) PROVE ClientBounds'
  <2>1. PICK step \in {"called", "loggedOut"}, retry \in BOOLEAN :
          Begin(h, step, [with |-> tokens, retry |-> retry])
    BY <1>6, Zenon DEF Call, LogOut
  <2>2. begun < MaxRequests /\ begun' = begun + 1 /\ tokens' = tokens
    BY <1>6, <2>1 DEF Call, LogOut, Begin, Request, clientState
  <2>3. newest' \in Seq(Nat) /\ Len(newest') = Len(newest) /\ \A s \in DOMAIN newest : newest'[s] \in {0, newest[s]}
    <3>1. newest' = newest \/ \E s \in DOMAIN newest : newest' = [newest EXCEPT ![s] = 0]
      BY <1>6 DEF Call, LogOut, CreatedSessions, clientState
    <3>. QED
      BY <1>1, <3>1
  <2>4. /\ at'[h] = step /\ mem'[h].with = tokens
        /\ \A g \in Handlers \ {h} : at'[g] = at[g] /\ mem'[g] = mem[g]
    BY <1>1, <1>2, <2>1 DEF Free
  <2>. QED
    BY <1>1, <2>2, <2>3, <2>4, BoundsNext
<1>7. ASSUME NEW h \in Handlers, Refresh(h) PROVE ClientBounds'
  <2>1. /\ at[h] = "called" /\ mem[h].retry /\ UNCHANGED <<tokens, newest>> /\ begun' = begun
        /\ Proceed(h, "refreshing", [with |-> tokens, retry |-> FALSE])
    BY <1>7, Zenon DEF Refresh, clientState, Proceed
  <2>2. /\ at'[h] = "refreshing" /\ mem'[h].with = tokens
        /\ \A g \in Handlers \ {h} : at'[g] = at[g] /\ mem'[g] = mem[g]
    BY <1>1, <1>2, <2>1 DEF Free
  <2>3. Entitled' \subseteq Entitled
    BY <2>1, <2>2 DEF Entitled
  <2>. QED
    BY <1>1, <2>1, <2>2, <2>3, BoundsNext
<1>8. ASSUME NEW h \in Handlers, SaveRefreshed(h) PROVE ClientBounds'
  <2>1. /\ at[h] = "granted" /\ tokens' = mem[h].with /\ newest' = newest /\ begun' = begun
        /\ Proceed(h, "called", [with |-> tokens', retry |-> FALSE])
    BY <1>8 DEF SaveRefreshed, Proceed
  <2>2. mem[h].with \in TokenPair /\ Bounded(mem[h].with)
    BY <1>1, <2>1 DEF Free
  <2>3. mem'[h] = [with |-> tokens', retry |-> FALSE] /\ at'[h] = "called"
        /\ \A g \in Handlers \ {h} : at'[g] = at[g] /\ mem'[g] = mem[g]
    <3>1. /\ at' = [at EXCEPT ![h] = "called"]
          /\ mem' = [mem EXCEPT ![h] = [with |-> tokens', retry |-> FALSE]]
      BY <2>1, Zenon DEF Proceed
    <3>2. DOMAIN at = Handlers /\ DOMAIN mem = Handlers
      BY <1>1 DEF ClientTypes
    <3>. QED
      BY <3>1, <3>2
  <2>4. mem'[h].with = mem[h].with /\ ~mem'[h].retry
    BY <2>1, <2>3
  <2>5. Entitled' \subseteq Entitled
    BY <2>3, <2>4 DEF Entitled
  <2>. QED
    BY <1>1, <2>1, <2>2, <2>3, <2>4, <2>5, BoundsNext
<1>9. ASSUME SignInRefused PROVE ClientBounds'
  <2>1. /\ begun < MaxRequests /\ begun' = begun + 1 /\ UNCHANGED <<at, mem, newest>> /\ tokens' = SignedOut
    BY <1>9 DEF SignInRefused, Single, Request
  <2>2. Entitled' = Entitled /\ Bounded(tokens') /\ Cardinality(Entitled) \in Nat
    BY <1>1, <2>1, FS_CardinalityType DEF Entitled, ClientBounds
  <2>3. begun \in Nat /\ MaxRequests \in Nat /\ \A s \in DOMAIN newest : newest[s] \in Nat
    BY <1>1, RequestsAssumption DEF ClientBounds
  <2>. QED
    BY <1>1, <2>1, <2>2, <2>3 DEF ClientBounds
<1>10. ASSUME NEW h \in Handlers, RefreshGranted(h) PROVE ClientBounds'
  <2> DEFINE s == mem[h].with.session
             pair == [session |-> s, number |-> newest[s] + 1]
  <2>1. /\ at[h] = "refreshing" /\ s \in DOMAIN newest
        /\ newest' = [newest EXCEPT ![s] = @ + 1]
        /\ Proceed(h, "granted", [mem[h] EXCEPT !.with.number = newest'[s]])
        /\ UNCHANGED <<begun, tokens>>
    BY <1>10 DEF RefreshGranted, Accepts, LiveSession, CreatedSessions, Proceed
  <2>2. /\ newest' \in Seq(Nat) /\ Len(newest') = Len(newest) /\ DOMAIN newest' = DOMAIN newest
        /\ \A r \in DOMAIN newest : newest'[r] = (IF r = s THEN newest[r] + 1 ELSE newest[r]) /\ newest[r] \in Nat
    BY <1>1, <2>1
  <2>3. mem[h].with \in TokenPair /\ mem[h] \in [with : TokenPair, retry : BOOLEAN] /\ Bounded(mem[h].with)
    BY <1>1, <2>1 DEF Free
  <2>4. /\ pair \in TokenPair /\ mem[h].retry \in BOOLEAN
        /\ [mem[h] EXCEPT !.with.number = newest'[s]] = [with |-> pair, retry |-> mem[h].retry]
    <3>1. newest'[s] = newest[s] + 1 /\ s \in Nat /\ newest[s] \in Nat
      BY <2>1, <2>2, <2>3 DEF TokenPair
    <3>2. [mem[h].with EXCEPT !.number = newest[s] + 1] = pair
      BY <2>3 DEF TokenPair
    <3>3. [mem[h] EXCEPT !.with = pair] = [with |-> pair, retry |-> mem[h].retry] /\ mem[h].retry \in BOOLEAN
      BY <2>3
    <3>. QED
      BY <3>1, <3>2, <3>3 DEF TokenPair
  <2>5. /\ at'[h] = "granted" /\ mem'[h].with = pair
        /\ \A g \in Handlers \ {h} : at'[g] = at[g] /\ mem'[g] = mem[g]
    <3> HIDE DEF pair
    <3>1. Proceed(h, "granted", [with |-> pair, retry |-> mem[h].retry])
      BY <2>1, <2>4
    <3>. QED
      BY <1>1, <1>2, <2>4, <3>1 DEF Free
  <2>6. h \in Entitled /\ h \notin Entitled' /\ Entitled' \subseteq Entitled \cup {h} /\ IsFiniteSet(Entitled)
    BY <1>4, <2>1, <2>5 DEF Entitled, ClientBounds
  <2>7. /\ IsFiniteSet(Entitled') /\ Cardinality(Entitled') \in Nat /\ Cardinality(Entitled) \in Nat
        /\ Cardinality(Entitled') + 1 <= Cardinality(Entitled)
    BY <2>6, Counting
  <2>8. begun \in Nat /\ begun <= MaxRequests /\ MaxRequests \in Nat /\ begun' = begun
    BY <2>1, RequestsAssumption DEF ClientBounds
  <2>9. \A r \in DOMAIN newest : newest[r] + Cardinality(Entitled) <= begun
    BY DEF ClientBounds
  <2>10. \A r \in DOMAIN newest' : newest'[r] + Cardinality(Entitled') <= begun'
    <3> SUFFICES ASSUME NEW r \in DOMAIN newest PROVE newest'[r] + Cardinality(Entitled') <= begun'
      BY <2>2
    <3>1. newest'[r] \in Nat /\ newest'[r] <= newest[r] + 1 /\ newest[r] \in Nat
      BY <2>2
    <3>2. newest[r] + Cardinality(Entitled) <= begun
      BY <2>9
    <3>. QED
      BY <2>7, <2>8, <3>1, <3>2
  <2>11. Bounded(pair)
    <3>1. newest[s] + Cardinality(Entitled) <= begun /\ newest[s] \in Nat
      BY <2>1, <2>2, <2>9
    <3>2. newest[s] + 1 <= MaxRequests
      BY <2>7, <2>8, <3>1
    <3>. QED
      BY <2>3, <3>2 DEF Bounded
  <2> HIDE DEF pair, s
  <2>12. \A g \in Handlers : at'[g] # Free => Bounded(mem'[g].with)
    BY <1>1, <2>5, <2>11
  <2>13. Cardinality(Entitled) <= begun /\ Len(newest) <= MaxLogins
    BY DEF ClientBounds
  <2>14. Cardinality(Entitled') <= begun' /\ Bounded(tokens') /\ Len(newest') <= MaxLogins
    BY <1>1, <2>1, <2>2, <2>7, <2>8, <2>13
  <2>. QED
    BY <2>7, <2>8, <2>10, <2>12, <2>14 DEF ClientBounds
<1>11. ASSUME NEW h \in Handlers, SignIn(h) PROVE ClientBounds'
  <2> DEFINE pair == [session |-> Len(newest'), number |-> 1]
  <2>1. /\ Len(newest) < MaxLogins /\ newest' = Append(newest, 1) /\ tokens' = tokens
        /\ Begin(h, "signedIn", [with |-> pair, retry |-> FALSE])
        /\ begun < MaxRequests /\ begun' = begun + 1
    BY <1>11 DEF SignIn, Begin, Request
  <2>2. /\ newest' \in Seq(Nat) /\ Len(newest') = Len(newest) + 1 /\ Len(newest) \in Nat
        /\ \A s \in DOMAIN newest' : (s \in DOMAIN newest /\ newest'[s] = newest[s]) \/ newest'[s] = 1
        /\ \A s \in DOMAIN newest : newest[s] \in Nat
    BY <1>1, <2>1
  <2>3. pair \in TokenPair
    BY <2>2 DEF TokenPair
  <2>4. /\ at'[h] = "signedIn" /\ mem'[h].with = pair
        /\ \A g \in Handlers \ {h} : at'[g] = at[g] /\ mem'[g] = mem[g]
    BY <1>1, <1>2, <2>1, <2>3 DEF Free
  <2>5. Entitled' \subseteq Entitled /\ IsFiniteSet(Entitled) /\ Cardinality(Entitled) <= begun
    BY <1>4, <2>4 DEF ClientBounds
  <2>6. /\ IsFiniteSet(Entitled') /\ Cardinality(Entitled') \in Nat /\ Cardinality(Entitled) \in Nat
        /\ Cardinality(Entitled') <= Cardinality(Entitled)
    BY <2>5, Counting
  <2>7. begun \in Nat /\ MaxRequests \in Nat /\ MaxLogins \in Nat
    BY RequestsAssumption, LoginsAssumption DEF ClientBounds
  <2>8. Bounded(pair)
    BY <2>1, <2>2, <2>7 DEF Bounded
  <2> HIDE DEF pair
  <2>9. \A s \in DOMAIN newest' : newest'[s] + Cardinality(Entitled') <= begun'
    <3> SUFFICES ASSUME NEW s \in DOMAIN newest' PROVE newest'[s] + Cardinality(Entitled') <= begun'
      OBVIOUS
    <3>1. CASE newest'[s] = 1
      BY <2>1, <2>5, <2>6, <2>7, <3>1
    <3>2. CASE s \in DOMAIN newest /\ newest'[s] = newest[s]
      <4>1. newest[s] + Cardinality(Entitled) <= begun /\ newest[s] \in Nat
        BY <2>2, <3>2 DEF ClientBounds
      <4>. QED
        BY <2>1, <2>6, <2>7, <3>2, <4>1
    <3>. QED
      BY <2>2, <3>1, <3>2
  <2>10. begun' \in 0 .. MaxRequests /\ Cardinality(Entitled') <= begun' /\ Len(newest') <= MaxLogins
    BY <2>1, <2>2, <2>5, <2>6, <2>7
  <2>11. \A g \in Handlers : at'[g] # Free => Bounded(mem'[g].with)
    BY <1>1, <2>4, <2>8
  <2>12. Bounded(tokens')
    BY <1>1, <2>1
  <2>. QED
    BY <2>6, <2>9, <2>10, <2>11, <2>12 DEF ClientBounds
<1>12. CASE UNCHANGED <<clientState, environment>>
  BY <1>12 DEF ClientBounds, Entitled, clientState, environment, requests
<1>. QED
  BY <1>5, <1>6, <1>7, <1>8, <1>9, <1>10, <1>11, <1>12 DEF ClientNext

(***************************************************************************)
(* RouteSearch.                                                            *)
(***************************************************************************)

\* The latest search in flight, if there is one, is for what is on the screen.
LatestIsCurrent ==
  \A s \in sent :
    /\ s.request \in Nat /\ s.request <= request
    /\ s.request = request => s.text = typed /\ s.origin = origin

SearchInv == request \in Nat /\ LatestIsCurrent

(* A change of what is typed or from where makes every answer a late one.  *)
LEMMA EffectNext ==
  ASSUME SearchInv, NEW changed \in BOOLEAN, NEW text, NEW skipping, NEW cleared,
         Effect(changed, text, skipping, cleared),
         ~changed => typed' = typed /\ origin' = origin
  PROVE  SearchInv' /\ results' \in {cleared, NoResults}
<1>1. CASE changed
  <2>1. request' = request + 1 /\ sent' = sent /\ results' \in {cleared, NoResults}
    BY <1>1, Zenon DEF Effect
  <2>. QED
    BY <2>1 DEF SearchInv, LatestIsCurrent
<1>2. CASE ~changed
  BY <1>2 DEF Effect, SearchInv, LatestIsCurrent
<1>. QED
  BY <1>1, <1>2

(* No search is in flight. *)
LEMMA SearchStarts == SearchInit => SearchInv
<1> SUFFICES ASSUME SearchInit PROVE SearchInv
  OBVIOUS
<1>1. request \in Nat
  BY DEF SearchInit
<1>2. LatestIsCurrent
  BY Zenon DEF SearchInit, LatestIsCurrent
<1>. QED
  BY <1>1, <1>2 DEF SearchInv

(* Every step keeps the invariant, and what it shows is for the screen.    *)
LEMMA SearchStep ==
  ASSUME SearchInv, SearchNext
  PROVE  /\ SearchInv'
         /\ results' \notin {results, NoResults} => results' = [text |-> typed, origin |-> origin]
<1> DEFINE Shown ==
      results' \notin {results, NoResults} => results' = [text |-> typed, origin |-> origin]
<1>1. ASSUME NEW text \in Inputs, Type(text) PROVE SearchInv' /\ Shown
  BY <1>1, EffectNext DEF Type
<1>2. ASSUME NEW address, Select(address) PROVE SearchInv' /\ Shown
  <2>1. /\ Effect(typed # address, address, TRUE, NoResults)
        /\ typed' = address /\ origin' = origin
    BY <1>2 DEF Select
  <2>. QED
    BY <2>1, EffectNext
<1>3. CASE PositionFound
  BY <1>3, EffectNext DEF PositionFound
<1>4. ASSUME NEW address, UseDemoTrip(address) PROVE SearchInv' /\ Shown
  <2>1. /\ Effect(<<typed, origin>> # <<address, "demo">>, address, skip, NoResults)
        /\ typed' = address /\ origin' = "demo"
    BY <1>4 DEF UseDemoTrip
  <2>. QED
    BY <2>1, EffectNext
<1>5. CASE TimerFires
  BY <1>5 DEF TimerFires, choice, SearchInv, LatestIsCurrent
<1>6. ASSUME NEW s \in sent, SearchAnswers(s) \/ SearchFails(s) PROVE SearchInv' /\ Shown
  BY <1>6 DEF SearchAnswers, SearchFails, Latest, choice, SearchInv, LatestIsCurrent
<1>7. CASE UseCurrentLocation \/ PositionRefused \/ PositionNamed \/ SubmitSearch \/ PreviewArrives
  BY <1>7 DEF UseCurrentLocation, PositionRefused, PositionNamed, SubmitSearch, PreviewArrives,
     choice, searching, SearchInv, LatestIsCurrent
<1>. QED
  BY <1>1, <1>2, <1>3, <1>4, <1>5, <1>6, <1>7 DEF SearchNext, SelectDestination

AnswerLatest == results' \notin {results, NoResults} => results' = [text |-> typed, origin |-> origin]

LEMMA SearchKeeps == SearchInv /\ [SearchNext]_searchState => SearchInv' /\ [AnswerLatest]_searchState
<1>1. SearchInv /\ SearchNext => SearchInv' /\ AnswerLatest
  BY SearchStep DEF AnswerLatest
<1>2. SearchInv /\ UNCHANGED searchState => SearchInv'
  BY DEF searchState, searching, choice, SearchInv, LatestIsCurrent
<1>. QED
  BY <1>1, <1>2

(* A search that is not the latest shows nothing, in whatever order the    *)
(* answers come and however often the text and the origin change.          *)
THEOREM ShownIsLatest == SearchInit /\ [][SearchNext]_searchState => AnswersAreLatest
BY SearchStarts, SearchKeeps, PTL DEF AnswersAreLatest, AnswerLatest

\* A search is for a text, and so is what a timer waits to search for.
Searchable == Inputs \ {""}
SearchTexts ==
  /\ typed \in Inputs /\ origin \in Origins
  /\ label \in Origins /\ locating \in {"no", "asking", "naming"}
  /\ request \in 1 .. MaxInput
  /\ \A s \in sent : s.request \in Nat /\ s.request <= request /\ s.text \in Searchable
  /\ results = NoResults \/ results.text \in Searchable
SearchFlags ==
  /\ skip \in BOOLEAN /\ pending \in BOOLEAN
  /\ pending => typed # ""
SearchTyped == SearchTexts /\ SearchFlags

(* A text is not the one that stands for none. *)
LEMMA SearchTypes == SearchTyped => SearchTypeOK
<1>1. SearchTexts => results = NoResults \/ results.text # ""
  BY Zenon DEF SearchTexts, Searchable
<1>. QED
  BY <1>1, Zenon DEF SearchTyped, SearchTexts, SearchFlags, SearchTypeOK

(* The effect keeps what the screen holds well formed. *)
LEMMA EffectTypes ==
  ASSUME SearchTyped, NEW changed \in BOOLEAN, NEW text \in Inputs, NEW skipping \in BOOLEAN,
         NEW cleared \in {results, NoResults}, request < MaxInput,
         Effect(changed, text, skipping, cleared),
         typed' = text, ~changed => typed' = typed,
         origin' \in Origins, label' \in Origins, locating' \in {"no", "asking", "naming"}
  PROVE  SearchTyped'
<1>1. SearchTexts /\ SearchFlags /\ MaxInput \in Nat
  BY MaxInputAssumption DEF SearchTyped
<1>2. CASE changed
  <2>1. request' = request + 1 /\ sent' = sent /\ results' \in {results, NoResults}
    BY <1>2, Zenon DEF Effect
  <2>2. skip' = FALSE /\ pending' = (~skipping /\ text # "")
    BY <1>2, Zenon DEF Effect
  <2>3. SearchFlags'
    BY <2>2, Zenon DEF SearchFlags
  <2>4. SearchTexts'
    BY <1>1, <2>1 DEF SearchTexts
  <2>. QED
    BY <2>3, <2>4 DEF SearchTyped
<1>3. CASE ~changed
  <2>1. UNCHANGED <<request, sent, typed>> /\ results' \in {results, NoResults}
    BY <1>3, Zenon DEF Effect
  <2>2. skip' = skipping /\ pending' = pending
    BY <1>3, Zenon DEF Effect
  <2>3. SearchFlags'
    BY <1>1, <2>1, <2>2, Zenon DEF SearchFlags
  <2>4. SearchTexts'
    BY <1>1, <2>1 DEF SearchTexts
  <2>. QED
    BY <2>3, <2>4 DEF SearchTyped
<1>. QED
  BY <1>2, <1>3

(* Nothing is typed, and no search is due. *)
LEMMA SearchTypesStart == SearchInit => SearchTyped
<1> SUFFICES ASSUME SearchInit PROVE SearchTyped
  OBVIOUS
<1>1. /\ typed = "" /\ origin = "unset" /\ label = "unset" /\ locating = "no"
      /\ request = 1 /\ sent = {} /\ results = NoResults
  BY Zenon DEF SearchInit
<1>2. SearchFlags
  BY Zenon DEF SearchInit, SearchFlags
<1>3. typed \in Inputs
  BY <1>1, InputsAssumption, Zenon
<1>4. SearchTexts
  <2>1. typed \in Inputs /\ origin = "unset" /\ label = "unset" /\ locating = "no"
        /\ request = 1 /\ sent = {} /\ results = NoResults
    BY <1>1, <1>3, Zenon
  <2>. QED
    BY <2>1, MaxInputAssumption DEF SearchTexts, Origins
<1>. QED
  BY <1>2, <1>4 DEF SearchTyped

(* What the screen holds stays well formed. *)
LEMMA SearchTypesStep == SearchTyped /\ [SearchNext]_searchState => SearchTyped'
<1> SUFFICES ASSUME SearchTyped, [SearchNext]_searchState PROVE SearchTyped'
  OBVIOUS
<1>0. SearchTexts /\ SearchFlags
  BY DEF SearchTyped
<1>1. /\ typed \in Inputs /\ origin \in Origins /\ label \in Origins
      /\ locating \in {"no", "asking", "naming"} /\ skip \in BOOLEAN
  BY <1>0, Zenon DEF SearchTexts, SearchFlags
<1>2. ASSUME NEW text \in Inputs, Type(text) PROVE SearchTyped'
  <2>1. /\ request < MaxInput /\ Effect(TRUE, text, skip, results)
        /\ typed' = text /\ UNCHANGED <<origin, label, locating>>
    BY <1>2 DEF Type, Edit, finding
  <2>. QED
    BY <1>1, <2>1, EffectTypes
<1>3. ASSUME NEW address \in Inputs, Select(address) PROVE SearchTyped'
  <2>1. /\ request < MaxInput /\ Effect(typed # address, address, TRUE, NoResults)
        /\ typed' = address /\ UNCHANGED <<origin, label, locating>>
    BY <1>3 DEF Select, Edit, finding
  <2>2. (typed # address) \in BOOLEAN /\ (~(typed # address) => typed' = typed)
    BY <2>1
  <2>. QED
    BY <1>1, <2>1, <2>2, EffectTypes
<1>4. CASE SelectDestination
  <2>1. results # NoResults => Address[results.text] \in Inputs
    BY <1>0, InputsAssumption, Zenon DEF SearchTexts, Searchable
  <2>2. \E address \in Inputs : Select(address)
    BY <1>4, <2>1, Zenon DEF SelectDestination
  <2>. QED
    BY <1>3, <2>2
<1>5. CASE PositionFound
  <2>1. /\ request < MaxInput /\ Effect(TRUE, typed, skip, results)
        /\ UNCHANGED <<typed, label>> /\ origin' = "found" /\ locating' = "naming"
    BY <1>5 DEF PositionFound, Edit
  <2>2. origin' \in Origins
    BY <2>1 DEF Origins
  <2>. QED
    BY <1>1, <2>1, <2>2, EffectTypes
<1>6. ASSUME NEW address \in Inputs, UseDemoTrip(address) PROVE SearchTyped'
  <2> DEFINE changed == <<typed, origin>> # <<address, "demo">>
  <2>1. /\ request < MaxInput /\ Effect(changed, address, skip, NoResults)
        /\ typed' = address /\ origin' = "demo" /\ label' = "demo" /\ locating' = locating
    BY <1>6 DEF UseDemoTrip, Edit
  <2>2. changed \in BOOLEAN /\ (~changed => typed' = typed)
    BY <2>1
  <2>3. origin' \in Origins /\ label' \in Origins
    BY <2>1 DEF Origins
  <2> HIDE DEF changed
  <2>. QED
    BY <1>1, <2>1, <2>2, <2>3, EffectTypes
<1>7. CASE UseCurrentLocation \/ PositionRefused \/ PositionNamed \/ SubmitSearch \/ PreviewArrives
  <2>1. /\ UNCHANGED <<typed, origin, skip, request, pending, sent, results>>
        /\ label' \in {label, "found"} /\ locating' \in {locating, "no", "asking"}
    BY <1>7, Zenon DEF UseCurrentLocation, PositionRefused, PositionNamed, SubmitSearch, PreviewArrives,
       choice, finding, searching
  <2>2. SearchFlags'
    BY <1>0, <2>1, Zenon DEF SearchFlags
  <2>3. SearchTexts'
    <3>1. UNCHANGED <<typed, origin, request, sent, results>>
      BY <2>1
    <3>2. label' \in {label, "found"} /\ locating' \in {locating, "no", "asking"}
      BY <2>1
    <3>. QED
      BY <1>0, <3>1, <3>2 DEF SearchTexts, Origins
  <2>. QED
    BY <2>2, <2>3 DEF SearchTyped
<1>8. CASE TimerFires
  <2>1. UNCHANGED <<typed, origin, label, locating, request, results>> /\ typed \in Searchable
    BY <1>0, <1>8, Zenon DEF TimerFires, choice, finding, SearchFlags, SearchTexts, Searchable
  <2>2. SearchFlags'
    BY <1>0, <1>8, Zenon DEF TimerFires, SearchFlags
  <2>3. sent' = sent \cup {[request |-> request, text |-> typed, origin |-> origin]}
    BY <1>8, Zenon DEF TimerFires
  <2>4. SearchTexts'
    BY <1>0, <2>1, <2>3, MaxInputAssumption DEF SearchTexts
  <2>. QED
    BY <2>2, <2>4 DEF SearchTyped
<1>9. ASSUME NEW s \in sent, SearchAnswers(s) \/ SearchFails(s) PROVE SearchTyped'
  <2>1. /\ UNCHANGED <<typed, origin, label, locating, request>>
        /\ sent' \subseteq sent
        /\ results' = results \/ results' = [text |-> s.text, origin |-> s.origin]
    BY <1>9, Zenon DEF SearchAnswers, SearchFails, choice, finding
  <2>2. UNCHANGED <<typed, skip, pending>>
    BY <1>9, Zenon DEF SearchAnswers, SearchFails, choice
  <2>3. SearchFlags'
    BY <1>0, <2>2, Zenon DEF SearchFlags
  <2>4. SearchTexts'
    BY <1>0, <2>1 DEF SearchTexts
  <2>. QED
    BY <2>3, <2>4 DEF SearchTyped
<1>10. CASE UNCHANGED searchState
  BY <1>10, Zenon DEF SearchTyped, SearchTexts, SearchFlags, searchState, choice, finding, searching
<1>. QED
  BY <1>2, <1>4, <1>5, <1>6, <1>7, <1>8, <1>9, <1>10, Zenon DEF SearchNext

(***************************************************************************)
(* LiveNavigation.                                                         *)
(***************************************************************************)

LiveTypes ==
  /\ now \in Nat /\ effect \in Nat /\ updates \in Nat /\ session \in Nat \cup {NULL}
  /\ timers \in [poll : Nat, monitor : Nat]
  /\ \A p \in polls : p \in [began : Nat, read : Nat \cup {NULL}, renewed : BOOLEAN]
  /\ \A m \in monitors : m.run \in Nat /\ m.run <= effect

\* An active run of the effect asks around the geometry it was run for.
MonitorsCurrent ==
  \A m \in monitors : m.run = effect => m.around = watched

\* Until a poll refreshes its tokens there is at most one, it ends before the
\* next begins, and what it has read is no older than what the screen has.
PollsInOrder ==
  /\ session # NULL => session <= updates
  /\ screen = "active" => now <= timers.poll
  /\ screen # "active" => polls = {} /\ monitors = {}
  /\ \A p \in polls : p.read <= updates
  /\ ~refreshed =>
       /\ \A p, q \in polls : p = q
       /\ \A p \in polls :
            /\ ~p.renewed
            /\ p.read = NULL \/ session <= p.read
            /\ now <= p.began + CallTimeout
            /\ timers.poll = p.began + PollInterval

LiveInv == LiveTypes /\ MonitorsCurrent /\ PollsInOrder

LiveShown ==
  /\ session # NULL /\ session' # NULL /\ session' < session => refreshed
  /\ monitored' \notin {monitored, NULL} => monitored' = watched

(* The screen is not open. *)
LEMMA LiveStarts == EnvironmentInit /\ LiveInit => LiveInv
BY DEF EnvironmentInit, LiveInit, LiveInv, LiveTypes, MonitorsCurrent, PollsInOrder, NULL

(* Every step keeps the invariant, and shows the route and its incidents.  *)
LEMMA LiveStep ==
  ASSUME LiveInv, LiveNext
  PROVE  LiveInv' /\ LiveShown
<1> USE TimersAssumption DEF LiveInv
<1>1. ASSUME NEW recommended \in BOOLEAN, StartNavigation(recommended) PROVE LiveInv' /\ LiveShown
  <2>1. /\ polls' = {} /\ monitors' = {} /\ session' = NULL /\ monitored' = NULL
        /\ updates' \in {0, updates} /\ effect' = effect + 1 /\ now' = now
        /\ timers' = [poll |-> now, monitor |-> now]
    BY <1>1 DEF StartNavigation, Single, calls, PollsInOrder
  <2>. QED
    BY <2>1 DEF LiveTypes, MonitorsCurrent, PollsInOrder, LiveShown
<1>2. CASE SendUpdate
  BY <1>2 DEF SendUpdate, calls, environment, LiveTypes, MonitorsCurrent, PollsInOrder,
     LiveShown, NULL
<1>3. CASE Poll
  <2>1. /\ screen = "active" /\ timers.poll = now
        /\ polls' = polls \cup {[began |-> now, read |-> NULL, renewed |-> FALSE]}
        /\ timers' = [timers EXCEPT !.poll = now + PollInterval]
        /\ UNCHANGED <<screen, updates, session, refreshed, monitors, effect, watched,
                       monitored, now>>
    BY <1>3 DEF Poll, environment
  <2>2. ~refreshed => polls = {}
    BY <2>1 DEF LiveTypes, PollsInOrder
  <2>3. LiveTypes' /\ timers'.poll = now + PollInterval
    <3>1. [began |-> now, read |-> NULL, renewed |-> FALSE]
            \in [began : Nat, read : Nat \cup {NULL}, renewed : BOOLEAN]
      BY DEF LiveTypes
    <3>2. timers' \in [poll : Nat, monitor : Nat] /\ timers'.poll = now + PollInterval
      BY <2>1 DEF LiveTypes
    <3>. QED
      BY <2>1, <3>1, <3>2 DEF LiveTypes
  <2>4. MonitorsCurrent' /\ LiveShown
    BY <2>1 DEF MonitorsCurrent, LiveShown, LiveTypes
  <2>5. PollsInOrder'
    <3>1. \A p \in polls' : p.read <= updates
      BY <2>1 DEF PollsInOrder, LiveTypes, NULL
    <3>2. ~refreshed => polls' = {[began |-> now, read |-> NULL, renewed |-> FALSE]}
      BY <2>1, <2>2
    <3>. QED
      BY <2>1, <2>3, <3>1, <3>2 DEF PollsInOrder, LiveTypes
  <2>. QED
    BY <2>3, <2>4, <2>5
<1>4. ASSUME NEW p \in polls, PollProceeds(p) PROVE LiveInv' /\ LiveShown
  <2>1. /\ p.read = NULL
        /\ UNCHANGED <<screen, updates, session, monitors, effect, watched, monitored, timers,
                       now>>
    BY <1>4 DEF PollProceeds, environment
  <2>2. MonitorsCurrent' /\ LiveShown
    BY <2>1 DEF MonitorsCurrent, LiveShown, LiveTypes
  <2>3. CASE polls' = (polls \ {p}) \cup {[p EXCEPT !.read = updates]} /\ refreshed' = refreshed
    BY <2>1, <2>2, <2>3 DEF LiveTypes, PollsInOrder, NULL
  <2>4. CASE polls' = (polls \ {p}) \cup {[p EXCEPT !.renewed = TRUE]} /\ refreshed' = TRUE
    BY <2>1, <2>2, <2>4 DEF LiveTypes, PollsInOrder, NULL
  <2>. QED
    BY <1>4, <2>3, <2>4 DEF PollProceeds
<1>5. ASSUME NEW p \in polls, PollArrives(p) PROVE LiveInv' /\ LiveShown
  <2>1. /\ p.read \in Nat /\ p.read <= updates
        /\ polls' = polls \ {p} /\ session' = p.read
        /\ UNCHANGED <<screen, updates, refreshed, monitors, effect, watched, monitored, timers,
                       now>>
        /\ ~refreshed => polls' = {} /\ session <= p.read
    BY <1>5 DEF PollArrives, environment, LiveTypes, PollsInOrder
  <2>2. LiveTypes' /\ MonitorsCurrent'
    BY <2>1 DEF LiveTypes, MonitorsCurrent
  <2>3. LiveShown
    BY <2>1 DEF LiveShown, LiveTypes, PollsInOrder, NULL
  <2>4. PollsInOrder'
    BY <2>1 DEF PollsInOrder, LiveTypes
  <2>. QED
    BY <2>2, <2>3, <2>4
<1>6. ASSUME NEW p \in polls, PollFails(p) PROVE LiveInv' /\ LiveShown
  BY <1>6 DEF PollFails, environment, LiveTypes, MonitorsCurrent, PollsInOrder, LiveShown
<1>7. CASE Monitor
  <2>1. /\ screen = "active"
        /\ monitors' = monitors \cup {[began |-> now, around |-> watched, run |-> effect]}
        /\ timers' = [timers EXCEPT !.monitor = now + MonitorInterval]
        /\ UNCHANGED <<screen, updates, session, refreshed, polls, effect, watched, monitored, now>>
    BY <1>7 DEF Monitor, environment
  <2>2. LiveTypes' /\ timers'.poll = timers.poll
    BY <2>1 DEF LiveTypes
  <2>3. MonitorsCurrent' /\ LiveShown
    BY <2>1 DEF MonitorsCurrent, LiveShown, LiveTypes
  <2>. QED
    BY <2>1, <2>2, <2>3 DEF PollsInOrder
<1>8. ASSUME NEW m \in monitors, MonitorEnds(m) PROVE LiveInv' /\ LiveShown
  BY <1>8 DEF MonitorEnds, Active, environment, LiveTypes, MonitorsCurrent, PollsInOrder,
     LiveShown
<1>9. CASE LeaveScreen
  BY <1>9 DEF LeaveScreen, environment, LiveTypes, MonitorsCurrent, PollsInOrder, LiveShown
<1>10. CASE LiveTick
  <2>1. /\ now' = now + 1 /\ UNCHANGED liveState
        /\ screen = "active" => timers.poll > now
        /\ \A p \in polls : p.renewed \/ now - p.began < CallTimeout
    BY <1>10 DEF LiveTick, PassTime
  <2>2. LiveTypes' /\ MonitorsCurrent' /\ LiveShown
    BY <2>1 DEF liveState, calls, LiveTypes, MonitorsCurrent, LiveShown
  <2>3. PollsInOrder'
    BY <2>1 DEF liveState, calls, LiveTypes, PollsInOrder
  <2>. QED
    BY <2>2, <2>3
<1>11. CASE MonitoringEffect
  <2>1. /\ effect' = effect + 1 /\ timers' = [timers EXCEPT !.monitor = now]
        /\ UNCHANGED <<screen, updates, session, refreshed, polls, monitors, monitored, now>>
    BY <1>11 DEF MonitoringEffect, calls, environment
  <2>2. timers' \in [poll : Nat, monitor : Nat] /\ timers'.poll = timers.poll
    BY <2>1 DEF LiveTypes
  <2>3. LiveTypes' /\ MonitorsCurrent' /\ LiveShown
    BY <2>1, <2>2 DEF LiveTypes, MonitorsCurrent, LiveShown
  <2>4. PollsInOrder'
    BY <2>1, <2>2 DEF PollsInOrder, LiveTypes
  <2>. QED
    BY <2>3, <2>4
<1>. QED
  BY <1>1, <1>2, <1>3, <1>4, <1>5, <1>6, <1>7, <1>8, <1>9, <1>10, <1>11 DEF LiveNext

(* Every step, and every stuttering one, keeps the invariant. *)
LEMMA LiveKeeps ==
  LiveInv /\ [LiveNext]_<<liveState, environment>> => LiveInv' /\ [LiveShown]_liveState
<1>1. LiveInv /\ LiveNext => LiveInv' /\ LiveShown
  BY LiveStep
<1>2. LiveInv /\ UNCHANGED <<liveState, environment>> => LiveInv' /\ UNCHANGED liveState
  BY DEF LiveInv, liveState, calls, environment, LiveTypes, MonitorsCurrent, PollsInOrder
<1>. QED
  BY <1>1, <1>2

(* For any intervals and timeouts in the order of the code's, the screen   *)
(* does not go back to a route its session has left before a poll has had  *)
(* to refresh its tokens, and the incidents that come are those around the *)
(* route that its effect was run for last.                                 *)
THEOREM LiveRouteIsCurrent ==
  EnvironmentInit /\ LiveInit /\ [][LiveNext]_<<liveState, environment>> => LiveRouteCurrent
BY LiveStarts, LiveKeeps, PTL DEF LiveRouteCurrent, LiveShown

LiveRanges ==
  /\ screen \in {"results", "active"}
  /\ updates \in 0 .. MaxUpdates
LiveFlags == {broken, suggested, refreshed} \subseteq BOOLEAN
LiveTyped == LiveRanges /\ LiveFlags

(* The screen is not open. *)
LEMMA LiveTypesStart == LiveInit => LiveTyped
<1>1. LiveInit => LiveFlags
  BY Zenon DEF LiveInit, LiveFlags
<1>2. LiveInit => screen = "results" /\ updates = 0
  BY Zenon DEF LiveInit
<1>3. LiveInit => LiveRanges
  BY <1>2, TimersAssumption DEF LiveRanges
<1>. QED
  BY <1>1, <1>3 DEF LiveTyped

LEMMA LiveTypeCorrect == LiveInv /\ LiveTyped => LiveTypeOK
<1> SUFFICES ASSUME LiveInv, LiveTyped PROVE LiveTypeOK
  OBVIOUS
<1>1. \A m \in monitors : m.run <= effect
  BY DEF LiveInv, LiveTypes
<1>2. session # NULL => session <= updates
  BY Zenon DEF LiveInv, PollsInOrder
<1>. QED
  BY <1>1, <1>2, Zenon DEF LiveTyped, LiveRanges, LiveFlags, LiveTypeOK

(* The screen is open or not, and no more updates are sent than the bound. *)
LEMMA LiveTypesStep == LiveTyped /\ [LiveNext]_<<liveState, environment>> => LiveTyped'
<1> SUFFICES ASSUME LiveTyped, [LiveNext]_<<liveState, environment>> PROVE LiveTyped'
  OBVIOUS
<1>1. LiveRanges /\ LiveFlags
  BY DEF LiveTyped
<1>2. LiveFlags'
  BY <1>1, Zenon DEF LiveNext, StartNavigation, SendUpdate, Poll, MonitoringEffect, Monitor, LeaveScreen, LiveTick,
     PollProceeds, PollArrives, PollFails, MonitorEnds, LiveFlags, liveState
<1>3. /\ screen' \in {screen, "active", "results"}
      /\ updates' \in {0, updates} \/ (updates < MaxUpdates /\ updates' = updates + 1)
  BY Zenon DEF LiveNext, StartNavigation, SendUpdate, Poll, MonitoringEffect, Monitor, LeaveScreen, LiveTick,
     PollProceeds, PollArrives, PollFails, MonitorEnds, liveState
<1>4. LiveRanges'
  BY <1>1, <1>3, TimersAssumption DEF LiveRanges
<1>. QED
  BY <1>2, <1>4 DEF LiveTyped

(***************************************************************************)
(* HomeMap.                                                                *)
(***************************************************************************)

\* Feeds are numbered in the order they are asked for, and the map still shows
\* what it asked for last.
FeedsNumbered ==
  /\ last \in Nat /\ viewed \in 0 .. last
  /\ \A f \in feeds : f.n \in 1 .. last /\ (f.n = viewed => f.area = camera)

\* So do the incidents kept, if that feed brought them.
KeptNumbered ==
  /\ kept \in 0 .. last
  /\ kept # 0 /\ kept = viewed => held = camera

\* The load draws nothing, but it asks; nothing else is drawn than what is kept.
LoadedDraws ==
  /\ ~loaded => target = NULL /\ viewed = 0 /\ drawn = NULL
  /\ loaded => viewed # 0 /\ (kept = viewed => drawn = held)
  /\ drawn \in {NULL, held}

HomeInv == FeedsNumbered /\ KeptNumbered /\ LoadedDraws

(* What is asked for is numbered on, the last area last.                   *)
LEMMA LoadNumbers ==
  ASSUME FeedsNumbered, NEW areas, Len(areas) \in Nat, DOMAIN areas = 1 .. Len(areas),
         LoadFeed(areas)
  PROVE  /\ last' = last + Len(areas)
         /\ \A f \in feeds' : /\ f.n \in 1 .. last'
                              /\ f \in feeds \/ (f.n > last /\ (f.n = last' => f.area = areas[Len(areas)]))
<1>1. last \in Nat /\ last' = last + Len(areas) /\ \A f \in feeds : f.n \in 1 .. last
  BY DEF FeedsNumbered, LoadFeed
<1>2. ASSUME NEW f \in feeds', f \notin feeds
      PROVE  \E k \in 1 .. Len(areas) : f.n = last + k /\ f.area = areas[k]
  BY <1>2 DEF LoadFeed
<1>. QED
  BY <1>1, <1>2

(* The map asks, for what it then shows.                                   *)
LEMMA ViewAsks ==
  ASSUME FeedsNumbered, NEW areas, Len(areas) \in Nat \ {0}, DOMAIN areas = 1 .. Len(areas),
         LoadView(areas), areas[Len(areas)] = camera'
  PROVE  FeedsNumbered' /\ viewed' > last /\ last' >= last
<1>1. last \in Nat /\ viewed \in 0 .. last /\ \A f \in feeds : f.n \in 1 .. last
  BY DEF FeedsNumbered
<1>2. LoadFeed(areas) /\ viewed' = last'
  BY DEF LoadView
<1>3. /\ last' = last + Len(areas)
      /\ \A f \in feeds' : /\ f.n \in 1 .. last'
                           /\ f \in feeds \/ (f.n > last /\ (f.n = last' => f.area = areas[Len(areas)]))
  BY <1>2, LoadNumbers
<1>. QED
  BY <1>1, <1>2, <1>3 DEF FeedsNumbered

(* Something else asks, if anything does.                                  *)
LEMMA OtherAsks ==
  ASSUME FeedsNumbered, NEW areas, Len(areas) \in Nat, DOMAIN areas = 1 .. Len(areas),
         LoadOther(areas), camera' = camera
  PROVE  FeedsNumbered' /\ viewed' = viewed /\ last' >= last
<1>1. last \in Nat /\ viewed \in 0 .. last
      /\ \A f \in feeds : f.n \in 1 .. last /\ (f.n = viewed => f.area = camera)
  BY DEF FeedsNumbered
<1>2. LoadFeed(areas) /\ viewed' = viewed
  BY DEF LoadOther
<1>3. /\ last' = last + Len(areas)
      /\ \A f \in feeds' : f.n \in 1 .. last' /\ (f \in feeds \/ f.n > last)
  BY <1>2, LoadNumbers
<1>. QED
  BY <1>1, <1>2, <1>3 DEF FeedsNumbered

(* A move that is asked for, alone or after the one it ends.               *)
LEMMA EaseNext ==
  ASSUME FeedsNumbered, NEW area, NEW areas \in {<<area>>, <<>>}, EaseTo(area, areas),
         camera' = camera
  PROVE  /\ target' = area /\ FeedsNumbered'
         /\ last' >= last /\ (viewed' = viewed \/ viewed' > last)
<1>1. target' = area
  BY DEF EaseTo
<1>2. CASE target = NULL
  <2>1. LoadOther(areas) /\ Len(areas) \in Nat /\ DOMAIN areas = 1 .. Len(areas)
    BY <1>2 DEF EaseTo
  <2>. QED
    BY <1>1, <2>1, OtherAsks
<1>3. CASE target # NULL
  <2> DEFINE both == Append(areas, camera)
  <2>1. /\ LoadView(both) /\ Len(both) \in Nat \ {0} /\ DOMAIN both = 1 .. Len(both)
        /\ both[Len(both)] = camera
    BY <1>3 DEF EaseTo
  <2> HIDE DEF both
  <2>. QED
    BY <1>1, <2>1, ViewAsks
<1>. QED
  BY <1>2, <1>3

(* The map has not loaded, and the default area is all that is asked for.  *)
LEMMA HomeStarts == HomeInit => HomeInv
BY DEF HomeInit, HomeInv, FeedsNumbered, KeptNumbered, LoadedDraws

(* A step that asks for feeds, if any, and leaves what is drawn alone.     *)
LEMMA AskedNext ==
  ASSUME HomeInv, FeedsNumbered', UNCHANGED <<held, kept, drawn>>, last' >= last,
         ~loaded' => target' = NULL,
         \/ viewed' > last /\ loaded'
         \/ UNCHANGED <<loaded, viewed>> /\ (camera' = camera \/ ~loaded)
  PROVE  HomeInv'
BY DEF HomeInv, FeedsNumbered, KeptNumbered, LoadedDraws

(* Every step keeps the invariant. *)
LEMMA HomeStep == HomeInv /\ [HomeNext]_homeState => HomeInv'
<1> SUFFICES ASSUME HomeInv, [HomeNext]_homeState PROVE HomeInv'
  OBVIOUS
<1>0. FeedsNumbered /\ last \in Nat /\ (~loaded => target = NULL /\ viewed = 0)
  BY DEF HomeInv, FeedsNumbered, LoadedDraws
<1>1. CASE MapLoads
  <2>1. LoadView(<<camera>>) /\ loaded' = TRUE
        /\ UNCHANGED <<camera, target, held, kept, drawn>>
    BY <1>1 DEF MapLoads, shownFeed
  <2>2. FeedsNumbered' /\ viewed' > last /\ last' >= last
    BY <1>0, <2>1, ViewAsks
  <2>. QED
    BY <2>1, <2>2, AskedNext
<1>2. ASSUME NEW area \in Areas, Drag(area) PROVE HomeInv'
  <2>1. /\ camera' = area /\ target' = NULL
        /\ UNCHANGED <<loaded, held, kept, drawn>>
    BY <1>2 DEF Drag, shownFeed
  <2>2. CASE ~loaded
    <3>1. UNCHANGED <<feeds, last, viewed>>
      BY <1>2, <2>2 DEF Drag
    <3>2. FeedsNumbered'
      BY <1>0, <2>2, <3>1 DEF FeedsNumbered
    <3>. QED
      BY <1>0, <2>1, <2>2, <3>1, <3>2, AskedNext
  <2>3. CASE loaded
    <3> DEFINE areas == IF target = NULL THEN <<area>> ELSE <<camera, area>>
    <3>1. LoadView(areas)
      BY <1>2, <2>3, Zenon DEF Drag
    <3>2. areas \in {<<area>>, <<camera, area>>}
      BY Zenon
    <3> HIDE DEF areas
    <3>3. /\ Len(areas) \in Nat \ {0} /\ DOMAIN areas = 1 .. Len(areas)
          /\ areas[Len(areas)] = area
      BY <3>2
    <3>4. FeedsNumbered' /\ viewed' > last /\ last' >= last
      BY <1>0, <2>1, <3>1, <3>3, ViewAsks
    <3>. QED
      BY <2>1, <2>3, <3>4, AskedNext
  <2>. QED
    BY <2>2, <2>3
<1>3. CASE MoveEnds
  <2>1. /\ LoadView(<<target>>) /\ camera' = target /\ target' = NULL /\ target # NULL
        /\ UNCHANGED <<loaded, held, kept, drawn>>
    BY <1>3 DEF MoveEnds, shownFeed
  <2>2. FeedsNumbered' /\ viewed' > last /\ last' >= last
    BY <1>0, <2>1, ViewAsks
  <2>. QED
    BY <1>0, <2>1, <2>2, AskedNext
<1>4. ASSUME NEW area \in Areas, CenterFound(area) PROVE HomeInv'
  <2>1. UNCHANGED <<loaded, camera, held, kept, drawn>>
    BY <1>4 DEF CenterFound, shownFeed
  <2>2. CASE loaded /\ area # Center
    <3>1. EaseTo(area, <<area>>)
      BY <1>4, <2>2 DEF CenterFound
    <3>. QED
      BY <1>0, <2>1, <2>2, <3>1, EaseNext, AskedNext
  <2>3. CASE ~(loaded /\ area # Center)
    <3>1. LoadOther(<<area>>) /\ UNCHANGED target
      BY <1>4, <2>3 DEF CenterFound
    <3>2. FeedsNumbered' /\ viewed' = viewed /\ last' >= last
      BY <1>0, <2>1, <3>1, OtherAsks
    <3>. QED
      BY <1>0, <2>1, <3>1, <3>2, AskedNext
  <2>. QED
    BY <2>2, <2>3
<1>5. ASSUME NEW f \in feeds, LoadArrives(f) PROVE HomeInv'
  <2>1. /\ feeds' = feeds \ {f} /\ held' = f.area /\ kept' = f.n
        /\ drawn' = IF loaded THEN f.area ELSE drawn
        /\ UNCHANGED <<loaded, camera, target, last, viewed>>
    BY <1>5 DEF LoadArrives, DrawIncidents, view
  <2>2. ~loaded => drawn = NULL
    BY DEF HomeInv, LoadedDraws
  <2>. QED
    BY <2>1, <2>2 DEF HomeInv, FeedsNumbered, KeptNumbered, LoadedDraws
<1>6. ASSUME NEW f \in feeds, LoadFails(f) PROVE HomeInv'
  BY <1>6 DEF LoadFails, view, shownFeed, HomeInv, FeedsNumbered, KeptNumbered, LoadedDraws
<1>7. ASSUME NEW area \in Areas, FocusWarning(area) PROVE HomeInv'
  <2>1. UNCHANGED <<loaded, camera, held, kept, drawn>>
    BY <1>7 DEF FocusWarning, shownFeed
  <2>2. CASE loaded /\ focus # area
    <3>1. EaseTo(area, <<>>)
      BY <1>7, <2>2 DEF FocusWarning, FocusEffect
    <3>. QED
      BY <1>0, <2>1, <2>2, <3>1, EaseNext, AskedNext
  <2>3. CASE ~(loaded /\ focus # area)
    <3>1. UNCHANGED <<target, feeds, last, viewed>>
      BY <1>7, <2>3 DEF FocusWarning, FocusEffect
    <3>. QED
      BY <1>0, <2>1, <3>1, AskedNext DEF FeedsNumbered
  <2>. QED
    BY <2>2, <2>3
<1>8. ASSUME NEW center \in confirming, Confirmed(center) PROVE HomeInv'
  <2>1. /\ LoadOther(<<center>>)
        /\ UNCHANGED <<loaded, camera, target, held, kept, drawn>>
    BY <1>8 DEF Confirmed, view, shownFeed
  <2>2. FeedsNumbered' /\ viewed' = viewed /\ last' >= last
    BY <1>0, <2>1, OtherAsks
  <2>. QED
    BY <1>0, <2>1, <2>2, AskedNext
<1>9. CASE \/ Locate \/ CenterRefused \/ Confirm \/ UNCHANGED homeState
           \/ \E center \in confirming : ConfirmFails(center)
  <2>1. UNCHANGED <<loaded, camera, target, held, kept, drawn, feeds, last, viewed>>
    BY <1>9 DEF Locate, CenterRefused, Confirm, ConfirmFails, homeState, view, shownFeed
  <2>. QED
    BY <2>1 DEF HomeInv, FeedsNumbered, KeptNumbered, LoadedDraws
<1>. QED
  BY <1>1, <1>2, <1>3, <1>4, <1>5, <1>6, <1>7, <1>8, <1>9 DEF HomeNext

(* For any areas, number of feeds and order of their answers, the circles  *)
(* drawn are those of the incidents kept, or none; and they are those of   *)
(* the area on the map when the map's own last feed brought them.          *)
THEOREM HomeMapIsCurrent == HomeInit /\ [][HomeNext]_homeState => []HomeMapCurrent
<1>1. HomeInv => HomeMapCurrent
  BY DEF HomeInv, HomeMapCurrent, FeedsNumbered, KeptNumbered, LoadedDraws
<1>. QED
  BY HomeStarts, HomeStep, <1>1, PTL

\* The areas of the feeds, too, are areas.
HomeAreas ==
  /\ {camera} \cup confirming \subseteq Areas
  /\ {target, mapCenter, held, drawn, focus} \subseteq Areas \cup {NULL}
  /\ awaited \in Nat
  /\ \A f \in feeds : f.area \in Areas
HomeTyped == HomeAreas /\ loaded \in BOOLEAN

(* Feeds are asked for of areas. *)
LEMMA LoadAreas ==
  ASSUME HomeAreas, NEW areas, \A k \in DOMAIN areas : areas[k] \in Areas,
         LoadFeed(areas) \/ LoadView(areas) \/ LoadOther(areas)
  PROVE  \A f \in feeds' : f.area \in Areas
<1>1. feeds' = feeds \cup {[n |-> last + k, area |-> areas[k]] : k \in DOMAIN areas}
  BY DEF LoadFeed, LoadView, LoadOther
<1>. QED
  BY <1>1 DEF HomeAreas

(* So is what a move asks for. *)
LEMMA EaseAreas ==
  ASSUME HomeAreas, NEW area \in Areas, NEW areas \in {<<area>>, <<>>}, EaseTo(area, areas)
  PROVE  target' = area /\ \A f \in feeds' : f.area \in Areas
<1>1. target' = area /\ camera \in Areas
  BY DEF HomeAreas, EaseTo
<1>2. CASE target = NULL
  <2>1. LoadOther(areas) /\ \A k \in DOMAIN areas : areas[k] \in Areas
    BY <1>2 DEF EaseTo
  <2>. QED
    BY <1>1, <2>1, LoadAreas
<1>3. CASE target # NULL
  <2> DEFINE both == Append(areas, camera)
  <2>1. LoadView(both) /\ \A k \in DOMAIN both : both[k] \in Areas
    BY <1>1, <1>3 DEF EaseTo
  <2> HIDE DEF both
  <2>. QED
    BY <1>1, <2>1, LoadAreas
<1>. QED
  BY <1>2, <1>3

(* The map shows the default area, and no position is known. *)
LEMMA HomeTypesStart == HomeInit => HomeTyped
<1>1. HomeInit => loaded = FALSE
  BY DEF HomeInit
<1>2. HomeInit => HomeAreas
  BY AreasAssumption DEF HomeInit, HomeAreas
<1>. QED
  BY <1>1, <1>2, Zenon DEF HomeTyped

LEMMA HomeTypeCorrect == HomeInv /\ HomeTyped => HomeTypeOK
<1> SUFFICES ASSUME HomeInv, HomeTyped PROVE HomeTypeOK
  OBVIOUS
<1>1. {kept, viewed} \subseteq 0 .. last /\ \A f \in feeds : f.n \in 1 .. last
  BY DEF HomeInv, FeedsNumbered, KeptNumbered
<1>. QED
  BY <1>1, Zenon DEF HomeTyped, HomeAreas, HomeTypeOK

(* What the screen holds stays well formed. *)
LEMMA HomeTypesStep == HomeTyped /\ [HomeNext]_homeState => HomeTyped'
<1> SUFFICES ASSUME HomeTyped, [HomeNext]_homeState PROVE HomeTyped'
  OBVIOUS
<1>1. HomeAreas /\ camera \in Areas /\ Center \in Areas
  BY AreasAssumption DEF HomeTyped, HomeAreas, Center
<1>2. loaded' \in BOOLEAN
  <2>1. loaded' = loaded \/ loaded' = TRUE
    BY Zenon DEF HomeNext, MapLoads, MoveEnds, Locate, CenterRefused, Confirm, Drag, CenterFound,
       FocusWarning, LoadArrives, LoadFails, Confirmed, ConfirmFails, view, homeState
  <2>. QED
    BY <2>1, Zenon DEF HomeTyped
<1>3. ASSUME NEW area \in Areas, LoadView(<<area>>) \/ LoadOther(<<area>>)
      PROVE  \A f \in feeds' : f.area \in Areas
  <2> DEFINE areas == <<area>>
  <2>1. \A k \in DOMAIN areas : areas[k] \in Areas
    OBVIOUS
  <2>. QED
    BY <1>1, <1>3, <2>1, LoadAreas
<1>4. CASE MapLoads
  <2>1. LoadView(<<camera>>)
        /\ UNCHANGED <<camera, target, mapCenter, awaited, held, drawn, focus, confirming>>
    BY <1>4, Zenon DEF MapLoads, position, shownFeed
  <2>. QED
    BY <1>1, <1>2, <1>3, <2>1 DEF HomeTyped, HomeAreas
<1>5. CASE MoveEnds
  <2>1. /\ target # NULL /\ camera' = target /\ target' = NULL
        /\ LoadView(<<target>>)
        /\ UNCHANGED <<mapCenter, awaited, held, drawn, focus, confirming>>
    BY <1>5, Zenon DEF MoveEnds, position, shownFeed
  <2>2. target \in Areas
    BY <1>1, <2>1 DEF HomeAreas
  <2>. QED
    BY <1>1, <1>2, <1>3, <2>1, <2>2 DEF HomeTyped, HomeAreas
<1>6. CASE Locate \/ CenterRefused
  <2>1. /\ UNCHANGED <<camera, target, mapCenter, held, drawn, feeds, focus, confirming>>
        /\ awaited' = awaited + 1 \/ (awaited > 0 /\ awaited' = awaited - 1)
    BY <1>6, Zenon DEF Locate, CenterRefused, view, shownFeed
  <2>. QED
    BY <1>1, <1>2, <2>1 DEF HomeTyped, HomeAreas
<1>7. CASE Confirm
  <2>1. /\ UNCHANGED <<camera, target, mapCenter, awaited, held, drawn, feeds, focus>>
        /\ confirming' = confirming \cup {Center}
    BY <1>7, Zenon DEF Confirm, view, position, shownFeed
  <2>. QED
    BY <1>1, <1>2, <2>1 DEF HomeTyped, HomeAreas
<1>8. ASSUME NEW area \in Areas, Drag(area) PROVE HomeTyped'
  <2>1. /\ camera' = area /\ target' = NULL
        /\ UNCHANGED <<mapCenter, awaited, held, drawn, focus, confirming>>
        /\ LoadView(<<area>>) \/ LoadView(<<camera, area>>) \/ feeds' = feeds
    BY <1>8, Zenon DEF Drag, position, shownFeed
  <2>2. LoadView(<<camera, area>>) => \A f \in feeds' : f.area \in Areas
    <3> DEFINE areas == <<camera, area>>
    <3>1. \A k \in DOMAIN areas : areas[k] \in Areas
      BY <1>1
    <3>. QED
      BY <1>1, <3>1, LoadAreas
  <2>3. \A f \in feeds' : f.area \in Areas
    BY <1>1, <1>3, <2>1, <2>2 DEF HomeAreas
  <2>. QED
    BY <1>1, <1>2, <2>1, <2>3 DEF HomeTyped, HomeAreas
<1>9. ASSUME NEW area \in Areas, CenterFound(area) PROVE HomeTyped'
  <2>1. /\ awaited > 0 /\ awaited' = awaited - 1 /\ mapCenter' = area
        /\ UNCHANGED <<camera, held, drawn, focus, confirming>>
        /\ \/ EaseTo(area, <<area>>)
           \/ LoadOther(<<area>>) /\ target' = target
    BY <1>9, Zenon DEF CenterFound, shownFeed
  <2>2. target' \in {target, area} /\ \A f \in feeds' : f.area \in Areas
    BY <1>1, <1>3, <2>1, EaseAreas
  <2>. QED
    BY <1>1, <1>2, <2>1, <2>2 DEF HomeTyped, HomeAreas
<1>10. ASSUME NEW area \in Areas, FocusWarning(area) PROVE HomeTyped'
  <2>1. /\ focus' = area /\ UNCHANGED <<camera, mapCenter, awaited, held, drawn, confirming>>
        /\ EaseTo(area, <<>>) \/ UNCHANGED <<target, feeds>>
    BY <1>10, Zenon DEF FocusWarning, FocusEffect, position, shownFeed
  <2>2. target' \in {target, area} /\ \A f \in feeds' : f.area \in Areas
    BY <1>1, <2>1, EaseAreas DEF HomeAreas
  <2>. QED
    BY <1>1, <1>2, <2>1, <2>2 DEF HomeTyped, HomeAreas
<1>11. ASSUME NEW f \in feeds, LoadArrives(f) \/ LoadFails(f) PROVE HomeTyped'
  <2>1. /\ feeds' \subseteq feeds /\ UNCHANGED <<camera, target, mapCenter, awaited, focus, confirming>>
        /\ held' \in {held, f.area} /\ drawn' \in {drawn, f.area}
    BY <1>11, Zenon DEF LoadArrives, LoadFails, DrawIncidents, view, position, shownFeed
  <2>. QED
    BY <1>1, <1>2, <2>1 DEF HomeTyped, HomeAreas
<1>12. ASSUME NEW center \in confirming, Confirmed(center) \/ ConfirmFails(center) PROVE HomeTyped'
  <2>1. /\ confirming' \subseteq confirming
        /\ UNCHANGED <<camera, target, mapCenter, awaited, held, drawn, focus>>
        /\ LoadOther(<<center>>) \/ feeds' = feeds
    BY <1>12, Zenon DEF Confirmed, ConfirmFails, view, position, shownFeed
  <2>2. center \in Areas
    BY <1>1 DEF HomeAreas
  <2>3. \A f \in feeds' : f.area \in Areas
    BY <1>1, <1>3, <2>1, <2>2 DEF HomeAreas
  <2>. QED
    BY <1>1, <1>2, <2>1, <2>3 DEF HomeTyped, HomeAreas
<1>13. CASE UNCHANGED homeState
  <2>1. UNCHANGED <<camera, target, mapCenter, awaited, held, drawn, feeds, focus, confirming>>
    BY <1>13, Zenon DEF homeState, view, position, shownFeed
  <2>. QED
    BY <1>1, <1>2, <2>1 DEF HomeTyped, HomeAreas
<1>. QED
  BY <1>4, <1>5, <1>6, <1>7, <1>8, <1>9, <1>10, <1>11, <1>12, <1>13 DEF HomeNext

(***************************************************************************)
(* MapFeed.                                                                *)
(***************************************************************************)

MarkerRow == [status : {"NONE", "ACTIVE", "ENDED"}, version : Nat, updated : Times, expires : Int]

FeedTypes ==
  /\ Registers
  /\ markers \in [Incidents -> MarkerRow]
  /\ shown \in [Incidents -> Nat]
  /\ cursor \in Times \cup {NULL}
  /\ \A h \in Handlers : at[h] = "writing" => mem[h].id \in Incidents /\ mem[h].start \in Times

\* Nothing is dated ahead of the clock; without a cursor nothing is shown, nor
\* is an incident that does not exist.
FeedDates ==
  /\ cursor <= now
  /\ \A i \in Incidents : markers[i].updated <= now
  /\ \A h \in Handlers : at[h] = "writing" => mem[h].start <= now
  /\ \A i \in Incidents : cursor = NULL \/ markers[i].status = "NONE" => shown[i] = 0

\* An answer on its way has the row as it is, has it not since the client need
\* not have it, or has cut it off.
Answered(i, answer) ==
  IF i \in DOMAIN answer.rows THEN answer.rows[i] = markers[i]
  ELSE i \in answer.cut \/ i \notin Matching(cursor)

\* The answer to the one request under way is right but for what was written
\* after the read.
ReadHolds ==
  \A h \in Handlers : at[h] = "read" =>
    /\ \A g \in Handlers \ {h} : at[g] # "read"
    /\ mem[h].start \in cursor .. now
    /\ DOMAIN mem[h].rows \subseteq Incidents
    /\ \A i \in DOMAIN mem[h].rows :
         /\ mem[h].rows[i] \in MarkerRow /\ mem[h].rows[i].updated <= mem[h].start
         /\ mem[h].rows[i].status # "NONE" /\ markers[i].status # "NONE"
    /\ \A i \in Incidents :
         i \in late \/ markers[i].updated >= mem[h].start \/ Answered(i, mem[h])

FeedInv == FeedTypes /\ FeedDates /\ ReadHolds /\ FeedComplete

(* A set of times, before the first one included, has a latest. *)
LEMMA LatestExists ==
  ASSUME NEW S \in SUBSET Int, S # {}, NEW n \in Int, \A t \in S : t <= n
  PROVE  Max(S) \in S /\ \A t \in S : Max(S) >= t
<1> DEFINE distance == {n - t : t \in S}
<1>1. PICK d \in distance : \A e \in distance : d <= e
  <2>1. \A t \in S : n - t \in Nat
    OBVIOUS
  <2>2. distance \in SUBSET Nat /\ distance # {}
    BY <2>1
  <2>. QED
    BY <2>2, LeastExists
<1>2. PICK t \in S : d = n - t
  BY <1>1
<1>3. \A u \in S : n - t <= n - u
  BY <1>1, <1>2
<1>4. \A u \in S : t >= u
  BY <1>3
<1>. QED
  BY <1>4 DEF Max

(* No incident exists, and nothing is shown. *)
LEMMA FeedStarts == EnvironmentInit /\ FeedInit => FeedInv
<1> SUFFICES ASSUME EnvironmentInit, FeedInit PROVE FeedInv
  OBVIOUS
<1>1. /\ Registers /\ \A h \in Handlers : at[h] = Free
      /\ now = 0
  BY RegistersStart DEF EnvironmentInit
<1>2. FeedTypes
  BY <1>1, RequestsAssumption DEF FeedTypes, FeedInit, MarkerRow, NoMarkers, NULL, Times, Free
<1>3. FeedDates /\ ReadHolds
  BY <1>1 DEF FeedDates, ReadHolds, FeedInit, NoMarkers, NULL, Free
<1>4. FeedComplete
  BY DEF FeedComplete, FeedInit, NULL
<1>. QED
  BY <1>2, <1>3, <1>4 DEF FeedInv

(* While its row stays as it is, an incident that does not match what the  *)
(* client asks for does not come to match it.                              *)
LEMMA MatchingShrinks ==
  ASSUME FeedTypes, NEW i \in Incidents, now' \in Nat, now' >= now, markers'[i] = markers[i],
         cursor' = cursor, i \notin Matching(cursor)
  PROVE  i \notin Matching(cursor)'
<1>1. now \in Nat /\ markers[i].expires \in Int
  BY RequestsAssumption DEF FeedTypes, Registers, Times, MarkerRow
<1>2. Visible(i)' => Visible(i)
  BY <1>1 DEF Visible
<1>. QED
  BY <1>2 DEF Matching, ChangedSince

(* What is next asked for is what has changed since the read, or before it *)
(* and up to the last row of the answer; and after an empty first answer   *)
(* what has changed since the answer.                                      *)
LEMMA CursorNext ==
  ASSUME FeedTypes, FeedDates, ReadHolds, NEW h \in Handlers, at[h] = "read"
  PROVE  LET next == NextCursor(mem[h].rows) IN
         /\ next \in Times \cup {NULL} /\ next <= now
         /\ next >= cursor
         /\ \A i \in DOMAIN mem[h].rows : next >= mem[h].rows[i].updated
         /\ IF cursor = NULL /\ DOMAIN mem[h].rows = {} THEN next = now
            ELSE next <= mem[h].start
<1> DEFINE answered == mem[h].rows
           times == {cursor} \cup {answered[i].updated : i \in DOMAIN answered}
<1>1. /\ mem[h].start \in cursor .. now
      /\ \A i \in DOMAIN answered : answered[i].updated \in Times /\ answered[i].updated <= mem[h].start
  BY DEF ReadHolds, MarkerRow
<1>2. cursor \in Times \cup {NULL} /\ cursor <= now /\ now \in Times
  BY DEF FeedTypes, FeedDates, Registers
<1>3. times \in SUBSET Int /\ times # {} /\ \A t \in times : t <= mem[h].start
  BY <1>1, <1>2 DEF Times, NULL
<1>4. Max(times) \in times /\ \A t \in times : Max(times) >= t
  <2>1. mem[h].start \in Int
    BY <1>1
  <2>. QED
    BY <2>1, <1>3, LatestExists
<1>. QED
  BY <1>1, <1>2, <1>3, <1>4 DEF NextCursor, Times, NULL

(* A step in which the clock may go on, other rows may be written and      *)
(* other requests begin, leaves the answer on its way and the client's map *)
(* right for the rows that stay as they are.                               *)
LEMMA RowStays ==
  ASSUME FeedInv, NEW i \in Incidents, now' \in Nat, now' >= now,
         UNCHANGED <<shown, cursor, cut, unseen>>, markers'[i] = markers[i],
         i \in late => i \in late'
  PROVE  /\ shown'[i] # (IF Visible(i)' THEN markers'[i].version ELSE 0) =>
              \/ markers'[i].updated >= cursor'
              \/ Awaited(i)'
              \/ i \in late' \cup cut'
              \/ markers'[i].updated \in unseen'
         /\ \A h \in Handlers : at[h] = "read" =>
              i \in late' \/ markers'[i].updated >= mem[h].start
                \/ IF i \in DOMAIN mem[h].rows THEN mem[h].rows[i] = markers'[i]
                   ELSE i \in mem[h].cut \/ i \notin Matching(cursor)'
<1>1. now \in Nat /\ markers[i].expires \in Int
  BY RequestsAssumption DEF FeedInv, FeedTypes, Registers, Times, MarkerRow
<1>2. Visible(i)' => Visible(i)
  BY <1>1 DEF Visible
<1>3. Visible(i) => Visible(i)' \/ Awaited(i)'
  BY DEF Visible, Awaited
<1>4. Awaited(i) => Awaited(i)'
  BY <1>2 DEF Awaited
<1>5. shown'[i] # (IF Visible(i)' THEN markers'[i].version ELSE 0) =>
        \/ markers'[i].updated >= cursor'
        \/ Awaited(i)'
        \/ i \in late' \cup cut'
        \/ markers'[i].updated \in unseen'
  BY <1>2, <1>3, <1>4 DEF FeedInv, FeedComplete
<1>6. ASSUME NEW h \in Handlers, at[h] = "read"
      PROVE  i \in late' \/ markers'[i].updated >= mem[h].start
                \/ IF i \in DOMAIN mem[h].rows THEN mem[h].rows[i] = markers'[i]
                   ELSE i \in mem[h].cut \/ i \notin Matching(cursor)'
  <2>1. i \in late \/ markers[i].updated >= mem[h].start \/ Answered(i, mem[h])
    BY <1>6 DEF FeedInv, ReadHolds
  <2>2. i \notin Matching(cursor) => i \notin Matching(cursor)'
    BY MatchingShrinks DEF FeedInv
  <2>. QED
    BY <2>1, <2>2 DEF Answered
<1>. QED
  BY <1>5, <1>6

(* An answer that holds puts the client's map right. *)
LEMMA AnswerHolds ==
  ASSUME FeedInv, NEW h \in Handlers, GetFeed(h)
  PROVE  FeedComplete'
<1> DEFINE answered == mem[h].rows
<1>1. /\ at[h] = "read" /\ cursor' = NextCursor(answered)
      /\ shown' = [i \in Incidents |->
           IF i \notin DOMAIN answered THEN shown[i]
           ELSE IF answered[i].status = "ENDED" THEN 0 ELSE answered[i].version]
      /\ cut' = (cut \ DOMAIN answered) \cup mem[h].cut
      /\ unseen' = IF cursor = NULL /\ DOMAIN answered = {} THEN mem[h].start .. now - 1 ELSE unseen
      /\ UNCHANGED <<now, markers, late>>
  BY DEF GetFeed, Finish, Proceed
<1>2. /\ mem[h].start \in cursor .. now
      /\ \A i \in DOMAIN answered : answered[i].status # "NONE"
      /\ \A i \in Incidents :
           i \in late \/ markers[i].updated >= mem[h].start \/ Answered(i, mem[h])
  BY <1>1 DEF FeedInv, ReadHolds
<1>3. /\ cursor' \in Times \cup {NULL} /\ cursor' <= now /\ cursor' >= cursor
      /\ IF cursor = NULL /\ DOMAIN answered = {} THEN cursor' = now
         ELSE cursor' <= mem[h].start
  BY <1>1, CursorNext DEF FeedInv
<1>4. now \in Times /\ cursor \in Times \cup {NULL}
  BY DEF FeedInv, FeedTypes, Registers
<1>5. SUFFICES ASSUME NEW i \in Incidents, i \notin late', ~ (markers'[i].updated >= cursor'),
                      ~ Awaited(i)', i \notin cut', markers'[i].updated \notin unseen'
               PROVE  shown'[i] = IF Visible(i)' THEN markers'[i].version ELSE 0
  BY DEF FeedComplete
<1>6. /\ (Visible(i)' <=> Visible(i)) /\ (Awaited(i)' <=> Awaited(i))
      /\ markers'[i] = markers[i] /\ i \notin late
  BY <1>1, <1>5 DEF Visible, Awaited
<1>7. markers[i] \in MarkerRow /\ markers[i].updated \in Times /\ markers[i].updated <= now
  BY DEF FeedInv, FeedTypes, FeedDates, MarkerRow
<1>8. ~ (markers[i].updated >= mem[h].start)
  BY <1>1, <1>2, <1>3, <1>4, <1>5, <1>6, <1>7, RequestsAssumption DEF Times, NULL
<1>9. Answered(i, mem[h])
  BY <1>2, <1>6, <1>8
<1>10. CASE i \in DOMAIN answered
  <2>1. answered[i] = markers[i] /\ markers[i].status \in {"ACTIVE", "ENDED"}
    BY <1>2, <1>7, <1>9, <1>10 DEF Answered, MarkerRow
  <2>2. shown'[i] = IF markers[i].status = "ENDED" THEN 0 ELSE markers[i].version
    BY <1>1, <1>10, <2>1
  <2>. QED
    BY <1>5, <1>6, <2>1, <2>2 DEF Visible, Awaited
<1>11. CASE i \notin DOMAIN answered
  <2>1. i \notin mem[h].cut /\ i \notin cut
    BY <1>1, <1>5, <1>11, Zenon
  <2>2. i \notin Matching(cursor)
    BY <1>9, <1>11, <2>1, Zenon DEF Answered
  <2>3. shown'[i] = shown[i]
    BY <1>1, <1>11
  <2>4. CASE cursor = NULL
    BY <1>6, <2>2, <2>3, <2>4 DEF Matching, FeedInv, FeedDates
  <2>5. CASE cursor # NULL /\ ~ ChangedSince(i, cursor)
    BY <1>1, <1>5, <1>6, <2>1, <2>3, <2>5 DEF ChangedSince, FeedInv, FeedComplete
  <2>6. CASE cursor # NULL /\ ~ Visible(i) /\ markers[i].status # "ENDED"
    BY <1>5, <1>6, <1>7, <2>3, <2>6 DEF FeedInv, FeedDates, Awaited, MarkerRow
  <2>. QED
    BY <2>2, <2>4, <2>5, <2>6 DEF Matching
<1>. QED
  BY <1>10, <1>11

(* Every step keeps the invariant. *)
LEMMA FeedStep == FeedInv /\ [FeedNext]_<<feedState, environment>> => FeedInv'
<1> SUFFICES ASSUME FeedInv, [FeedNext]_<<feedState, environment>> PROVE FeedInv'
  OBVIOUS
<1> DEFINE frame == <<shown, cursor, cut, unseen>>
<1>1. FeedTypes /\ FeedDates /\ ReadHolds /\ Registers /\ now \in Nat
  BY RequestsAssumption DEF FeedInv, FeedTypes, Registers, Times
<1>2. CASE FeedTick \/ UNCHANGED <<feedState, environment>>
  <2>1. /\ now' \in Times /\ now' >= now /\ UNCHANGED <<feedState, at, mem>> /\ Registers'
    BY <1>1, <1>2, ClockMoves DEF FeedTick, PassTime, environment, requests, Registers, Times
  <2>2. FeedTypes' /\ FeedDates'
    BY <1>1, <2>1, RequestsAssumption DEF feedState, FeedTypes, FeedDates, Times, NULL, MarkerRow
  <2>3. FeedComplete' /\ ReadHolds'
    <3>1. now' \in Nat /\ UNCHANGED frame /\ UNCHANGED <<markers, late>>
      BY <2>1, RequestsAssumption DEF feedState, Times
    <3>2. FeedComplete'
      BY <2>1, <3>1, RowStays DEF FeedComplete
    <3>3. ASSUME NEW h \in Handlers, at'[h] = "read"
          PROVE  /\ \A g \in Handlers \ {h} : at'[g] # "read"
                 /\ mem'[h].start \in cursor' .. now'
                 /\ DOMAIN mem'[h].rows \subseteq Incidents
                 /\ \A i \in DOMAIN mem'[h].rows :
                      /\ mem'[h].rows[i] \in MarkerRow /\ mem'[h].rows[i].updated <= mem'[h].start
                      /\ mem'[h].rows[i].status # "NONE" /\ markers'[i].status # "NONE"
      BY <1>1, <2>1, <3>1, <3>3, RequestsAssumption DEF ReadHolds, Times, FeedTypes, NULL
    <3>4. ASSUME NEW h \in Handlers, at'[h] = "read", NEW i \in Incidents
          PROVE  i \in late' \/ markers'[i].updated >= mem'[h].start \/ Answered(i, mem[h])'
      BY <2>1, <3>1, <3>4, RowStays DEF Answered
    <3>. QED
      BY <3>2, <3>3, <3>4, <2>1 DEF ReadHolds
  <2>. QED
    BY <2>2, <2>3 DEF FeedInv
<1>3. CASE ChangeViewport
  <2>1. /\ \A h \in Handlers : at[h] # "read"
        /\ shown' = NoMarkers /\ cursor' = NULL /\ UNCHANGED <<now, at, mem, markers, late>>
    BY <1>3 DEF ChangeViewport, Single
  <2>2. FeedTypes' /\ FeedDates' /\ ReadHolds'
    BY <1>1, <2>1 DEF FeedTypes, FeedDates, ReadHolds, NoMarkers, Registers, NULL
  <2>3. FeedComplete'
    BY <1>1, <2>1, RequestsAssumption DEF FeedComplete, NULL, FeedTypes, MarkerRow, Times
  <2>. QED
    BY <2>2, <2>3 DEF FeedInv
<1>4. ASSUME NEW h \in Handlers, NEW i \in Incidents, WriteIncident(h, i) PROVE FeedInv'
  <2> DEFINE memory == [id |-> i, start |-> now]
  <2>1. /\ Registers' /\ at'[h] = "writing" /\ mem'[h] = memory /\ now' = now
        /\ \A g \in Handlers \ {h} : at'[g] = at[g] /\ mem'[g] = mem[g]
        /\ UNCHANGED feedState
    BY <1>1, <1>4, HandlerMoves DEF WriteIncident
  <2>2. FeedTypes' /\ FeedDates'
    BY <1>1, <2>1 DEF feedState, FeedTypes, FeedDates, Registers
  <2>3. ReadHolds'
    BY <1>1, <2>1 DEF ReadHolds, Answered, Matching, Visible, ChangedSince, feedState
  <2>4. FeedComplete'
    BY <2>1 DEF FeedInv, FeedComplete, Visible, Awaited, feedState
  <2>. QED
    BY <2>2, <2>3, <2>4 DEF FeedInv
<1>5. ASSUME NEW h \in Handlers, CommitIncident(h) PROVE FeedInv'
  <2> DEFINE i == mem[h].id
             start == mem[h].start
  <2>1. /\ Registers' /\ at'[h] = Free /\ now' = now /\ at[h] = "writing"
        /\ \A g \in Handlers \ {h} : at'[g] = at[g] /\ mem'[g] = mem[g]
        /\ UNCHANGED frame
    BY <1>1, <1>5, HandlerMoves DEF CommitIncident, Finish
  <2>2. i \in Incidents /\ start \in Times /\ start <= now
    BY <1>1, <2>1 DEF FeedTypes, FeedDates
  <2>3. CASE markers[i].status = "ENDED"
    <3>1. UNCHANGED feedState
      BY <1>5, <2>1, <2>3 DEF CommitIncident, feedState
    <3>2. FeedTypes' /\ FeedDates'
      BY <1>1, <2>1, <3>1 DEF feedState, FeedTypes, FeedDates, Registers, Free
    <3>3. ReadHolds'
      BY <1>1, <2>1, <3>1 DEF ReadHolds, Answered, Matching, Visible, ChangedSince, feedState, Free
    <3>4. FeedComplete'
      BY <2>1, <3>1 DEF FeedInv, FeedComplete, Visible, Awaited, feedState
    <3>. QED
      BY <3>2, <3>3, <3>4 DEF FeedInv
  <2>4. CASE markers[i].status # "ENDED"
    <3>1. PICK written \in Written(i, start) : markers' = [markers EXCEPT ![i] = written]
      BY <1>5, <2>4 DEF CommitIncident
    <3>2. late' = IF start = now THEN late \ {i} ELSE late \cup {i}
      BY <1>5, <2>4 DEF CommitIncident
    <3>3. written \in MarkerRow /\ written.updated = start /\ written.status # "NONE"
      BY <1>1, <2>2, <3>1, MarkersAssumption, RequestsAssumption
         DEF Written, MarkerRow, FeedTypes, NULL, Times
    <3>4. /\ markers' \in [Incidents -> MarkerRow] /\ markers'[i] = written
          /\ \A j \in Incidents \ {i} : markers'[j] = markers[j]
      BY <1>1, <2>2, <3>1, <3>3 DEF FeedTypes
    <3>5. FeedTypes' /\ FeedDates'
      BY <1>1, <2>1, <2>2, <3>3, <3>4 DEF FeedTypes, FeedDates, Free
    <3>6. \A j \in Incidents \ {i} : j \in late => j \in late'
      BY <3>2
    <3>7. i \in late' \/ written.updated = now
      BY <3>2, <3>3
    <3>8. FeedComplete'
      <4>1. cursor' <= now /\ now \in Int
        BY <1>1, <2>1 DEF FeedDates
      <4>. QED
        BY <1>1, <2>1, <3>4, <3>6, <3>7, <4>1, RowStays DEF FeedComplete
    <3>9. ReadHolds'
      <4>1. ASSUME NEW g \in Handlers, at'[g] = "read"
            PROVE  /\ \A k \in Handlers \ {g} : at'[k] # "read"
                   /\ mem'[g].start \in cursor' .. now'
                   /\ DOMAIN mem'[g].rows \subseteq Incidents
                   /\ \A j \in DOMAIN mem'[g].rows :
                        /\ mem'[g].rows[j] \in MarkerRow
                        /\ mem'[g].rows[j].updated <= mem'[g].start
                        /\ mem'[g].rows[j].status # "NONE" /\ markers'[j].status # "NONE"
        BY <1>1, <2>1, <3>3, <3>4, <4>1 DEF ReadHolds, Free
      <4>2. ASSUME NEW g \in Handlers, at'[g] = "read", NEW j \in Incidents
            PROVE  j \in late' \/ markers'[j].updated >= mem'[g].start \/ Answered(j, mem[g])'
        <5>1. at[g] = "read" /\ mem'[g] = mem[g] /\ mem[g].start <= now /\ mem[g].start \in Int
          BY <1>1, <2>1, <4>2 DEF ReadHolds, Free
        <5>2. CASE j = i
          BY <1>1, <5>1, <5>2, <3>4, <3>7
        <5>3. CASE j # i
          <6>1. j \in late => j \in late'
            BY <3>6, <5>3
          <6>2. markers'[j] = markers[j]
            BY <3>4, <5>3
          <6>. QED
            BY <1>1, <2>1, <5>1, <6>1, <6>2, RowStays DEF Answered
        <5>. QED
          BY <5>2, <5>3
      <4>. QED
        BY <4>1, <4>2 DEF ReadHolds
    <3>. QED
      BY <3>5, <3>8, <3>9 DEF FeedInv
  <2>. QED
    BY <2>3, <2>4
<1>6. ASSUME NEW h \in Handlers, FindMarkers(h) PROVE FeedInv'
  <2>1. PICK returned \in Newest(Matching(cursor)) :
          Begin(h, "read", [rows |-> [i \in returned |-> markers[i]],
                            cut |-> Matching(cursor) \ returned, start |-> now])
    BY <1>6 DEF FindMarkers
  <2> DEFINE memory == [rows |-> [i \in returned |-> markers[i]],
                        cut |-> Matching(cursor) \ returned, start |-> now]
  <2>2. /\ Registers' /\ at'[h] = "read" /\ mem'[h] = memory /\ now' = now
        /\ \A g \in Handlers \ {h} : at'[g] = at[g] /\ mem'[g] = mem[g]
        /\ UNCHANGED feedState /\ \A g \in Handlers : at[g] # "read"
    BY <1>1, <1>6, <2>1, HandlerMoves DEF FindMarkers
  <2>3. returned \subseteq Matching(cursor) /\ Matching(cursor) \subseteq Incidents
    BY DEF Newest, Matching
  <2>4. FeedTypes' /\ FeedDates'
    BY <1>1, <2>2 DEF feedState, FeedTypes, FeedDates, Registers
  <2>5. FeedComplete'
    BY <2>2 DEF FeedInv, FeedComplete, Visible, Awaited, feedState
  <2>6. /\ now \in cursor .. now /\ \A i \in returned : markers[i].status # "NONE"
        /\ \A i \in returned : markers[i] \in MarkerRow /\ markers[i].updated <= now
    BY <1>1, <2>3 DEF FeedTypes, FeedDates, Matching, Visible, Times, NULL
  <2>7. \A i \in Incidents : Answered(i, memory)
    BY <2>3 DEF Answered
  <2>8. UNCHANGED <<markers, cursor, late>> /\ Matching(cursor)' = Matching(cursor)
    BY <2>2 DEF feedState, Matching, Visible, ChangedSince
  <2>9. ReadHolds'
    BY <2>2, <2>3, <2>6, <2>7, <2>8 DEF ReadHolds, Answered
  <2>. QED
    BY <2>4, <2>5, <2>9 DEF FeedInv
<1>7. ASSUME NEW h \in Handlers, GetFeed(h) PROVE FeedInv'
  <2>1. /\ Registers' /\ at'[h] = Free /\ now' = now /\ at[h] = "read"
        /\ \A g \in Handlers \ {h} : at'[g] = at[g] /\ mem'[g] = mem[g]
    BY <1>1, <1>7, HandlerMoves DEF GetFeed, Finish
  <2>2. /\ cursor' = NextCursor(mem[h].rows) /\ UNCHANGED <<markers, late>>
        /\ shown' = [i \in Incidents |->
             IF i \notin DOMAIN mem[h].rows THEN shown[i]
             ELSE IF mem[h].rows[i].status = "ENDED" THEN 0 ELSE mem[h].rows[i].version]
    BY <1>7 DEF GetFeed
  <2>3. /\ cursor' \in Times \cup {NULL} /\ cursor' <= now /\ cursor' >= cursor
        /\ IF cursor = NULL /\ DOMAIN mem[h].rows = {} THEN cursor' = now
           ELSE cursor' <= mem[h].start
    BY <1>1, <2>1, <2>2, CursorNext
  <2>4. \A i \in DOMAIN mem[h].rows : /\ mem[h].rows[i] \in MarkerRow
                                      /\ markers[i].status # "NONE"
    BY <1>1, <2>1 DEF ReadHolds
  <2>5. FeedTypes'
    <3>1. \A i \in Incidents : shown'[i] \in Nat
      BY <1>1, <2>2, <2>4 DEF MarkerRow, FeedTypes
    <3>. QED
      BY <1>1, <2>1, <2>2, <2>3, <3>1 DEF FeedTypes, Free
  <2>6. FeedDates'
    <3>1. \A i \in Incidents : cursor' = NULL \/ markers[i].status = "NONE" => shown'[i] = 0
      <4>1. now # NULL /\ \A i \in DOMAIN mem[h].rows : cursor' >= mem[h].rows[i].updated
        BY <1>1, <2>1, <2>2, CursorNext, RequestsAssumption DEF Times, NULL, Registers
      <4>2. cursor' # NULL
        BY <1>1, <2>3, <2>4, <4>1, RequestsAssumption DEF MarkerRow, NULL, FeedTypes, Times
      <4>. QED
        BY <1>1, <2>2, <2>4, <4>2 DEF FeedDates
    <3>. QED
      BY <1>1, <2>1, <2>2, <2>3, <3>1 DEF FeedDates, Free
  <2>7. ReadHolds'
    BY <1>1, <2>1 DEF ReadHolds, Free
  <2>. QED
    BY <2>5, <2>6, <2>7, <1>7, AnswerHolds DEF FeedInv
<1>8. ASSUME NEW h \in Handlers, FeedFails(h) PROVE FeedInv'
  <2>1. /\ Registers' /\ at'[h] = Free /\ now' = now /\ at[h] = "read"
        /\ \A g \in Handlers \ {h} : at'[g] = at[g] /\ mem'[g] = mem[g]
        /\ UNCHANGED feedState
    BY <1>1, <1>8, HandlerMoves DEF FeedFails, Finish
  <2>2. FeedTypes' /\ FeedDates'
    BY <1>1, <2>1 DEF feedState, FeedTypes, FeedDates, Registers, Free
  <2>3. ReadHolds'
    BY <1>1, <2>1 DEF ReadHolds, Free
  <2>4. FeedComplete'
    BY <2>1 DEF FeedInv, FeedComplete, Visible, Awaited, feedState
  <2>. QED
    BY <2>2, <2>3, <2>4 DEF FeedInv
<1>. QED
  BY <1>2, <1>3, <1>4, <1>5, <1>6, <1>7, <1>8 DEF FeedNext

(* For any number of incidents, requests and writers, and any limit: what  *)
(* the client's map lacks is in its next answer, waits for the sweep, or   *)
(* is one of the changes the module names.                                 *)
THEOREM MapFeedIsComplete ==
  EnvironmentInit /\ FeedInit /\ [][FeedNext]_<<feedState, environment>> => []FeedComplete
<1>1. FeedInv => FeedComplete
  BY DEF FeedInv
<1>. QED
  BY FeedStarts, FeedStep, <1>1, PTL

\* The transactions under way.  Each is a request of its own, so that no row
\* has more versions than requests were made, less these.
Writing == {h \in Handlers : at[h] = "writing"}

FeedBounds ==
  /\ begun \in 0 .. MaxRequests
  /\ IsFiniteSet(Writing)
  /\ \A i \in Incidents : markers[i].version + Cardinality(Writing) <= begun
  /\ \A i \in Incidents : shown[i] <= begun
  /\ \A h \in Handlers : at[h] = "read" =>
       /\ \A i \in DOMAIN mem[h].rows : mem[h].rows[i].version <= begun
       /\ mem[h].cut \subseteq Incidents
  /\ late \cup cut \subseteq Incidents

LEMMA FeedTypeCorrect == FeedInv /\ FeedBounds => FeedTypeOK
<1> SUFFICES ASSUME FeedInv, FeedBounds PROVE FeedTypeOK
  OBVIOUS
<1>1. shown \in [Incidents -> 0 .. MaxRequests]
  <2>1. begun \in Nat /\ begun <= MaxRequests /\ shown \in [Incidents -> Nat] /\ MaxRequests \in Nat
    BY RequestsAssumption DEF FeedBounds, FeedInv, FeedTypes
  <2>2. \A i \in Incidents : shown[i] <= begun
    BY DEF FeedBounds
  <2>. QED
    BY <2>1, <2>2
<1>2. (\A i \in Incidents : markers[i].updated \in Times) /\ cursor \in Times \cup {NULL}
  BY DEF FeedInv, FeedTypes, MarkerRow
<1>. QED
  BY <1>1, <1>2 DEF FeedBounds, FeedTypeOK

LEMMA FeedBoundsStart == EnvironmentInit /\ FeedInit => FeedBounds
<1> SUFFICES ASSUME EnvironmentInit, FeedInit PROVE FeedBounds
  OBVIOUS
<1>1. /\ begun = 0 /\ \A h \in Handlers : at[h] = Free
      /\ \A i \in Incidents : markers[i].version = 0 /\ shown[i] = 0
      /\ late = {} /\ cut = {}
  BY DEF EnvironmentInit, FeedInit, NoMarkers
<1>2. Writing = {}
  BY <1>1 DEF Writing, Free
<1>. QED
  BY <1>1, <1>2, FS_EmptySet, RequestsAssumption DEF FeedBounds, Free

(* A request more, of a transaction or not, that writes no row yet.        *)
LEMMA FeedBegins ==
  ASSUME FeedInv, FeedBounds, NEW h \in Handlers, NEW step, NEW memory, Begin(h, step, memory),
         UNCHANGED feedState,
         step = "read" =>
           /\ \A i \in DOMAIN memory.rows : memory.rows[i].version <= begun + 1
           /\ memory.cut \subseteq Incidents
  PROVE  FeedBounds'
<1>1. /\ at'[h] = step /\ mem'[h] = memory
      /\ \A g \in Handlers \ {h} : at'[g] = at[g] /\ mem'[g] = mem[g]
  BY HandlerMoves DEF FeedInv, FeedTypes
<1>2. begun < MaxRequests /\ begun' = begun + 1 /\ begun \in Nat /\ MaxRequests \in Nat
  BY RequestsAssumption DEF Begin, Request, FeedBounds
<1>3. Writing' \subseteq Writing \cup {h}
  BY <1>1 DEF Writing
<1>4. /\ IsFiniteSet(Writing') /\ Cardinality(Writing') \in Nat /\ Cardinality(Writing) \in Nat
      /\ Cardinality(Writing') <= Cardinality(Writing) + 1
  BY <1>3, Counting DEF FeedBounds
<1>5. /\ \A i \in Incidents : markers[i].version \in Nat /\ shown[i] \in Nat
      /\ UNCHANGED <<markers, shown, late, cut>>
  BY DEF FeedInv, FeedTypes, MarkerRow, feedState
<1>6. \A i \in Incidents : markers'[i].version + Cardinality(Writing') <= begun' /\ shown'[i] <= begun'
  <2> SUFFICES ASSUME NEW i \in Incidents
               PROVE  markers'[i].version + Cardinality(Writing') <= begun' /\ shown'[i] <= begun'
    OBVIOUS
  <2>1. markers[i].version + Cardinality(Writing) <= begun /\ shown[i] <= begun
    BY DEF FeedBounds
  <2>2. markers'[i] = markers[i] /\ shown'[i] = shown[i] /\ markers[i].version \in Nat /\ shown[i] \in Nat
    BY <1>5
  <2>. QED
    BY <1>2, <1>4, <2>1, <2>2
<1>7. ASSUME NEW g \in Handlers, at'[g] = "read"
      PROVE  /\ \A i \in DOMAIN mem'[g].rows : mem'[g].rows[i].version <= begun'
             /\ mem'[g].cut \subseteq Incidents
  <2>1. CASE g = h
    BY <1>1, <1>2, <1>7, <2>1
  <2>2. CASE g # h
    <3>1. /\ mem'[g] = mem[g] /\ mem[g].cut \subseteq Incidents
          /\ \A i \in DOMAIN mem[g].rows : mem[g].rows[i].version <= begun
      BY <1>1, <1>7, <2>2 DEF FeedBounds
    <3>2. \A i \in DOMAIN mem[g].rows : mem[g].rows[i].version \in Nat
      BY <1>1, <1>7, <2>2 DEF FeedInv, ReadHolds, MarkerRow
    <3>. QED
      BY <1>2, <3>1, <3>2
  <2>. QED
    BY <2>1, <2>2
<1>8. begun' \in 0 .. MaxRequests /\ late' \cup cut' \subseteq Incidents
  BY <1>2, <1>5 DEF FeedBounds
<1>. QED
  BY <1>4, <1>6, <1>7, <1>8 DEF FeedBounds

(* A handler that ends, with a row written or an answer taken.             *)
LEMMA FeedEnds ==
  ASSUME FeedInv, FeedBounds, NEW h \in Handlers, Finish(h),
         \/ UNCHANGED markers
         \/ /\ at[h] = "writing"
            /\ \E i \in Incidents : \E row :
                 markers' = [markers EXCEPT ![i] = row] /\ row.version = markers[i].version + 1,
         \A i \in Incidents : shown'[i] <= begun,
         late' \cup cut' \subseteq Incidents
  PROVE  FeedBounds'
<1>1. /\ at'[h] = Free /\ begun' = begun
      /\ \A g \in Handlers \ {h} : at'[g] = at[g] /\ mem'[g] = mem[g]
  BY HandlerMoves DEF FeedInv, FeedTypes, Finish, Proceed
<1>2. Writing' \subseteq Writing /\ h \notin Writing' /\ (at[h] = "writing" => h \in Writing)
  BY <1>1 DEF Writing, Free
<1>3. /\ IsFiniteSet(Writing') /\ Cardinality(Writing') \in Nat /\ Cardinality(Writing) \in Nat
      /\ Cardinality(Writing') <= Cardinality(Writing)
      /\ at[h] = "writing" => Cardinality(Writing') + 1 <= Cardinality(Writing)
  BY <1>2, Counting DEF FeedBounds
<1>4. ASSUME NEW i \in Incidents PROVE markers'[i].version + Cardinality(Writing') <= begun'
  <2>1. /\ markers[i].version + Cardinality(Writing) <= begun /\ begun \in Nat
        /\ markers[i].version \in Nat /\ markers \in [Incidents -> MarkerRow]
    BY DEF FeedBounds, FeedInv, FeedTypes, MarkerRow
  <2>2. \/ markers'[i] = markers[i]
        \/ at[h] = "writing" /\ markers'[i].version = markers[i].version + 1
    BY <2>1
  <2>. QED
    BY <1>1, <1>3, <2>1, <2>2
<1>5. \A g \in Handlers : at'[g] = "read" => g # h
  BY <1>1 DEF Free
<1>6. \A g \in Handlers : at'[g] = "read" =>
        /\ \A i \in DOMAIN mem'[g].rows : mem'[g].rows[i].version <= begun'
        /\ mem'[g].cut \subseteq Incidents
  BY <1>1, <1>5 DEF FeedBounds
<1>7. begun' \in 0 .. MaxRequests /\ \A i \in Incidents : shown'[i] <= begun'
  BY <1>1 DEF FeedBounds
<1>. QED
  BY <1>3, <1>4, <1>6, <1>7 DEF FeedBounds

(* Every step keeps the versions within their bound. *)
LEMMA FeedBoundsStep ==
  FeedInv /\ FeedBounds /\ [FeedNext]_<<feedState, environment>> => FeedBounds'
<1> SUFFICES ASSUME FeedInv, FeedBounds, [FeedNext]_<<feedState, environment>> PROVE FeedBounds'
  OBVIOUS
<1>1. Registers /\ (\A i \in Incidents : shown[i] <= begun) /\ late \cup cut \subseteq Incidents
  BY DEF FeedInv, FeedTypes, FeedBounds
<1>2. ASSUME FeedTick \/ UNCHANGED <<feedState, environment>> PROVE FeedBounds'
  <2>1. UNCHANGED <<begun, at, mem, feedState>>
    BY <1>2 DEF FeedTick, PassTime, environment, requests
  <2>. QED
    BY <2>1 DEF FeedBounds, Writing, feedState
<1>3. ASSUME ChangeViewport PROVE FeedBounds'
  <2>1. /\ begun < MaxRequests /\ begun' = begun + 1 /\ UNCHANGED <<at, mem, markers, late>>
        /\ shown' = NoMarkers /\ cut' = {} /\ \A h \in Handlers : at[h] # "read"
    BY <1>3 DEF ChangeViewport, Single, Request
  <2>2. Writing' = Writing /\ Cardinality(Writing) \in Nat
    BY <2>1, FS_CardinalityType DEF Writing, FeedBounds
  <2>3. begun \in Nat /\ MaxRequests \in Nat /\ \A i \in Incidents : markers[i].version \in Nat
    BY RequestsAssumption DEF FeedBounds, FeedInv, FeedTypes, MarkerRow
  <2>. QED
    BY <2>1, <2>2, <2>3 DEF FeedBounds, NoMarkers
<1>4. ASSUME NEW h \in Handlers, NEW i \in Incidents, WriteIncident(h, i) PROVE FeedBounds'
  <2>1. Begin(h, "writing", [id |-> i, start |-> now]) /\ UNCHANGED feedState
    BY <1>4 DEF WriteIncident
  <2>. QED
    BY <2>1, FeedBegins
<1>5. ASSUME NEW h \in Handlers, CommitIncident(h) PROVE FeedBounds'
  <2> DEFINE i == mem[h].id
  <2>1. /\ at[h] = "writing" /\ Finish(h) /\ UNCHANGED <<shown, cut>>
        /\ late' \subseteq late \cup {i} /\ i \in Incidents
        /\ \/ markers' = markers
           \/ \E written \in Written(i, mem[h].start) : markers' = [markers EXCEPT ![i] = written]
    BY <1>5 DEF CommitIncident, FeedInv, FeedTypes
  <2>2. \A written \in Written(i, mem[h].start) : written.version = markers[i].version + 1
    BY DEF Written
  <2>. QED
    BY <1>1, <2>1, <2>2, FeedEnds
<1>6. ASSUME NEW h \in Handlers, FindMarkers(h) PROVE FeedBounds'
  <2>1. PICK answer \in Newest(Matching(cursor)) :
          Begin(h, "read", [rows |-> [i \in answer |-> markers[i]],
                            cut |-> Matching(cursor) \ answer, start |-> now])
    BY <1>6 DEF FindMarkers
  <2>2. answer \subseteq Incidents /\ Matching(cursor) \subseteq Incidents
    BY DEF Newest, Matching
  <2>3. \A i \in Incidents : markers[i].version <= begun + 1
    <3> SUFFICES ASSUME NEW i \in Incidents PROVE markers[i].version <= begun + 1
      OBVIOUS
    <3>1. /\ markers[i].version + Cardinality(Writing) <= begun /\ Cardinality(Writing) \in Nat
          /\ begun \in Nat /\ markers[i].version \in Nat
      BY FS_CardinalityType DEF FeedBounds, FeedInv, FeedTypes, MarkerRow
    <3>. QED
      BY <3>1
  <2> DEFINE memory == [rows |-> [i \in answer |-> markers[i]],
                        cut |-> Matching(cursor) \ answer, start |-> now]
  <2>4. /\ \A i \in DOMAIN memory.rows : memory.rows[i].version <= begun + 1
        /\ memory.cut \subseteq Incidents
    BY <2>2, <2>3
  <2>5. Begin(h, "read", memory) /\ UNCHANGED feedState
    BY <1>6, <2>1 DEF FindMarkers
  <2> HIDE DEF memory
  <2>. QED
    BY <2>4, <2>5, FeedBegins
<1>7. ASSUME NEW h \in Handlers, GetFeed(h) \/ FeedFails(h) PROVE FeedBounds'
  <2>1. at[h] = "read" /\ Finish(h) /\ UNCHANGED <<markers, late>>
    BY <1>7 DEF GetFeed, FeedFails, feedState
  <2>2. /\ \A i \in DOMAIN mem[h].rows : mem[h].rows[i].version <= begun
        /\ mem[h].cut \subseteq Incidents /\ begun \in Nat
    BY <2>1 DEF FeedBounds
  <2>3. cut' \subseteq cut \cup mem[h].cut
    BY <1>7 DEF GetFeed, FeedFails, feedState
  <2>4. \A i \in Incidents : shown'[i] <= begun
    <3>1. CASE GetFeed(h)
      <4>1. \A i \in Incidents :
              shown'[i] \in {shown[i], 0} \cup (IF i \in DOMAIN mem[h].rows THEN {mem[h].rows[i].version} ELSE {})
        BY <3>1 DEF GetFeed
      <4>. QED
        BY <1>1, <2>2, <4>1
    <3>2. CASE FeedFails(h)
      BY <1>1, <3>2 DEF FeedFails, feedState
    <3>. QED
      BY <1>7, <3>1, <3>2
  <2>. QED
    BY <1>1, <2>1, <2>2, <2>3, <2>4, FeedEnds
<1>. QED
  BY <1>2, <1>3, <1>4, <1>5, <1>6, <1>7 DEF FeedNext

(***************************************************************************)
(* PagedLists.                                                             *)
(***************************************************************************)

ListRow == [status : {"ABSENT", "ACTIVE", "ENDED"}, fits : BOOLEAN, from : Int, expires : Int,
            updated : Int]

PagesTypes ==
  /\ Registers
  /\ list \in Lists
  /\ rows \in [Items -> ListRow]
  /\ page \in Nat

\* The rows before the next page that stayed where they were have been read.
ReadUpTo ==
  page # 0 => \A i \in Items :
    Listed(i) /\ Rank(i) < (page - 1) * PageSize => i \in seen \cup moved

\* Between the count and the query of the last page, the count covers the rows
\* that stayed where they were.
CountCovers ==
  \A h \in Handlers : at[h] = "counted" =>
    /\ page # 0 /\ \A g \in Handlers \ {h} : at[g] # "counted"
    /\ mem[h].total \in Nat
    /\ ~MorePages(mem[h].total) =>
         \A i \in Items : Listed(i) => i \in moved \/ Rank(i) < mem[h].total

PagesInv == PagesTypes /\ ReadUpTo /\ CountCovers /\ WalkComplete

(* A rank is a number. *)
LEMMA RankType == \A i : Rank(i) \in Nat /\ Rank(i)' \in Nat
<1> TAKE i
<1>1. {j \in Items : Listed(j) /\ Before(j, i)} \subseteq Items
  OBVIOUS
<1>2. {j \in Items : Listed(j)' /\ Before(j, i)'} \subseteq Items
  OBVIOUS
<1>3. Cardinality({j \in Items : Listed(j) /\ Before(j, i)}) \in Nat
  BY <1>1, PageAssumption, FS_Subset, FS_CardinalityType
<1>4. Cardinality({j \in Items : Listed(j)' /\ Before(j, i)'}) \in Nat
  BY <1>2, PageAssumption, FS_Subset, FS_CardinalityType
<1>. QED
  BY <1>3, <1>4, Zenon DEF Rank

(* No row is before itself. *)
LEMMA NotBeforeItself ==
  ASSUME PagesTypes, NEW i \in Items
  PROVE  ~Before(i, i)
<1> DEFINE k == Key(rows[i])
<1>1. k[1] \in Int /\ k[2] \in Int
  BY DEF Key, PagesTypes, Lists, ListRow
<1>2. i \in Int
  BY PageAssumption
<1>. QED
  BY <1>1, <1>2 DEF Before

(* Fewer rows come before one of the list than the list has. *)
LEMMA RankBound ==
  ASSUME PagesTypes, NEW i \in Items, Listed(i)
  PROVE  Rank(i) < Cardinality({j \in Items : Listed(j)})
<1> DEFINE all == {j \in Items : Listed(j)}
           before == {j \in Items : Listed(j) /\ Before(j, i)}
<1>1. before \subseteq all /\ all \subseteq Items /\ i \in all /\ i \notin before
  BY NotBeforeItself
<1>2. IsFiniteSet(all)
  BY <1>1, PageAssumption, FS_Subset
<1>3. /\ Cardinality(before) <= Cardinality(all)
      /\ Cardinality(before) # Cardinality(all)
  BY <1>1, <1>2, FS_Subset
<1>4. Cardinality(before) \in Nat /\ Cardinality(all) \in Nat
  BY <1>1, <1>2, FS_Subset, FS_CardinalityType
<1>5. Rank(i) = Cardinality(before)
  BY DEF Rank
<1> HIDE DEF all, before
<1>6. Cardinality(before) < Cardinality(all)
  BY <1>3, <1>4
<1>. QED
  BY <1>5, <1>6 DEF all

(* The first page is to be read. *)
LEMMA PagesStarts == EnvironmentInit /\ PagesInit => PagesInv
<1> SUFFICES ASSUME EnvironmentInit, PagesInit PROVE PagesInv
  OBVIOUS
<1>1. Registers /\ \A h \in Handlers : at[h] = Free
  BY RegistersStart
<1>2. PagesTypes
  <2>1. Absent \in ListRow
    BY DEF Absent, ListRow, NULL
  <2>2. Present \in ListRow
    BY <2>1 DEF Present, ListRow
  <2>. QED
    BY <1>1, <2>1, <2>2 DEF PagesTypes, PagesInit
<1>3. ReadUpTo
  BY PageAssumption, RankType DEF ReadUpTo, PagesInit
<1>4. CountCovers /\ WalkComplete
  BY <1>1 DEF CountCovers, WalkComplete, PagesInit, Free
<1>. QED
  BY <1>2, <1>3, <1>4 DEF PagesInv

(* A step that changes rows, or lets time pass, counts the rows that moved. *)
LEMMA MovedCounts ==
  ASSUME PagesInv, PagesTypes', page # 0, UNCHANGED <<list, page, seen, at, mem>>,
         moved' = moved \cup Moved
  PROVE  PagesInv'
<1>1. ASSUME NEW i \in Items, Listed(i)', i \notin moved'
      PROVE  /\ Listed(i) /\ i \notin moved /\ Rank(i)' >= Rank(i)
             /\ CountedLast => Rank(i)' <= Rank(i)
  BY <1>1, RankType DEF Moved
<1>2. ReadUpTo'
  <2>1. (page - 1) * PageSize \in Int
    BY PageAssumption DEF PagesInv, PagesTypes
  <2>2. (page' - 1) * PageSize = (page - 1) * PageSize
    OBVIOUS
  <2>. QED
    BY <1>1, <2>1, <2>2, RankType DEF ReadUpTo, PagesInv
<1>3. CountCovers'
  <2> SUFFICES ASSUME NEW h \in Handlers, at'[h] = "counted"
               PROVE  /\ page' # 0 /\ \A g \in Handlers \ {h} : at'[g] # "counted"
                      /\ mem'[h].total \in Nat
                      /\ ~MorePages(mem[h].total)' =>
                           \A i \in Items : Listed(i)' => i \in moved' \/ Rank(i)' < mem'[h].total
    BY DEF CountCovers
  <2>1. /\ at[h] = "counted" /\ mem'[h] = mem[h] /\ mem[h].total \in Nat
        /\ \A g \in Handlers \ {h} : at'[g] # "counted"
        /\ ~MorePages(mem[h].total) =>
             \A i \in Items : Listed(i) => i \in moved \/ Rank(i) < mem[h].total
    BY DEF PagesInv, CountCovers
  <2>2. MorePages(mem[h].total)' <=> MorePages(mem[h].total)
    BY <2>1 DEF MorePages
  <2>3. ~MorePages(mem[h].total) => CountedLast
    BY <2>1 DEF CountedLast
  <2>4. ASSUME ~MorePages(mem[h].total), NEW i \in Items, Listed(i)', i \notin moved'
        PROVE  Rank(i)' < mem[h].total
    BY <1>1, <2>1, <2>3, <2>4, RankType
  <2>. QED
    BY <2>1, <2>2, <2>4
<1>4. WalkComplete'
  BY DEF WalkComplete
<1>. QED
  BY <1>2, <1>3, <1>4 DEF PagesInv

(* What a statement writes is a row. *)
LEMMA RewrittenType ==
  ASSUME PagesTypes, NEW i \in Items, NEW r \in Rewritten(rows[i])
  PROVE  r \in ListRow
<1>1. rows[i] \in ListRow /\ now \in Int /\ now + 1 \in Int /\ NULL \in Int
  BY RequestsAssumption DEF PagesTypes, Registers, Times, NULL
<1>2. Absent \in ListRow /\ Present \in ListRow
  <2>1. Absent \in ListRow
    BY DEF Absent, ListRow, NULL
  <2>. QED
    BY <2>1 DEF Present, ListRow
<1> DEFINE row == rows[i]
<1>3. CASE list.of = "incidents"
  <2> DEFINE ended == [row EXCEPT !.status = "ENDED", !.expires = NULL, !.updated = now]
             unfit == [row EXCEPT !.status = "ACTIVE", !.fits = FALSE, !.expires = NULL,
                                  !.updated = now]
             fit(e) == [row EXCEPT !.status = "ACTIVE", !.fits = TRUE, !.expires = e,
                                   !.updated = now]
  <2>1. Rewritten(row) = {ended, unfit} \cup {fit(e) : e \in {NULL, now + 1}}
    BY <1>3 DEF Rewritten
  <2>2. ended \in ListRow
    BY <1>1 DEF ListRow
  <2>3. unfit \in ListRow
    BY <1>1 DEF ListRow
  <2>4. ASSUME NEW e \in Int PROVE fit(e) \in ListRow
    BY <1>1 DEF ListRow
  <2> HIDE DEF ended, unfit, fit
  <2>. QED
    BY <1>1, <2>1, <2>2, <2>3, <2>4
<1>4. CASE list.of = "warnings"
  <2>1. \E s \in {"ACTIVE", "ENDED"}, t \in {now, now + 1} :
          r = [row EXCEPT !.status = s, !.from = t, !.expires = NULL, !.updated = now]
    BY <1>4 DEF Rewritten
  <2>. QED
    BY <1>1, <2>1 DEF ListRow
<1>5. CASE list.of = "alerts"
  BY <1>1, <1>2, <1>5 DEF Rewritten, ListRow
<1>6. CASE list.of = "places"
  <2>1. r = Absent \/ \E s \in {"ACTIVE", "ENDED"} : r = [row EXCEPT !.status = s, !.updated = now]
    BY <1>6 DEF Rewritten
  <2>. QED
    BY <1>1, <1>2, <2>1 DEF ListRow
<1>. QED
  BY <1>3, <1>4, <1>5, <1>6 DEF PagesTypes, Lists

(* Every step keeps the invariant. *)
LEMMA PagesStep == PagesInv /\ [PagesNext]_<<pageState, environment>> => PagesInv'
<1> SUFFICES ASSUME PagesInv, [PagesNext]_<<pageState, environment>> PROVE PagesInv'
  OBVIOUS
<1>1. PagesTypes /\ ReadUpTo /\ CountCovers /\ WalkComplete /\ Registers
  BY DEF PagesInv, PagesTypes
<1>2. CASE UNCHANGED <<pageState, environment>>
  <2>1. /\ \A i : Listed(i)' <=> Listed(i)
        /\ \A i : Rank(i)' = Rank(i)
        /\ UNCHANGED <<now, at, mem, list, rows, page, seen, moved>>
    BY <1>2 DEF Listed, Rank, InForce, Before, Key, pageState, environment, requests
  <2>2. PagesTypes'
    BY <1>1, <2>1 DEF PagesTypes, Registers
  <2>. QED
    BY <1>1, <2>1, <2>2 DEF PagesInv, ReadUpTo, CountCovers, WalkComplete, MorePages
<1>3. CASE PagesTick
  <2>1. PagesTypes'
    BY <1>1, <1>3, ClockMoves DEF PagesTick, PagesTypes
  <2>2. page # 0 /\ UNCHANGED <<list, page, seen, at, mem>> /\ moved' = moved \cup Moved
    BY <1>3 DEF PagesTick, PassTime, requests
  <2>. QED
    BY <2>1, <2>2, MovedCounts
<1>4. ASSUME NEW i \in Items, Rewrite(i) PROVE PagesInv'
  <2>1. PICK r \in Rewritten(rows[i]) : rows' = [rows EXCEPT ![i] = r]
    BY <1>4 DEF Rewrite
  <2>2. page # 0 /\ UNCHANGED <<now, list, page, seen, at, mem>> /\ moved' = moved \cup Moved
    BY <1>4 DEF Rewrite, Single
  <2>3. PagesTypes'
    BY <1>1, <2>1, <2>2, RewrittenType DEF PagesTypes, Registers
  <2>. QED
    BY <2>2, <2>3, MovedCounts
<1>5. ASSUME NEW h \in Handlers, CountRows(h) PROVE PagesInv'
  <2> DEFINE all == {i \in Items : Listed(i)}
             memory == [total |-> Cardinality(all)]
  <2>1. /\ Registers' /\ at'[h] = "counted" /\ mem'[h] = memory /\ now' = now
        /\ \A g \in Handlers \ {h} : at'[g] = at[g] /\ mem'[g] = mem[g]
        /\ page # 0 /\ UNCHANGED <<list, rows, page, seen, moved>>
        /\ \A g \in Handlers : at[g] = Free
    BY <1>1, <1>5, HandlerMoves DEF CountRows, pageState
  <2>2. Cardinality(all) \in Nat
    BY PageAssumption, FS_Subset, FS_CardinalityType
  <2>3. /\ \A i : Listed(i)' <=> Listed(i)
        /\ \A i : Rank(i)' = Rank(i)
    BY <2>1 DEF Listed, Rank, InForce, Before, Key
  <2>4. PagesTypes'
    BY <1>1, <2>1 DEF PagesTypes
  <2>5. ReadUpTo' /\ WalkComplete'
    BY <1>1, <2>1, <2>3 DEF ReadUpTo, WalkComplete
  <2>6. CountCovers'
    <3>1. \A i \in Items : Listed(i) => Rank(i) < Cardinality(all)
      BY <1>1, RankBound
    <3> HIDE DEF all
    <3>. QED
      BY <2>1, <2>2, <2>3, <3>1 DEF CountCovers, Free
  <2>. QED
    BY <2>4, <2>5, <2>6 DEF PagesInv
<1>6. ASSUME NEW h \in Handlers, FindMany(h) PROVE PagesInv'
  <2> DEFINE total == mem[h].total
             first == (page - 1) * PageSize
             next == page * PageSize
  <2>1. /\ Registers' /\ at'[h] = Free /\ now' = now /\ at[h] = "counted"
        /\ \A g \in Handlers \ {h} : at'[g] = at[g] /\ mem'[g] = mem[g]
        /\ UNCHANGED <<list, rows, moved>>
        /\ seen' = seen \cup {i \in Items : Listed(i) /\ Rank(i) \in first .. next - 1}
        /\ page' = IF MorePages(total) THEN page + 1 ELSE 0
    BY <1>1, <1>6, HandlerMoves DEF FindMany, Finish
  <2>2. /\ page # 0 /\ total \in Nat
        /\ \A g \in Handlers \ {h} : at[g] # "counted"
        /\ ~MorePages(total) => \A i \in Items : Listed(i) => i \in moved \/ Rank(i) < total
        /\ \A i \in Items : Listed(i) /\ Rank(i) < first => i \in seen \cup moved
    BY <1>1, <2>1 DEF CountCovers, ReadUpTo
  <2>3. /\ \A i : Listed(i)' <=> Listed(i)
        /\ \A i : Rank(i)' = Rank(i)
    BY <2>1 DEF Listed, Rank, InForce, Before, Key
  <2>4. PagesTypes'
    BY <1>1, <2>1 DEF PagesTypes
  <2>5. CountCovers'
    BY <2>1, <2>2 DEF CountCovers, Free
  <2>6. first \in Int /\ next \in Int
    BY <1>1, PageAssumption DEF PagesTypes
  <2>7. \A i \in Items : Listed(i) /\ Rank(i) < next => i \in seen' \cup moved
    <3> SUFFICES ASSUME NEW i \in Items, Listed(i), Rank(i) < next PROVE i \in seen' \cup moved
      OBVIOUS
    <3> HIDE DEF first, next
    <3>1. CASE Rank(i) < first
      BY <2>1, <2>2, <3>1
    <3>2. CASE ~ (Rank(i) < first)
      <4>1. Rank(i) \in first .. next - 1
        BY <2>6, <3>2, RankType
      <4>. QED
        BY <2>1, <4>1
    <3>. QED
      BY <3>1, <3>2
  <2>8. CASE MorePages(total)
    <3>1. page' - 1 = page /\ page' # 0
      BY <1>1, <2>1, <2>8 DEF PagesTypes
    <3>2. (page' - 1) * PageSize = next
      BY <3>1, Zenon
    <3>3. ReadUpTo'
      BY <2>1, <2>3, <2>7, <3>2 DEF ReadUpTo
    <3>4. WalkComplete'
      BY <3>1 DEF WalkComplete
    <3>. QED
      BY <2>4, <2>5, <3>3, <3>4 DEF PagesInv
  <2>9. CASE ~MorePages(total)
    <3>1. ~ (next < total)
      BY <2>9 DEF MorePages
    <3> HIDE DEF first, next, total
    <3>2. \A i \in Items : Listed(i) => i \in moved \/ Rank(i) < next
      BY <2>2, <2>6, <2>9, <3>1, RankType
    <3>3. WalkComplete'
      BY <2>1, <2>3, <2>7, <3>2 DEF WalkComplete
    <3>4. ReadUpTo'
      BY <2>1, <2>9 DEF ReadUpTo
    <3>. QED
      BY <2>4, <2>5, <3>3, <3>4 DEF PagesInv
  <2>. QED
    BY <2>8, <2>9
<1>. QED
  BY <1>2, <1>3, <1>4, <1>5, <1>6 DEF PagesNext

\* A request precedes every page but the first, and the row's time is a time.
PagesBounds ==
  /\ begun \in 0 .. MaxRequests
  /\ page <= begun + 1
  /\ \A h \in Handlers : at[h] = "counted" => page <= begun
  /\ \A i \in Items : rows[i].updated \in Times
  /\ seen \cup moved \subseteq Items

(* With the invariant, the bounds are the type the runs check. *)
LEMMA PagesTypeCorrect == PagesInv /\ PagesBounds => PagesTypeOK
<1> SUFFICES ASSUME PagesInv, PagesBounds PROVE PagesTypeOK
  OBVIOUS
<1>1. list \in Lists /\ page \in Nat /\ \A i \in Items : rows[i] \in ListRow
  BY DEF PagesInv, PagesTypes
<1>2. page \in 0 .. MaxRequests + 1
  BY <1>1, RequestsAssumption DEF PagesBounds
<1>. QED
  BY <1>1, <1>2 DEF PagesTypeOK, PagesBounds, ListRow

(* The first page takes no request. *)
LEMMA PagesBoundsStart == EnvironmentInit /\ PagesInit => PagesBounds
<1> SUFFICES ASSUME EnvironmentInit, PagesInit PROVE PagesBounds
  OBVIOUS
<1>1. begun = 0 /\ page = 1 /\ seen = {} /\ moved = {} /\ \A h \in Handlers : at[h] # "counted"
  BY RegistersStart DEF EnvironmentInit, PagesInit, Free
<1>2. \A i \in Items : rows[i].updated = 0
  BY DEF PagesInit, Absent, Present
<1>. QED
  BY <1>1, <1>2, RequestsAssumption DEF PagesBounds, Times

(* What a statement writes carries the time, or none. *)
LEMMA RewrittenTime ==
  ASSUME PagesTypes, NEW i \in Items, NEW r \in Rewritten(rows[i])
  PROVE  r.updated \in {rows[i].updated, now, 0}
<1>1. rows[i] \in ListRow
  BY DEF PagesTypes
<1>2. Absent.updated = 0 /\ Present.updated = 0
  BY DEF Absent, Present
<1> DEFINE row == rows[i]
<1>3. CASE list.of = "incidents"
  <2>1. \/ r = [row EXCEPT !.status = "ENDED", !.expires = NULL, !.updated = now]
        \/ r = [row EXCEPT !.status = "ACTIVE", !.fits = FALSE, !.expires = NULL, !.updated = now]
        \/ \E e \in {NULL, now + 1} :
             r = [row EXCEPT !.status = "ACTIVE", !.fits = TRUE, !.expires = e, !.updated = now]
    BY <1>3 DEF Rewritten
  <2>. QED
    BY <1>1, <2>1 DEF ListRow
<1>4. CASE list.of = "warnings"
  <2>1. \E s \in {"ACTIVE", "ENDED"}, t \in {now, now + 1} :
          r = [row EXCEPT !.status = s, !.from = t, !.expires = NULL, !.updated = now]
    BY <1>4 DEF Rewritten
  <2>. QED
    BY <1>1, <2>1 DEF ListRow
<1>5. CASE list.of = "alerts"
  <2>1. r = [Present EXCEPT !.from = now] \/ r = [row EXCEPT !.status = "ENDED"]
    BY <1>5 DEF Rewritten
  <2>. QED
    BY <1>1, <1>2, <2>1 DEF ListRow, Present, Absent
<1>6. CASE list.of = "places"
  <2>1. r = Absent \/ \E s \in {"ACTIVE", "ENDED"} : r = [row EXCEPT !.status = s, !.updated = now]
    BY <1>6 DEF Rewritten
  <2>. QED
    BY <1>1, <1>2, <2>1 DEF ListRow
<1>. QED
  BY <1>3, <1>4, <1>5, <1>6 DEF PagesTypes, Lists

(* A page is read after its count, which is a request. *)
LEMMA PagesBoundsStep ==
  PagesInv /\ PagesBounds /\ [PagesNext]_<<pageState, environment>> => PagesBounds'
<1> SUFFICES ASSUME PagesInv, PagesBounds, [PagesNext]_<<pageState, environment>>
             PROVE  PagesBounds'
  OBVIOUS
<1>1. /\ begun \in Nat /\ begun <= MaxRequests /\ MaxRequests \in Nat /\ 0 \in Times
      /\ page \in Nat /\ page <= begun + 1
      /\ \A h \in Handlers : at[h] = "counted" => page <= begun
      /\ \A i \in Items : rows[i].updated \in Times
      /\ seen \cup moved \subseteq Items
      /\ Registers /\ now \in Times /\ PagesTypes /\ Moved \subseteq Items
  BY RequestsAssumption DEF PagesBounds, PagesInv, PagesTypes, Registers, Times, Moved
<1>2. CASE UNCHANGED <<pageState, environment>>
  BY <1>2 DEF PagesBounds, pageState, environment, requests
<1>3. CASE PagesTick
  <2>1. UNCHANGED <<rows, page, seen, begun, at>> /\ moved' = moved \cup Moved
    BY <1>3 DEF PagesTick, PassTime, requests
  <2>. QED
    BY <1>1, <2>1 DEF PagesBounds
<1>4. ASSUME NEW i \in Items, Rewrite(i) PROVE PagesBounds'
  <2>1. PICK r \in Rewritten(rows[i]) : rows' = [rows EXCEPT ![i] = r]
    BY <1>4 DEF Rewrite
  <2>2. /\ begun' = begun + 1 /\ begun < MaxRequests
        /\ UNCHANGED <<page, seen, at>> /\ moved' = moved \cup Moved
    BY <1>4 DEF Rewrite, Single, Request
  <2>3. r.updated \in Times
    BY <1>1, RewrittenTime
  <2>4. \A j \in Items : rows'[j].updated \in Times
    BY <1>1, <2>1, <2>3 DEF PagesTypes
  <2>5. \A h \in Handlers : at'[h] = "counted" => page' <= begun'
    BY <1>1, <2>2
  <2>6. begun' \in 0 .. MaxRequests /\ page' <= begun' + 1
    BY <1>1, <2>2
  <2>. QED
    BY <1>1, <2>2, <2>4, <2>5, <2>6 DEF PagesBounds
<1>5. ASSUME NEW h \in Handlers, CountRows(h) PROVE PagesBounds'
  <2>1. /\ begun' = begun + 1 /\ begun < MaxRequests /\ UNCHANGED <<rows, page, seen, moved>>
    BY <1>5 DEF CountRows, Begin, Request, pageState
  <2>2. begun' \in 0 .. MaxRequests /\ page' <= begun' /\ page' <= begun' + 1
    BY <1>1, <2>1
  <2>. QED
    BY <1>1, <2>1, <2>2 DEF PagesBounds
<1>6. ASSUME NEW h \in Handlers, FindMany(h) PROVE PagesBounds'
  <2>1. /\ at'[h] = Free /\ at[h] = "counted" /\ page' \in {0, page + 1}
        /\ \A g \in Handlers \ {h} : at'[g] = at[g]
        /\ UNCHANGED <<rows, moved>>
    BY <1>1, <1>6, HandlerMoves DEF FindMany, Finish
  <2>2. begun' = begun /\ seen' \subseteq seen \cup Items
    BY <1>6 DEF FindMany, Finish, Proceed
  <2>3. \A g \in Handlers : at'[g] # "counted"
    BY <2>1 DEF PagesInv, CountCovers, Free
  <2>4. page' <= begun' + 1
    BY <1>1, <2>1, <2>2
  <2>. QED
    BY <1>1, <2>1, <2>2, <2>3, <2>4 DEF PagesBounds
<1>. QED
  BY <1>2, <1>3, <1>4, <1>5, <1>6 DEF PagesNext

(* For any rows, page size, and changes between the statements: a walk that *)
(* is done has read the rows of the list, but for those the module names.  *)
THEOREM WalksAreComplete ==
  EnvironmentInit /\ PagesInit /\ [][PagesNext]_<<pageState, environment>> => []WalkComplete
<1>1. PagesInv => WalkComplete
  BY DEF PagesInv
<1>. QED
  BY PagesStarts, PagesStep, <1>1, PTL
=============================================================================
