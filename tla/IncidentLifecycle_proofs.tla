---------------------- MODULE IncidentLifecycle_proofs ----------------------
(***************************************************************************)
(* Proofs about IncidentLifecycle for any users, processors, editors,      *)
(* windows and bounds.                                                     *)
(***************************************************************************)
EXTENDS IncidentLifecycle, FiniteSetTheorems, WellFoundedInduction, TLAPS

USE UsersAssumption, DatesAssumption, WindowsAssumption, BoundsAssumption,
    AttemptsAssumption, FaultsAssumption

Names == {"idle", "extend", "read", "write", "notify"}
Edits == {<<>>} \cup (IncidentStatus \X ({KEEP, NULL} \cup Dates))

(* The type invariant by the groups of variables that change together. *)
RowOK ==
  /\ now \in Times /\ source \in {"COMMUNITY", "OFFICIAL"} /\ status \in IncidentStatus
  /\ expiresAt \in Nat \cup {NULL} /\ count \in Nat
  /\ lastConfirmed \in Times \cup {NULL} /\ confidence \in Nat \X Nat
SignsOK ==
  /\ reports \in Nat /\ lastReport \in Times \cup {NULL}
  /\ confirmedAt \in [Users -> Times \cup {NULL}]
ClientsOK ==
  /\ confirming \in [Users -> {"idle", "locked", "written"}]
  /\ tally \in [Users -> Nat \X Times] /\ reporting \subseteq Users
  /\ editing \in [Editors -> Edits] /\ updates \in 0 .. MaxUpdates
JobsOK ==
  /\ waiting \in [Jobs -> Nat] /\ step \in [Workers -> Names]
  /\ job \in [Workers -> Jobs] /\ evidence \in [Workers -> Nat \X Nat]

(* The groups make up TypeOK. *)
LEMMA TypeGroups == TypeOK <=> RowOK /\ SignsOK /\ ClientsOK /\ JobsOK
BY DEF TypeOK, RowOK, SignsOK, ClientsOK, JobsOK, Names, Edits

TypeInv == RowOK /\ SignsOK /\ ClientsOK /\ JobsOK

(* Initially everything has its type. *)
LEMMA TypeInit == Init => TypeInv
<1> SUFFICES ASSUME Init PROVE TypeInv
  OBVIOUS
<1>1. reports \in Nat /\ NoJob \in Jobs /\ NoEvidence \in Nat \X Nat
  BY DEF Init, NoJob, NoEvidence, Jobs, Kinds
<1>2. RowOK /\ SignsOK
  <2>1. 0 \in Times /\ NULL \in Times \cup {NULL}
    BY DEF Times
  <2>2. expiresAt \in Nat \cup {NULL} /\ lastReport \in Times \cup {NULL}
    <3>1. CASE source = "COMMUNITY"
      BY <2>1, <3>1 DEF Init
    <3>2. CASE source # "COMMUNITY"
      BY <3>2 DEF Init
    <3>. QED
      BY <3>1, <3>2
  <2>. QED
    BY <1>1, <2>1, <2>2 DEF Init, RowOK, SignsOK, IncidentStatus
<1>3. ClientsOK
  BY DEF Init, ClientsOK, Times, Edits
<1>4. JobsOK
  BY <1>1 DEF Init, JobsOK, Names
<1>. QED
  BY <1>2, <1>3, <1>4 DEF TypeInv

(* The newest confirmation exists: the least bound of them is attained. *)
LEMMA NewestIsBound ==
  ASSUME SignsOK
  PROVE  /\ Newest \in Times \cup {NULL} /\ \A u \in Users : confirmedAt[u] <= Newest
         /\ Newest = NULL \/ \E u \in Users : confirmedAt[u] = Newest
<1> DEFINE S == {t \in Nat : \A u \in Users : confirmedAt[u] + 1 <= t}
<1>1. MaxTime + 1 \in S
  BY DEF SignsOK, Times, NULL
<1>2. PICK t \in S : \A v \in S : ~ (<<v, t>> \in OpToRel(<, Nat))
  BY <1>1, NatLessThanWellFounded, WFMin
<1>3. \A v \in S : <<v, t>> \in Nat \X Nat /\ <<v, t>>[1] = v /\ <<v, t>>[2] = t
  OBVIOUS
<1>4. \A v \in S : ~ (v < t)
  BY <1>2, <1>3, Zenon DEF OpToRel
<1>5. t - 1 \in Times \cup {NULL}
  BY <1>1, <1>4 DEF Times, NULL
<1>6. \A u \in Users : confirmedAt[u] <= t - 1
  BY DEF SignsOK, Times, NULL
<1>7. t - 1 = NULL \/ \E u \in Users : confirmedAt[u] = t - 1
  <2> SUFFICES ASSUME t - 1 # NULL, \A u \in Users : confirmedAt[u] # t - 1 PROVE FALSE
    OBVIOUS
  <2>1. t - 1 \in S
    BY <1>6 DEF SignsOK, Times, NULL
  <2>. QED
    BY <1>4, <2>1
<1>. QED
  BY <1>5, <1>6, <1>7 DEF Newest

(* The number of users who confirmed is a number. *)
LEMMA ConfirmedFinite == \A S \in SUBSET Users : IsFiniteSet(S) /\ Cardinality(S) \in Nat
BY FS_Subset, FS_CardinalityType

(* The steps of confirmations and reports. *)
LEMMA TypeClients ==
  ASSUME TypeInv,
         \/ Tick \/ RequestRecalculation
         \/ \E u \in Users : Confirm(u) \/ ConfirmRollback(u) \/ FindCompatible(u) \/ AttachReport(u)
         \/ \E k \in Kinds : AddLost(k)
  PROVE  TypeInv'
<1> USE DEF TypeInv, RowOK, SignsOK, ClientsOK, JobsOK, incident, rows, clients, workers
<1>0. \A k \in Kinds : <<k, 0>> \in Jobs
  BY DEF Jobs
<1>1. CASE Tick
  BY <1>1 DEF Tick, Times
<1>2. CASE RequestRecalculation
  BY <1>0, <1>2 DEF RequestRecalculation, Kinds
<1>3. ASSUME NEW u \in Users, ConfirmLock(u) PROVE TypeInv'
  BY <1>3 DEF ConfirmLock
<1>4. ASSUME NEW u \in Users, ConfirmAggregate(u) PROVE TypeInv'
  <2>1. Cardinality(Confirmed \cup {u}) \in Nat
    BY ConfirmedFinite DEF Confirmed
  <2>2. Greater(now, Newest) \in Times
    BY NewestIsBound DEF Greater, Times, NULL
  <2>. QED
    BY <1>4, <2>1, <2>2 DEF ConfirmAggregate
<1>5. ASSUME NEW u \in Users, ConfirmCommit(u) PROVE TypeInv'
  <2>1. tally[u][1] \in Nat /\ tally[u][2] \in Times /\ <<0, 0>> \in Nat \X Times
    BY DEF Times
  <2>2. waiting' = [waiting EXCEPT ![<<"confirmation", 0>>] = @ + 1]
    BY <1>5 DEF ConfirmCommit
  <2>3. waiting' \in [Jobs -> Nat]
    BY <1>0, <2>2 DEF Kinds
  <2>. QED
    BY <1>5, <2>1, <2>3 DEF ConfirmCommit
<1>6. ASSUME NEW u \in Users, ConfirmRollback(u) PROVE TypeInv'
  BY <1>6 DEF ConfirmRollback, Times
<1>7. ASSUME NEW u \in Users, FindCompatible(u) PROVE TypeInv'
  BY <1>7 DEF FindCompatible
<1>8. ASSUME NEW u \in Users, AttachReport(u) PROVE TypeInv'
  BY <1>0, <1>8 DEF AttachReport, Kinds
<1>9. ASSUME NEW k \in Kinds, AddLost(k) PROVE TypeInv'
  BY <1>0, <1>9 DEF AddLost
<1>. QED
  BY <1>1, <1>2, <1>3, <1>4, <1>5, <1>6, <1>7, <1>8, <1>9 DEF Confirm

(* A job that throws is put back, among the jobs there are, or dropped. *)
LEMMA Returned ==
  ASSUME TypeInv, NEW w \in Workers, GiveBack(w)
  PROVE  /\ waiting' \in [Jobs -> Nat]
         /\ waiting' = waiting \/ \E j \in Jobs : waiting' = [waiting EXCEPT ![j] = @ + 1]
<1> DEFINE again == <<job[w][1], job[w][2] + 1>>
<1>1. CASE job[w][2] + 1 < MaxAttempts
  <2>1. again \in Jobs /\ waiting' = [waiting EXCEPT ![again] = @ + 1]
    BY <1>1 DEF Jobs, GiveBack, TypeInv, JobsOK
  <2>2. waiting' \in [Jobs -> Nat]
    BY <2>1 DEF TypeInv, JobsOK
  <2>. QED
    BY <2>1, <2>2
<1>2. CASE ~(job[w][2] + 1 < MaxAttempts)
  BY <1>2 DEF GiveBack, TypeInv, JobsOK
<1>. QED
  BY <1>1, <1>2

(* The steps of the jobs, the sweep and updateIncident. *)
LEMMA TypeServer ==
  ASSUME TypeInv,
         \/ \E w \in Workers : Process(w) \/ JobThrows(w) \/ \E j \in Jobs : TakeJob(w, j)
         \/ Sweep
         \/ \E e \in Editors : WriteUpdate(e) \/ \E c \in Commands : CheckUpdate(e, c)
  PROVE  TypeInv'
<1> USE DEF TypeInv, RowOK, SignsOK, ClientsOK, JobsOK, incident, rows, clients, workers
<1>0. NoJob \in Jobs /\ NoEvidence \in Nat \X Nat
  BY DEF NoJob, NoEvidence, Jobs, Kinds
<1>1. ASSUME NEW w \in Workers, NEW j \in Jobs, TakeJob(w, j) PROVE TypeInv'
  BY <1>1 DEF TakeJob, Names
<1>2. ASSUME NEW w \in Workers, ExtendWindow(w) PROVE TypeInv'
  <2>1. NewExpiry(job[w][1]) \in Nat
    BY DEF NewExpiry, Greater, Coalesce, Hours, Times, NULL
  <2>. QED
    BY <1>2, <2>1 DEF ExtendWindow, Names
<1>3. ASSUME NEW w \in Workers, GetEvidence(w) PROVE TypeInv'
  <2>1. Evidence \in Nat \X Nat
    BY ConfirmedFinite DEF Evidence, Confirmed
  <2>. QED
    BY <1>3, <2>1 DEF GetEvidence, Names
<1>4. ASSUME NEW w \in Workers, UpdateConfidence(w) PROVE TypeInv'
  BY <1>0, <1>4 DEF UpdateConfidence, Names
<1>5. ASSUME NEW w \in Workers, NotifyThrows(w) PROVE TypeInv'
  BY <1>0, <1>5, Returned DEF NotifyThrows, GiveBack, Names
<1>6. ASSUME NEW w \in Workers, JobThrows(w) PROVE TypeInv'
  BY <1>0, <1>6, Returned DEF JobThrows, GiveBack, Names
<1>7. CASE Sweep
  BY <1>7 DEF Sweep, IncidentStatus, Times
<1>8. ASSUME NEW e \in Editors, WriteUpdate(e) PROVE TypeInv'
  <2>1. editing[e] \in IncidentStatus \X ({KEEP, NULL} \cup Dates)
    BY <1>8 DEF WriteUpdate, Edits
  <2>2. status' \in IncidentStatus /\ expiresAt' \in Nat \cup {NULL}
    BY <1>8, <2>1 DEF WriteUpdate
  <2>. QED
    BY <1>8, <2>2 DEF WriteUpdate, Edits
<1>9. ASSUME NEW e \in Editors, NEW c \in Commands, CheckUpdate(e, c) PROVE TypeInv'
  <2>1. NextStatus(c) \in IncidentStatus /\ c[2] \in {KEEP, NULL} \cup Dates
    BY DEF NextStatus, EffectiveStatus, IncidentStatus, Commands
  <2>. QED
    BY <1>9, <2>1 DEF CheckUpdate, Edits
<1>. QED
  BY <1>1, <1>2, <1>3, <1>4, <1>5, <1>6, <1>7, <1>8, <1>9 DEF Process

(* Every step keeps every type. *)
LEMMA TypeNext == TypeInv /\ [Next]_vars => TypeInv'
<1> SUFFICES ASSUME TypeInv, [Next]_vars PROVE TypeInv'
  OBVIOUS
<1>1. CASE UNCHANGED vars
  BY <1>1 DEF vars, incident, rows, clients, workers, TypeInv, RowOK, SignsOK, ClientsOK, JobsOK
<1>2. CASE Next
  BY <1>2, TypeClients, TypeServer DEF Next
<1>. QED
  BY <1>1, <1>2

(* Type correctness under every fault. *)
THEOREM TypeCorrect == Spec => []TypeOK
<1>1. TypeInv => TypeOK
  BY TypeGroups DEF TypeInv
<1>. QED
  BY TypeInit, TypeNext, <1>1, PTL DEF Spec

-----------------------------------------------------------------------------
(* Who holds the incident's row holds it alone, and as long as it does the *)
(* incident is active: every UPDATE that could end it waits for the row.   *)
LockExclusive ==
  \A u, v \in Users : confirming[u] # "idle" /\ confirming[v] # "idle" => u = v
LockedActive == \A u \in Users : confirming[u] # "idle" => status = "ACTIVE"

LockInv == TypeInv /\ LockExclusive /\ LockedActive

(* Status and confirmations under way change in these steps only. *)
LEMMA WhoLocks ==
  ASSUME [Next]_vars
  PROVE  \/ UNCHANGED <<status, confirming>>
         \/ \E u \in Users : Confirm(u) \/ ConfirmRollback(u)
         \/ Sweep \/ \E e \in Editors : WriteUpdate(e)
BY DEF Next, Process, Tick, FindCompatible, AttachReport, AddLost, RequestRecalculation, TakeJob,
   ExtendWindow, GetEvidence, UpdateConfidence, NotifyThrows, JobThrows, GiveBack, CheckUpdate, incident, clients,
   vars

(* Every step keeps it. *)
LEMMA LockNext == LockInv /\ [Next]_vars => LockInv'
<1> SUFFICES ASSUME LockInv, [Next]_vars PROVE LockExclusive' /\ LockedActive'
  BY TypeNext DEF LockInv
<1> USE DEF LockInv, LockExclusive, LockedActive, TypeInv, ClientsOK, RowFree
<1>1. ASSUME NEW u \in Users, ConfirmLock(u) PROVE LockExclusive' /\ LockedActive'
  BY <1>1 DEF ConfirmLock, incident
<1>2. ASSUME NEW u \in Users, ConfirmAggregate(u) \/ ConfirmCommit(u) \/ ConfirmRollback(u)
      PROVE  LockExclusive' /\ LockedActive'
  BY <1>2 DEF ConfirmAggregate, ConfirmCommit, ConfirmRollback, incident
<1>3. CASE Sweep
  BY <1>3 DEF Sweep, clients
<1>4. ASSUME NEW e \in Editors, WriteUpdate(e) PROVE LockExclusive' /\ LockedActive'
  BY <1>4 DEF WriteUpdate
<1>5. CASE UNCHANGED <<status, confirming>>
  BY <1>5
<1>. QED
  BY <1>1, <1>2, <1>3, <1>4, <1>5, WhoLocks DEF Confirm

(* Initially nobody holds the row. *)
LEMMA LockInit == Init => LockInv
BY TypeInit DEF Init, LockInv, LockExclusive, LockedActive

(* Confirmations and their aggregate change in these steps only. *)
LEMMA WhoCounts ==
  ASSUME [Next]_vars
  PROVE  \/ UNCHANGED <<confirmedAt, count, lastConfirmed>>
         \/ \E u \in Users : ConfirmCommit(u)
BY DEF Next, Confirm, Process, Tick, ConfirmLock, ConfirmAggregate, ConfirmRollback,
   FindCompatible, AttachReport, AddLost, RequestRecalculation, TakeJob, ExtendWindow, GetEvidence,
   UpdateConfidence, NotifyThrows, JobThrows, GiveBack, Sweep, CheckUpdate, WriteUpdate, incident, rows, vars

(* No confirmation is recorded for an incident that is over: the row lock  *)
(* keeps the status tested until the commit.                               *)
THEOREM ConfirmedWhileActive == Spec => ConfirmsActiveOnly
<1>1. LockInv /\ [Next]_vars => [confirmedAt' # confirmedAt => status \notin Terminal]_vars
  <2> SUFFICES ASSUME LockInv, [Next]_vars, confirmedAt' # confirmedAt
               PROVE  status \notin Terminal
    OBVIOUS
  <2>1. PICK u \in Users : ConfirmCommit(u)
    BY WhoCounts
  <2>. QED
    BY <2>1 DEF ConfirmCommit, LockInv, LockedActive, Terminal
<1>. QED
  BY LockInit, LockNext, <1>1, PTL DEF Spec, ConfirmsActiveOnly

-----------------------------------------------------------------------------
(* What a confirmation is about to write counts all that came before it:   *)
(* nobody else's can commit while it holds the row.                        *)
TallyExact ==
  \A u \in Users : confirming[u] = "written" =>
    /\ tally[u][1] = Cardinality(Confirmed \cup {u})
    /\ now <= tally[u][2] /\ \A v \in Users : confirmedAt[v] <= tally[u][2]

CountInv == LockInv /\ TallyExact /\ CountExact

(* Every step keeps the tally and the aggregate. *)
LEMMA CountNext == CountInv /\ [Next]_vars => CountInv'
<1> SUFFICES ASSUME CountInv, [Next]_vars PROVE TallyExact' /\ CountExact'
  BY LockNext DEF CountInv
<1> USE DEF CountInv, LockInv, TypeInv, RowOK, SignsOK, ClientsOK
<1>1. ASSUME NEW u \in Users, ConfirmCommit(u) PROVE TallyExact' /\ CountExact'
  <2>1. /\ confirmedAt' = [confirmedAt EXCEPT ![u] = now] /\ count' = tally[u][1]
        /\ lastConfirmed' = tally[u][2] /\ confirming' = [confirming EXCEPT ![u] = "idle"]
        /\ confirming[u] = "written"
    BY <1>1 DEF ConfirmCommit
  <2>2. \A v \in Users : confirming'[v] = "idle"
    BY <2>1 DEF LockExclusive
  <2>3. Confirmed' = Confirmed \cup {u}
    BY <2>1 DEF Confirmed, Times, NULL
  <2>4. count' = Cardinality(Confirmed')
    BY <2>1, <2>3 DEF TallyExact
  <2>5. \A v \in Users : confirmedAt'[v] <= lastConfirmed'
    BY <2>1 DEF TallyExact
  <2>. QED
    BY <2>2, <2>4, <2>5 DEF TallyExact, CountExact
<1>2. ASSUME NEW u \in Users, ConfirmAggregate(u) PROVE TallyExact' /\ CountExact'
  <2>1. /\ tally' = [tally EXCEPT ![u] = <<Cardinality(Confirmed \cup {u}), Greater(now, Newest)>>]
        /\ confirming' = [confirming EXCEPT ![u] = "written"]
        /\ UNCHANGED <<now, confirmedAt, count, lastConfirmed>>
    BY <1>2 DEF ConfirmAggregate, incident, rows
  <2>2. Confirmed' = Confirmed
    BY <2>1 DEF Confirmed
  <2>3. Greater(now, Newest) >= now /\ \A v \in Users : confirmedAt[v] <= Greater(now, Newest)
    BY NewestIsBound DEF Greater, Times, NULL
  <2>4. TallyExact'
    BY <2>1, <2>2, <2>3 DEF TallyExact
  <2>. QED
    BY <2>1, <2>2, <2>4 DEF CountExact
<1>3. CASE UNCHANGED <<confirmedAt, count, lastConfirmed>> /\ ~(\E u \in Users : ConfirmAggregate(u))
  <2>1. Confirmed' = Confirmed
    BY <1>3 DEF Confirmed
  <2>2. \A u \in Users : confirming'[u] = "written" =>
          confirming[u] = "written" /\ tally'[u] = tally[u] /\ now' = now
    <3> DEFINE Same == \A u \in Users : confirming'[u] = "written" =>
                         confirming[u] = "written" /\ tally'[u] = tally[u] /\ now' = now
    <3>1. CASE UNCHANGED <<now, confirming, tally>>
      BY <3>1
    <3>2. ASSUME NEW u \in Users, ConfirmLock(u) \/ ConfirmCommit(u) \/ ConfirmRollback(u) PROVE Same
      BY <3>2 DEF ConfirmLock, ConfirmCommit, ConfirmRollback
    <3>3. CASE Tick
      BY <3>3 DEF Tick, clients
    <3>4. ASSUME NEW u \in Users, FindCompatible(u) \/ AttachReport(u) PROVE Same
      BY <3>1, <3>4 DEF FindCompatible, AttachReport
    <3>5. ASSUME NEW w \in Workers, Process(w) \/ JobThrows(w) \/ \E j \in Jobs : TakeJob(w, j) PROVE Same
      BY <3>1, <3>5 DEF Process, TakeJob, ExtendWindow, GetEvidence, UpdateConfidence, NotifyThrows,
         JobThrows, GiveBack, clients
    <3>6. ASSUME NEW e \in Editors, WriteUpdate(e) \/ \E c \in Commands : CheckUpdate(e, c) PROVE Same
      BY <3>1, <3>6 DEF WriteUpdate, CheckUpdate
    <3>7. ASSUME RequestRecalculation \/ Sweep \/ \E k \in Kinds : AddLost(k) PROVE Same
      BY <3>1, <3>7 DEF RequestRecalculation, Sweep, AddLost, clients
    <3>8. UNCHANGED vars => UNCHANGED <<now, confirming, tally>>
      BY DEF vars, clients
    <3>. QED
      BY <1>3, <3>1, <3>2, <3>3, <3>4, <3>5, <3>6, <3>7, <3>8 DEF Next, Confirm
  <2>3. CountExact'
    BY <1>3, <2>1 DEF CountExact
  <2>4. ASSUME NEW u \in Users, confirming'[u] = "written"
        PROVE  /\ tally'[u][1] = Cardinality(Confirmed' \cup {u})
               /\ now' <= tally'[u][2] /\ \A v \in Users : confirmedAt'[v] <= tally'[u][2]
    <3>1. confirming[u] = "written" /\ tally'[u] = tally[u] /\ now' = now
      BY <2>2, <2>4
    <3>2. confirmedAt' = confirmedAt
      BY <1>3
    <3>. QED
      BY <2>1, <3>1, <3>2 DEF TallyExact
  <2>. QED
    BY <2>3, <2>4 DEF TallyExact
<1>. QED
  BY <1>1, <1>2, <1>3, WhoCounts

(* However many confirmations overlap, fail and start over, the aggregate  *)
(* written beside them is exact.                                           *)
THEOREM AggregateIsExact == Spec => []CountExact
<1>1. Init => CountInv
  <2> SUFFICES ASSUME Init PROVE CountInv
    OBVIOUS
  <2>1. Confirmed = {}
    BY DEF Init, Confirmed
  <2>2. CountExact
    BY <2>1, FS_EmptySet DEF Init, CountExact, NULL
  <2>. QED
    BY <2>2, LockInit DEF Init, CountInv, TallyExact
<1>2. CountInv => CountExact
  BY DEF CountInv
<1>. QED
  BY <1>1, <1>2, CountNext, PTL DEF Spec

-----------------------------------------------------------------------------
(* The status and the window change in these steps only. *)
LEMMA WhoEnds ==
  ASSUME [Next]_vars
  PROVE  \/ UNCHANGED <<status, expiresAt>>
         \/ \E w \in Workers : ExtendWindow(w)
         \/ Sweep \/ \E e \in Editors : WriteUpdate(e)
BY DEF Next, Confirm, Process, Tick, ConfirmLock, ConfirmAggregate, ConfirmCommit, ConfirmRollback,
   FindCompatible, AttachReport, AddLost, RequestRecalculation, TakeJob, GetEvidence,
   UpdateConfidence, NotifyThrows, JobThrows, GiveBack, CheckUpdate, incident, vars

(* As long as no editor writes to it, an official incident ends at the     *)
(* expiry its authority gave it and nothing moves that.                    *)
THEOREM OfficialKept ==
  ASSUME Editors = {}
  PROVE  Spec => OfficialExpiryHonoured
<1>1. TypeInv /\ [Next]_vars =>
        [source = "OFFICIAL" /\ EndsOrMoves => expiresAt # NULL /\ expiresAt <= now]_vars
  <2> SUFFICES ASSUME TypeInv, [Next]_vars, source = "OFFICIAL", EndsOrMoves
               PROVE  expiresAt # NULL /\ expiresAt <= now
    OBVIOUS
  <2>1. CASE Sweep
    BY <2>1 DEF Sweep, Due
  <2>2. ASSUME NEW w \in Workers, ExtendWindow(w) PROVE FALSE
    BY <2>2 DEF ExtendWindow, Extendable, EndsOrMoves
  <2>. QED
    BY <2>1, <2>2, WhoEnds DEF EndsOrMoves
<1>. QED
  BY TypeInit, TypeNext, <1>1, PTL DEF Spec, OfficialExpiryHonoured

-----------------------------------------------------------------------------
(* A processor about to extend the window has a job for which it does. *)
ExtendJobs == \A w \in Workers : step[w] = "extend" => job[w][1] # "recalculation"

(* The window reaches beyond every sign whose job has run. *)
Covers(t) == expiresAt # NULL /\ expiresAt >= t
ReportCovered == Extending("report") \/ Covers(lastReport + Stale)
ConfirmationCovered ==
  Extending("confirmation") \/ lastConfirmed = NULL \/ Covers(lastConfirmed + Extension)
Covered == source = "COMMUNITY" /\ status = "ACTIVE" => ReportCovered /\ ConfirmationCovered

(* The past: signs are not of the future, and the tally is of the present. *)
Past ==
  /\ lastReport <= now /\ lastConfirmed <= now /\ \A u \in Users : confirmedAt[u] <= now
  /\ \A u \in Users : confirming[u] = "written" => tally[u][2] <= now

WindowInv == TypeInv /\ ExtendJobs /\ Covered /\ Past

(* Initially the first report's job is still to run. *)
LEMMA WindowInit == Init => WindowInv
<1> SUFFICES ASSUME Init PROVE WindowInv
  OBVIOUS
<1>1. ExtendJobs /\ Past
  BY DEF Init, ExtendJobs, Past, NULL
<1>2. ASSUME source = "COMMUNITY" PROVE Extending("report")
  <2>1. <<"report", 0>> \in Jobs /\ waiting[<<"report", 0>>] = 1 /\ <<"report", 0>>[1] = "report"
    BY <1>2 DEF Init, Jobs, Kinds
  <2>. QED
    BY <2>1 DEF Extending
<1>. QED
  BY <1>1, <1>2, TypeInit DEF Init, WindowInv, Covered, ReportCovered, ConfirmationCovered

(* Without faults a job waiting leaves the queue only to be run. *)
LEMMA WhoTakes ==
  ASSUME TypeInv, [Next]_vars, Faults = {}, NEW j \in Jobs
  PROVE  waiting'[j] >= waiting[j] \/ \E w \in Workers : TakeJob(w, j)
<1> USE DEF TypeInv, JobsOK
<1>0. \A k \in Kinds : <<k, 0>> \in Jobs
  BY DEF Jobs
<1>1. CASE UNCHANGED waiting
  BY <1>1
<1>2. ASSUME NEW k \in Jobs, waiting' = [waiting EXCEPT ![k] = @ + 1] PROVE waiting'[j] >= waiting[j]
  BY <1>2
<1>3. ASSUME \/ RequestRecalculation \/ \E u \in Users : ConfirmCommit(u) \/ AttachReport(u)
      PROVE  waiting'[j] >= waiting[j]
  <2>1. \E k \in Kinds : waiting' = [waiting EXCEPT ![<<k, 0>>] = @ + 1]
    BY <1>3, Zenon DEF RequestRecalculation, ConfirmCommit, AttachReport, Kinds
  <2>. QED
    BY <1>0, <1>2, <2>1
<1>4. ASSUME NEW w \in Workers, NEW k \in Jobs, TakeJob(w, k), k # j PROVE waiting'[j] >= waiting[j]
  BY <1>4 DEF TakeJob
<1>5. \A w \in Workers : ~JobThrows(w)
  BY DEF JobThrows
<1>6. \A k \in Kinds : ~AddLost(k)
  BY DEF AddLost
<1>7. ASSUME NEW w \in Workers, NotifyThrows(w) PROVE waiting'[j] >= waiting[j]
  <2>1. waiting' = waiting \/ \E k \in Jobs : waiting' = [waiting EXCEPT ![k] = @ + 1]
    BY <1>7, Returned DEF NotifyThrows
  <2>. QED
    BY <1>1, <1>2, <2>1
<1>. QED
  BY <1>1, <1>3, <1>4, <1>5, <1>6, <1>7 DEF Next, Confirm, Process, Tick, ConfirmLock,
     ConfirmAggregate, ConfirmRollback, FindCompatible, ExtendWindow, GetEvidence,
     UpdateConfidence, Sweep, CheckUpdate, WriteUpdate, vars

(* Without faults a job that is to extend the window stays so until it has. *)
LEMMA ExtendingKept ==
  ASSUME TypeInv, [Next]_vars, Faults = {}, NEW k \in {"report", "confirmation"}, Extending(k),
         \A w \in Workers : ExtendWindow(w) => job[w][1] # k
  PROVE  Extending(k)'
<1> USE DEF TypeInv, JobsOK
<1>1. CASE \E j \in Jobs : j[1] = k /\ waiting[j] > 0
  <2>1. PICK j \in Jobs : j[1] = k /\ waiting[j] > 0
    BY <1>1
  <2>2. CASE waiting'[j] >= waiting[j]
    BY <2>1, <2>2, TypeNext DEF Extending
  <2>3. CASE ~(waiting'[j] >= waiting[j])
    <3>1. PICK w \in Workers : TakeJob(w, j)
      BY <2>3, WhoTakes
    <3>2. step'[w] = "extend" /\ job'[w] = j
      BY <2>1, <3>1 DEF TakeJob
    <3>. QED
      BY <2>1, <3>2 DEF Extending
  <2>. QED
    BY <2>2, <2>3
<1>2. CASE \E w \in Workers : step[w] = "extend" /\ job[w][1] = k
  <2>1. PICK w \in Workers : step[w] = "extend" /\ job[w][1] = k
    BY <1>2
  <2>2. step'[w] = "extend" /\ job'[w] = job[w]
    <3>1. CASE UNCHANGED workers
      BY <2>1, <3>1 DEF workers
    <3>2. ASSUME NEW v \in Workers, \E j \in Jobs : TakeJob(v, j) PROVE step'[w] = "extend" /\ job'[w] = job[w]
      BY <2>1, <3>2 DEF TakeJob
    <3>3. ASSUME NEW v \in Workers, Process(v) PROVE step'[w] = "extend" /\ job'[w] = job[w]
      BY <2>1, <3>3 DEF Process, ExtendWindow, GetEvidence, UpdateConfidence, NotifyThrows, GiveBack
    <3>4. \A v \in Workers : ~JobThrows(v)
      BY DEF JobThrows
    <3>. QED
      BY <3>1, <3>2, <3>3, <3>4 DEF Next, Confirm, Tick, ConfirmLock, ConfirmAggregate,
         ConfirmCommit, ConfirmRollback, FindCompatible, AttachReport, AddLost,
         RequestRecalculation, Sweep, CheckUpdate, WriteUpdate, workers, vars
  <2>. QED
    BY <2>1, <2>2 DEF Extending
<1>. QED
  BY <1>1, <1>2 DEF Extending

(* Signs are never of the future, and jobs that extend are of two kinds. *)
LEMMA PastNext ==
  ASSUME TypeInv, ExtendJobs, Past, [Next]_vars
  PROVE  ExtendJobs' /\ Past'
<1> USE DEF TypeInv, RowOK, SignsOK, ClientsOK, JobsOK
<1>1. ExtendJobs'
  <2>1. ASSUME NEW w \in Workers, NEW j \in Jobs, TakeJob(w, j) PROVE ExtendJobs'
    BY <2>1 DEF TakeJob, ExtendJobs
  <2>2. ASSUME NEW w \in Workers, Process(w) \/ JobThrows(w) PROVE ExtendJobs'
    BY <2>2 DEF Process, ExtendWindow, GetEvidence, UpdateConfidence, NotifyThrows, JobThrows, GiveBack, ExtendJobs
  <2>3. CASE UNCHANGED workers
    BY <2>3 DEF workers, ExtendJobs
  <2>. QED
    BY <2>1, <2>2, <2>3 DEF Next, Confirm, Tick, ConfirmLock, ConfirmAggregate, ConfirmCommit,
       ConfirmRollback, FindCompatible, AttachReport, AddLost, RequestRecalculation, Sweep,
       CheckUpdate, WriteUpdate, workers, vars
<1>2. ASSUME NEW u \in Users, ConfirmAggregate(u) PROVE Past'
  <2>1. Greater(now, Newest) <= now
    BY NewestIsBound DEF Greater, Past, Times, NULL
  <2>. QED
    BY <1>2, <2>1 DEF ConfirmAggregate, Past, incident, rows
<1>3. ASSUME NEW u \in Users, ConfirmCommit(u) PROVE Past'
  BY <1>3 DEF ConfirmCommit, Past, Times
<1>4. ASSUME NEW u \in Users, AttachReport(u) PROVE Past'
  BY <1>4 DEF AttachReport, Past, incident, Times
<1>5. CASE Tick
  BY <1>1, <1>5 DEF Tick, Past, incident, rows, clients, Times, NULL
<1>6. CASE /\ UNCHANGED <<now, lastReport, lastConfirmed, confirmedAt>>
           /\ \A u \in Users : confirming'[u] = "written" =>
                confirming[u] = "written" /\ tally'[u] = tally[u]
  <2>1. /\ lastReport' <= now' /\ lastConfirmed' <= now'
        /\ \A u \in Users : confirmedAt'[u] <= now'
    BY <1>6 DEF Past
  <2>2. \A u \in Users : confirming'[u] = "written" => tally'[u][2] <= now'
    BY <1>6 DEF Past
  <2>. QED
    BY <1>1, <2>1, <2>2 DEF Past
<1>7. ASSUME NEW u \in Users, ConfirmLock(u) \/ ConfirmRollback(u) \/ FindCompatible(u) PROVE Past'
  BY <1>6, <1>7 DEF ConfirmLock, ConfirmRollback, FindCompatible, incident, rows
<1>8. CASE UNCHANGED <<now, lastReport, lastConfirmed, confirmedAt, confirming, tally>>
  BY <1>6, <1>8
<1>. QED
  BY <1>1, <1>2, <1>3, <1>4, <1>5, <1>7, <1>8 DEF Next, Confirm, Process,
     AddLost, RequestRecalculation, TakeJob, ExtendWindow, GetEvidence,
     UpdateConfidence, NotifyThrows, JobThrows, GiveBack, Sweep, CheckUpdate, WriteUpdate, incident, rows, clients,
     vars

(* Every step keeps the window over the signs whose jobs have run. *)
LEMMA WindowNext ==
  ASSUME Faults = {}, Editors = {}
  PROVE  WindowInv /\ [Next]_vars => WindowInv'
<1> SUFFICES ASSUME WindowInv, [Next]_vars, source' = "COMMUNITY", status' = "ACTIVE"
             PROVE  ReportCovered' /\ ConfirmationCovered'
  BY TypeNext, PastNext DEF WindowInv, Covered
<1> USE DEF WindowInv, TypeInv, RowOK, SignsOK, ClientsOK, JobsOK
<1>1. source = "COMMUNITY" /\ status = "ACTIVE" /\ ~Sweep
  BY WhoEnds DEF Next, Confirm, Process, Tick, ConfirmLock, ConfirmAggregate, ConfirmCommit,
     ConfirmRollback, FindCompatible, AttachReport, AddLost, RequestRecalculation, TakeJob,
     ExtendWindow, GetEvidence, UpdateConfidence, NotifyThrows, JobThrows, GiveBack, Sweep, CheckUpdate,
     WriteUpdate, incident, vars
<1>2. ReportCovered /\ ConfirmationCovered
  BY <1>1 DEF Covered
<1>3. ASSUME NEW w \in Workers, ExtendWindow(w) PROVE ReportCovered' /\ ConfirmationCovered'
  <2> DEFINE k == job[w][1]
  <2>1. k \in {"report", "confirmation"}
    BY <1>3 DEF ExtendWindow, ExtendJobs, Jobs, Kinds
  <2>2. expiresAt' = NewExpiry(k) /\ UNCHANGED <<now, lastReport, lastConfirmed>>
    BY <1>1, <1>3 DEF ExtendWindow, Extendable, rows
  <2>3. /\ expiresAt' \in Nat /\ expiresAt' # NULL /\ expiresAt' >= now + Hours(k)
        /\ expiresAt # NULL => expiresAt' >= expiresAt
    BY <2>2 DEF NewExpiry, Greater, Coalesce, Hours, Times, NULL
  <2>4. \A t \in Int : expiresAt # NULL /\ expiresAt >= t => expiresAt' # NULL /\ expiresAt' >= t
    <3>1. expiresAt \in Int /\ expiresAt' \in Int
      BY <2>3 DEF NULL
    <3>. QED
      BY <2>3, <3>1
  <2>5. lastReport + Stale \in Int /\ lastConfirmed + Extension \in Int
    BY DEF Times, NULL
  <2>6. \A v \in Workers : ExtendWindow(v) => v = w
    BY <1>3 DEF ExtendWindow
  <2>7. CASE k = "report"
    <3>1. ReportCovered'
      BY <2>2, <2>3, <2>7 DEF ReportCovered, Covers, Hours, Past, Times, NULL
    <3>2. Extending("confirmation") => Extending("confirmation")'
      BY <2>6, <2>7, ExtendingKept
    <3>. QED
      BY <1>2, <2>2, <2>4, <2>5, <3>1, <3>2 DEF ConfirmationCovered, Covers
  <2>8. CASE k = "confirmation"
    <3>1. ConfirmationCovered'
      BY <2>2, <2>3, <2>8 DEF ConfirmationCovered, Covers, Hours, Past, Times, NULL
    <3>2. Extending("report") => Extending("report")'
      BY <2>6, <2>8, ExtendingKept
    <3>. QED
      BY <1>2, <2>2, <2>4, <2>5, <3>1, <3>2 DEF ReportCovered, Covers
  <2>. QED
    BY <2>1, <2>7, <2>8
<1>4. CASE ~(\E w \in Workers : ExtendWindow(w))
  <2>1. expiresAt' = expiresAt
    BY <1>1, <1>4, WhoEnds
  <2>2. \A k \in {"report", "confirmation"} : Extending(k) => Extending(k)'
    BY <1>4, ExtendingKept
  <2>3. ReportCovered'
    <3>1. CASE lastReport' = lastReport
      BY <1>2, <2>1, <2>2, <3>1 DEF ReportCovered, Covers
    <3>2. CASE lastReport' # lastReport
      <4>1. PICK u \in Users : AttachReport(u)
        BY <3>2 DEF Next, Confirm, Process, Tick, ConfirmLock, ConfirmAggregate, ConfirmCommit,
           ConfirmRollback, FindCompatible, AddLost, RequestRecalculation, TakeJob, ExtendWindow,
           GetEvidence, UpdateConfidence, NotifyThrows, JobThrows, GiveBack, Sweep, CheckUpdate, WriteUpdate, rows,
           vars
      <4>2. <<"report", 0>> \in Jobs /\ waiting'[<<"report", 0>>] > 0
        BY <4>1 DEF AttachReport, Jobs, Kinds
      <4>3. Extending("report")'
        BY <4>2 DEF Extending
      <4>. QED
        BY <4>3 DEF ReportCovered
    <3>. QED
      BY <3>1, <3>2
  <2>4. ConfirmationCovered'
    <3>1. CASE lastConfirmed' = lastConfirmed
      BY <1>2, <2>1, <2>2, <3>1 DEF ConfirmationCovered, Covers
    <3>2. CASE lastConfirmed' # lastConfirmed
      <4>1. PICK u \in Users : ConfirmCommit(u)
        BY <3>2, WhoCounts
      <4>2. <<"confirmation", 0>> \in Jobs /\ waiting'[<<"confirmation", 0>>] > 0
        BY <4>1 DEF ConfirmCommit, Jobs, Kinds
      <4>3. Extending("confirmation")'
        BY <4>2 DEF Extending
      <4>. QED
        BY <4>3 DEF ConfirmationCovered
    <3>. QED
      BY <3>1, <3>2
  <2>. QED
    BY <2>3, <2>4
<1>. QED
  BY <1>3, <1>4

(* The sweep does not take a community incident before the window its      *)
(* reports and confirmations gave it is over, in whatever order their jobs *)
(* have run, as long as no job is lost and no editor writes.               *)
THEOREM WindowIsKept ==
  ASSUME Faults = {}, Editors = {}
  PROVE  Spec => WindowKept
<1>1. WindowInv /\ [Next]_vars =>
        [Expires /\ source = "COMMUNITY" => KeepsReportWindow /\ KeepsConfirmationWindow]_vars
  <2> SUFFICES ASSUME WindowInv, [Next]_vars, Expires, source = "COMMUNITY"
               PROVE  KeepsReportWindow /\ KeepsConfirmationWindow
    OBVIOUS
  <2> USE DEF WindowInv, TypeInv, RowOK, SignsOK
  <2>1. Sweep /\ ReportCovered /\ ConfirmationCovered
    BY WhoEnds DEF Expires, ExtendWindow, Covered
  <2>2. LastSign >= lastReport
    BY DEF LastSign, Greater, Coalesce, Times, NULL
  <2>3. CASE expiresAt # NULL /\ expiresAt <= now
    BY <2>1, <2>3 DEF ReportCovered, ConfirmationCovered, Covers, KeepsReportWindow,
       KeepsConfirmationWindow, Times, NULL
  <2>4. CASE LastSign <= now - Stale
    <3>1. LastSign \in Int
      BY DEF LastSign, Greater, Coalesce, Times, NULL
    <3>. QED
      BY <2>2, <2>4, <3>1 DEF KeepsReportWindow, KeepsConfirmationWindow, Times, NULL
  <2>. QED
    BY <2>1, <2>3, <2>4 DEF Sweep, Due
<1>2. WindowInv /\ [Next]_vars => WindowInv'
  BY WindowNext
<1>. QED
  BY WindowInit, <1>1, <1>2, PTL DEF Spec, WindowKept

-----------------------------------------------------------------------------
(* The confidence is of the present evidence, or a job or a processor is   *)
(* on its way to make it so.                                               *)
Settling ==
  \/ \E j \in Jobs : waiting[j] > 0
  \/ \E w \in Workers : step[w] \in {"extend", "read"}
  \/ \E w \in Workers : step[w] = "write" /\ evidence[w] = Evidence
  \/ confidence = Evidence /\ \A w \in Workers : step[w] # "write"

ConfidenceInv == TypeInv /\ Settling

(* Initially there is no evidence, or the first report's job. *)
LEMMA ConfidenceInit == Init => ConfidenceInv
<1> SUFFICES ASSUME Init PROVE Settling
  BY TypeInit DEF ConfidenceInv
<1>1. CASE source = "COMMUNITY"
  <2>1. <<"report", 0>> \in Jobs /\ waiting[<<"report", 0>>] = 1
    BY <1>1 DEF Init, Jobs, Kinds
  <2>. QED
    BY <2>1 DEF Settling
<1>2. CASE source # "COMMUNITY"
  <2>1. Confirmed = {} /\ reports = 0 /\ confidence = <<0, 0>>
    BY <1>2 DEF Init, Confirmed, NoEvidence
  <2>2. Evidence = <<0, 0>>
    BY <2>1, FS_EmptySet DEF Evidence
  <2>. QED
    BY <2>1, <2>2 DEF Init, Settling
<1>. QED
  BY <1>1, <1>2

(* With one processor and no faults every step keeps it. *)
LEMMA ConfidenceNext ==
  ASSUME Faults = {}, \A v, w \in Workers : v = w
  PROVE  ConfidenceInv /\ [Next]_vars => ConfidenceInv'
<1> SUFFICES ASSUME ConfidenceInv, [Next]_vars PROVE Settling'
  BY TypeNext DEF ConfidenceInv
<1>0. TypeInv /\ TypeInv' /\ Settling
  BY TypeNext DEF ConfidenceInv
<1> USE DEF TypeInv, JobsOK
<1>1. ASSUME NEW u \in Users, ConfirmCommit(u) PROVE Settling'
  <2>1. <<"confirmation", 0>> \in Jobs /\ waiting'[<<"confirmation", 0>>] > 0
    BY <1>0, <1>1 DEF ConfirmCommit, Jobs, Kinds
  <2>. QED
    BY <2>1 DEF Settling
<1>2. ASSUME NEW u \in Users, AttachReport(u) PROVE Settling'
  <2>1. <<"report", 0>> \in Jobs /\ waiting'[<<"report", 0>>] > 0
    BY <1>0, <1>2 DEF AttachReport, Jobs, Kinds
  <2>. QED
    BY <2>1 DEF Settling
<1>3. ASSUME NEW w \in Workers, NEW j \in Jobs, TakeJob(w, j) PROVE Settling'
  BY <1>0, <1>3 DEF TakeJob, Settling
<1>4. CASE /\ ~(\E u \in Users : ConfirmCommit(u) \/ AttachReport(u))
           /\ ~(\E w \in Workers : \E j \in Jobs : TakeJob(w, j))
  <2>1. UNCHANGED <<confirmedAt, reports>>
    BY <1>4 DEF Next, Confirm, Process, Tick, ConfirmLock, ConfirmAggregate, ConfirmRollback,
       FindCompatible, AddLost, RequestRecalculation, ExtendWindow, GetEvidence,
       UpdateConfidence, NotifyThrows, JobThrows, GiveBack, Sweep, CheckUpdate, WriteUpdate, rows, vars
  <2>2. Evidence' = Evidence
    BY <2>1 DEF Evidence, Confirmed
  <2>3. CASE \E j \in Jobs : waiting[j] > 0
    BY <1>0, <1>4, <2>3, WhoTakes DEF Settling
  <2>4. CASE ~(\E j \in Jobs : waiting[j] > 0)
    <3>1. ASSUME NEW w \in Workers, ExtendWindow(w) PROVE Settling'
      BY <1>0, <3>1 DEF ExtendWindow, Settling
    <3>2. ASSUME NEW w \in Workers, GetEvidence(w) PROVE Settling'
      <4>1. step'[w] = "write" /\ evidence'[w] = Evidence
        BY <1>0, <3>2 DEF GetEvidence
      <4>. QED
        BY <2>2, <4>1 DEF Settling
    <3>3. ASSUME NEW w \in Workers, UpdateConfidence(w) PROVE Settling'
      <4>1. step[w] = "write" /\ \A v \in Workers : v = w
        BY <3>3 DEF UpdateConfidence
      <4>2. evidence[w] = Evidence
        BY <1>0, <2>4, <4>1 DEF Settling
      <4>3. confidence' = Evidence /\ \A v \in Workers : step'[v] = "notify"
        BY <1>0, <3>3, <4>1, <4>2 DEF UpdateConfidence
      <4>. QED
        BY <2>2, <4>3 DEF Settling
    <3>4. ASSUME NEW w \in Workers, NotifyThrows(w) PROVE Settling'
      <4>1. step[w] = "notify" /\ \A v \in Workers : v = w
        BY <3>4 DEF NotifyThrows
      <4>2. confidence = Evidence
        BY <1>0, <2>4, <4>1 DEF Settling
      <4>3. confidence' = confidence /\ \A v \in Workers : step'[v] = "idle"
        BY <1>0, <3>4, <4>1 DEF NotifyThrows, GiveBack, incident
      <4>. QED
        BY <1>0, <2>2, <4>2, <4>3 DEF Settling
    <3>5. CASE UNCHANGED <<workers, confidence>>
      BY <1>0, <2>2, <2>4, <3>5 DEF workers, Settling
    <3>6. \A w \in Workers : ~JobThrows(w)
      BY DEF JobThrows
    <3>. QED
      BY <1>4, <3>1, <3>2, <3>3, <3>4, <3>5, <3>6 DEF Next, Confirm, Process, Tick, ConfirmLock,
         ConfirmAggregate, ConfirmRollback, FindCompatible, AddLost, RequestRecalculation, Sweep,
         CheckUpdate, WriteUpdate, incident, workers, vars
  <2>. QED
    BY <2>3, <2>4
<1>. QED
  BY <1>1, <1>2, <1>3, <1>4

(* With one processor and no lost job the confidence accounts for every    *)
(* report and confirmation as soon as the jobs have run: evidence that     *)
(* comes in between the read and the write has a job of its own.           *)
THEOREM ConfidenceSettles ==
  ASSUME Faults = {}, \A v, w \in Workers : v = w
  PROVE  Spec => []ConfidenceCurrent
<1>1. ConfidenceInv /\ [Next]_vars => ConfidenceInv'
  BY ConfidenceNext
<1>2. ConfidenceInv => ConfidenceCurrent
  BY DEF ConfidenceInv, Settling, ConfidenceCurrent, Quiet, TypeInv, JobsOK
<1>. QED
  BY ConfidenceInit, <1>1, <1>2, PTL DEF Spec
=============================================================================
