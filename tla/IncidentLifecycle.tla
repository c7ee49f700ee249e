--------------------------- MODULE IncidentLifecycle ---------------------------
(***************************************************************************)
(* One incident: the reports attached to it, its confirmations, the window *)
(* in which it is active, the sweep that expires it, and the jobs that     *)
(* extend the window and recalculate the confidence.                       *)
(*                                                                         *)
(* Time is counted in units of which no transaction outlasts one.  NULL    *)
(* columns are NULL; every comparison guards against it as SQL does.       *)
(***************************************************************************)
EXTENDS Integers, FiniteSets

CONSTANTS
  Users,       \* who report and confirm
  Workers,     \* concurrently running job processors
  Editors,     \* callers of updateIncident
  Dates,       \* the expiry dates that callers give
  Stale,       \* communityStaleAfterHours
  Extension,   \* confirmationExtensionHours
  Cooldown,    \* cooldown of a user's confirmation
  MaxTime,     \* bound on the clock
  MaxReports,  \* bound on the reports attached
  MaxUpdates,  \* bound on the calls of updateIncident
  MaxAttempts, \* "attempts" of a job (3 in the code)
  Faults       \* what may go wrong in the environment

ASSUME UsersAssumption == IsFiniteSet(Users)
ASSUME DatesAssumption == Dates \subseteq Nat \ {0}
ASSUME WindowsAssumption ==
  Stale \in Nat \ {0} /\ Extension \in Nat \ {0} /\ Cooldown \in Nat \ {0}
ASSUME BoundsAssumption == {MaxTime, MaxReports, MaxUpdates} \subseteq Nat
ASSUME AttemptsAssumption == MaxAttempts \in Nat \ {0}
ASSUME FaultsAssumption == Faults \subseteq {"enqueue", "database"}

NULL == -1
Times == 0 .. MaxTime
Greater(a, b) == IF a >= b THEN a ELSE b
Coalesce(a, b) == IF a # NULL THEN a ELSE b

IncidentStatus == {"ACTIVE", "RESOLVED", "EXPIRED", "REJECTED"}
Terminal == IncidentStatus \ {"ACTIVE"}

\* The jobs of an incident, by what made them.
Kinds == {"report", "confirmation", "recalculation"}
Jobs == Kinds \X (0 .. MaxAttempts - 1)

\* What a processor holds before and after a job.
NoJob == <<"report", 0>>
NoEvidence == <<0, 0>>

VARIABLES
  now,
  source,        \* incidents.source_type
  status,        \* incidents.status
  expiresAt,     \* incidents.expires_at
  count,         \* incidents.confirmation_count
  lastConfirmed, \* incidents.last_confirmed_at
  confidence,    \* the evidence the confidence was last computed from
  reports,       \* flood_reports rows of the incident
  lastReport,    \* the newest of them
  confirmedAt,   \* incident_confirmations, per user
  confirming,    \* where each user's confirmation is
  tally,         \* the aggregate it is about to write: number and newest
  reporting,     \* users whose report was associated with the incident
  waiting,       \* jobs to be run, per kind and attemptsMade
  step,          \* where each processor is
  job,           \* the job it runs
  evidence,      \* the evidence it has read
  editing,       \* the command an editor has checked, if any
  updates        \* calls of updateIncident so far

incident == <<source, status, expiresAt, count, lastConfirmed, confidence>>
rows     == <<reports, lastReport, confirmedAt>>
clients  == <<confirming, tally, reporting, editing, updates>>
workers  == <<step, job, evidence>>
vars == <<now, incident, rows, clients, waiting, workers>>

\* Bug: the row is read without FOR UPDATE.
RowFreeAlways == TRUE

\* An UPDATE of the incident waits for a confirmation that holds its row.
RowFree == \A u \in Users : confirming[u] = "idle"

Confirmed == {u \in Users : confirmedAt[u] # NULL}
Newest == CHOOSE t \in Times \cup {NULL} :
            /\ \A u \in Users : confirmedAt[u] <= t
            /\ t = NULL \/ \E u \in Users : confirmedAt[u] = t
Unexpired == expiresAt = NULL \/ expiresAt > now

-----------------------------------------------------------------------------
(* A community incident is created by its first report, an official one    *)
(* with the expiry its authority gives it, if any.                         *)
Init ==
  /\ now = 0
  /\ source \in {"COMMUNITY", "OFFICIAL"}
  /\ status = "ACTIVE"
  /\ IF source = "COMMUNITY"
     THEN expiresAt = NULL /\ reports = 1 /\ lastReport = 0
     ELSE expiresAt \in {NULL} \cup Dates /\ reports = 0 /\ lastReport = NULL
  /\ count = 0
  /\ lastConfirmed = NULL
  /\ confidence = NoEvidence
  /\ confirmedAt = [u \in Users |-> NULL]
  /\ confirming = [u \in Users |-> "idle"]
  /\ tally = [u \in Users |-> <<0, 0>>]
  /\ reporting = {}
  /\ waiting = [j \in Jobs |-> IF j = <<"report", 0>> THEN reports ELSE 0]
  /\ step = [w \in Workers |-> "idle"]
  /\ job = [w \in Workers |-> NoJob]
  /\ evidence = [w \in Workers |-> NoEvidence]
  /\ editing = [e \in Editors |-> <<>>]
  /\ updates = 0

\* A confirmation, and the read and write of the confidence, are over within
\* one unit of time; so is the association of a report.
Tick ==
  /\ now < MaxTime
  /\ \A u \in Users : confirming[u] = "idle"
  /\ reporting = {}
  /\ \A w \in Workers : step[w] # "write"
  /\ now' = now + 1
  /\ UNCHANGED <<incident, rows, clients, waiting, workers>>

-----------------------------------------------------------------------------
(* confirm: lock the incident, check it, write the confirmation and the    *)
(* aggregate, commit, and only then add the job.                           *)

ConfirmLock(u) ==
  /\ confirming[u] = "idle"
  /\ RowFree
  /\ status = "ACTIVE" /\ Unexpired
  /\ confirmedAt[u] = NULL \/ confirmedAt[u] < now - Cooldown
  /\ confirming' = [confirming EXCEPT ![u] = "locked"]
  /\ UNCHANGED <<now, incident, rows, tally, reporting, editing, updates, waiting, workers>>

ConfirmAggregate(u) ==
  /\ confirming[u] = "locked"
  /\ confirming' = [confirming EXCEPT ![u] = "written"]
  /\ tally' = [tally EXCEPT ![u] = <<Cardinality(Confirmed \cup {u}), Greater(now, Newest)>>]
  /\ UNCHANGED <<now, incident, rows, reporting, editing, updates, waiting, workers>>

\* Bug: only a repeated confirmation asks for an event.
ConfirmCommitQuiet(u) ==
  /\ confirming[u] = "written"
  /\ confirming' = [confirming EXCEPT ![u] = "idle"]
  /\ tally' = [tally EXCEPT ![u] = <<0, 0>>]
  /\ confirmedAt' = [confirmedAt EXCEPT ![u] = now]
  /\ count' = tally[u][1]
  /\ lastConfirmed' = tally[u][2]
  /\ waiting' = [waiting EXCEPT ![<<"confirmation", 0>>] =
                   IF confirmedAt[u] = NULL THEN @ ELSE @ + 1]
  /\ UNCHANGED <<now, source, status, expiresAt, confidence, reports, lastReport,
                 reporting, editing, updates, workers>>

ConfirmCommit(u) ==
  /\ confirming[u] = "written"
  /\ confirming' = [confirming EXCEPT ![u] = "idle"]
  /\ tally' = [tally EXCEPT ![u] = <<0, 0>>]
  /\ confirmedAt' = [confirmedAt EXCEPT ![u] = now]
  /\ count' = tally[u][1]
  /\ lastConfirmed' = tally[u][2]
  /\ waiting' = [waiting EXCEPT ![<<"confirmation", 0>>] = @ + 1]
  /\ UNCHANGED <<now, source, status, expiresAt, confidence, reports, lastReport,
                 reporting, editing, updates, workers>>

ConfirmRollback(u) ==
  /\ "database" \in Faults
  /\ confirming[u] # "idle"
  /\ confirming' = [confirming EXCEPT ![u] = "idle"]
  /\ tally' = [tally EXCEPT ![u] = <<0, 0>>]
  /\ UNCHANGED <<now, incident, rows, reporting, editing, updates, waiting, workers>>

-----------------------------------------------------------------------------
(* submit: the association reads the active incidents, then touches the    *)
(* one it found and inserts the report.  Whether this incident is the one  *)
(* found (its distance, its type, the lookback) and whether the report is  *)
(* a duplicate of the user's own are left open; a report that does not     *)
(* come here makes an incident of its own.                                 *)

FindCompatible(u) ==
  /\ u \notin reporting
  /\ reports + Cardinality(reporting) < MaxReports
  /\ status = "ACTIVE" /\ Unexpired
  /\ reporting' = reporting \cup {u}
  /\ UNCHANGED <<now, incident, rows, confirming, tally, editing, updates, waiting, workers>>

AttachReport(u) ==
  /\ u \in reporting
  /\ RowFree
  /\ reporting' = reporting \ {u}
  /\ reports' = reports + 1
  /\ lastReport' = now
  /\ waiting' = [waiting EXCEPT ![<<"report", 0>>] = @ + 1]
  /\ UNCHANGED <<now, incident, confirmedAt, confirming, tally, editing, updates, workers>>

\* The job is added after the commit.  Until it is taken it makes no difference
\* whether it was added yet, so the commit counts it as waiting; an error of
\* Queue.add, which is logged only, or a crash before it, loses it.
AddLost(k) ==
  /\ "enqueue" \in Faults
  /\ waiting[<<k, 0>>] > 0
  /\ waiting' = [waiting EXCEPT ![<<k, 0>>] = @ - 1]
  /\ UNCHANGED <<now, incident, rows, clients, workers>>

RequestRecalculation ==
  /\ updates < MaxUpdates
  /\ updates' = updates + 1
  /\ waiting' = [waiting EXCEPT ![<<"recalculation", 0>>] = @ + 1]
  /\ UNCHANGED <<now, incident, rows, confirming, tally, reporting, editing, workers>>

-----------------------------------------------------------------------------
(* The jobs. *)

TakeJob(w, j) ==
  /\ step[w] = "idle"
  /\ waiting[j] > 0
  /\ waiting' = [waiting EXCEPT ![j] = @ - 1]
  /\ job' = [job EXCEPT ![w] = j]
  /\ step' = [step EXCEPT ![w] = IF j[1] = "recalculation" THEN "read" ELSE "extend"]
  /\ UNCHANGED <<now, incident, rows, clients, evidence>>

Hours(k) == IF k = "report" THEN Stale ELSE Extension

\* Bug: the window is set, not extended.
NewExpirySet(k) == now + Hours(k)

\* GREATEST(COALESCE(expires_at, now), now + hours)
NewExpiry(k) == Greater(Coalesce(expiresAt, now), now + Hours(k))

\* Bug: official incidents are extended as well.
ExtendableAny == status = "ACTIVE"

Extendable == status = "ACTIVE" /\ source = "COMMUNITY"

ExtendWindow(w) ==
  /\ step[w] = "extend"
  /\ RowFree
  /\ expiresAt' = IF Extendable THEN NewExpiry(job[w][1]) ELSE expiresAt
  /\ step' = [step EXCEPT ![w] = "read"]
  /\ UNCHANGED <<now, source, status, count, lastConfirmed, confidence, rows, clients,
                 waiting, job, evidence>>

Evidence == <<Cardinality(Confirmed), reports>>

GetEvidence(w) ==
  /\ step[w] = "read"
  /\ evidence' = [evidence EXCEPT ![w] = Evidence]
  /\ step' = [step EXCEPT ![w] = "write"]
  /\ UNCHANGED <<now, incident, rows, clients, waiting, job>>

UpdateConfidence(w) ==
  /\ step[w] = "write"
  /\ RowFree
  /\ confidence' = evidence[w]
  /\ evidence' = [evidence EXCEPT ![w] = NoEvidence]
  /\ step' = [step EXCEPT ![w] = "notify"]
  /\ UNCHANGED <<now, source, status, expiresAt, count, lastConfirmed, rows, clients,
                 waiting, job>>

\* The job throws; BullMQ runs it again from its beginning while it has
\* attempts left.
GiveBack(w) ==
  LET k == job[w][1]
      made == job[w][2] + 1 IN
  /\ step' = [step EXCEPT ![w] = "idle"]
  /\ job' = [job EXCEPT ![w] = NoJob]
  /\ evidence' = [evidence EXCEPT ![w] = NoEvidence]
  /\ waiting' = IF made < MaxAttempts
                THEN [waiting EXCEPT ![<<k, made>>] = @ + 1]
                ELSE waiting
  /\ UNCHANGED <<now, incident, rows, clients>>

\* The job's last statement adds the evaluation of alerts, under an id that
\* joins the job's id and the correlation id with a colon.  BullMQ refuses
\* such an id, so every run of these jobs ends here (see JobPipeline).
NotifyThrows(w) == step[w] = "notify" /\ GiveBack(w)

JobThrows(w) ==
  /\ "database" \in Faults
  /\ step[w] \in {"extend", "read", "write"}
  /\ GiveBack(w)

-----------------------------------------------------------------------------
(* expireStaleIncidents *)

\* The newer of the last confirmation and the last report, the first report
\* (time 0) where there is neither.
LastSign == Greater(Coalesce(lastConfirmed, 0), Coalesce(lastReport, 0))

\* Bug: only the explicit expiry counts.
DueByExpiry == status = "ACTIVE" /\ expiresAt # NULL /\ expiresAt <= now

Due ==
  /\ status = "ACTIVE"
  /\ \/ expiresAt # NULL /\ expiresAt <= now
     \/ source = "COMMUNITY" /\ LastSign <= now - Stale

Sweep ==
  /\ Due
  /\ RowFree
  /\ status' = "EXPIRED"
  /\ expiresAt' = now
  /\ UNCHANGED <<now, source, count, lastConfirmed, confidence, rows, clients, waiting, workers>>

-----------------------------------------------------------------------------
(* updateIncident: the incident is read and the command checked; the write *)
(* that follows tests nothing and always sets a status.                    *)

KEEP == -2   \* a field the command leaves undefined
Commands == (IncidentStatus \cup {"KEEP"}) \X ({KEEP, NULL} \cup Dates)

\* The status findById reports: an incident past its expiry is EXPIRED, swept
\* or not.
EffectiveStatus == IF status = "ACTIVE" /\ ~Unexpired THEN "EXPIRED" ELSE status

\* Bug: a status left undefined is written as such.
NextStatusRaw(c) == c[1]

NextStatus(c) == IF c[1] = "KEEP" THEN EffectiveStatus ELSE c[1]

CheckUpdate(e, c) ==
  LET next == NextStatus(c) IN
  /\ editing[e] = <<>>
  /\ updates < MaxUpdates
  /\ ~(EffectiveStatus \in Terminal /\ next = "ACTIVE")
  /\ next = "ACTIVE" => c[2] \in {KEEP, NULL} \/ c[2] > now
  /\ editing' = [editing EXCEPT ![e] = <<next, c[2]>>]
  /\ updates' = updates + 1
  /\ UNCHANGED <<now, incident, rows, confirming, tally, reporting, waiting, workers>>

WriteUpdate(e) ==
  /\ editing[e] # <<>>
  /\ RowFree
  /\ status' = editing[e][1]
  /\ expiresAt' = IF editing[e][2] = KEEP THEN expiresAt ELSE editing[e][2]
  /\ editing' = [editing EXCEPT ![e] = <<>>]
  /\ UNCHANGED <<now, source, count, lastConfirmed, confidence, rows,
                 confirming, tally, reporting, updates, waiting, workers>>

-----------------------------------------------------------------------------
Confirm(u) == ConfirmLock(u) \/ ConfirmAggregate(u) \/ ConfirmCommit(u)
Process(w) == ExtendWindow(w) \/ GetEvidence(w) \/ UpdateConfidence(w) \/ NotifyThrows(w)

Next ==
  \/ Tick
  \/ \E u \in Users :
       Confirm(u) \/ ConfirmRollback(u) \/ FindCompatible(u) \/ AttachReport(u)
  \/ \E k \in Kinds : AddLost(k)
  \/ RequestRecalculation
  \/ \E w \in Workers :
       \/ Process(w) \/ JobThrows(w)
       \/ \E j \in Jobs : TakeJob(w, j)
  \/ Sweep
  \/ \E e \in Editors : WriteUpdate(e) \/ \E c \in Commands : CheckUpdate(e, c)

Spec == Init /\ [][Next]_vars

\* Time passes, transactions end, and the repeatable sweep runs; its UPDATE is
\* next in the row's queue when a lock it waits for is released.
Fairness ==
  /\ WF_vars(Tick)
  /\ SF_vars(Sweep)
  /\ \A u \in Users : WF_vars(ConfirmAggregate(u)) /\ WF_vars(ConfirmCommit(u))
                      /\ WF_vars(AttachReport(u))
  /\ \A w \in Workers : WF_vars(Process(w))

FairSpec == Spec /\ Fairness

-----------------------------------------------------------------------------
(* Every column, request and processor keeps to its type.                  *)
TypeOK ==
  /\ now \in Times
  /\ source \in {"COMMUNITY", "OFFICIAL"}
  /\ status \in IncidentStatus
  /\ expiresAt \in Nat \cup {NULL}
  /\ count \in Nat
  /\ lastConfirmed \in Times \cup {NULL}
  /\ confidence \in Nat \X Nat
  /\ reports \in Nat
  /\ lastReport \in Times \cup {NULL}
  /\ confirmedAt \in [Users -> Times \cup {NULL}]
  /\ confirming \in [Users -> {"idle", "locked", "written"}]
  /\ tally \in [Users -> Nat \X Times]
  /\ reporting \subseteq Users
  /\ waiting \in [Jobs -> Nat]
  /\ step \in [Workers -> {"idle", "extend", "read", "write", "notify"}]
  /\ job \in [Workers -> Jobs]
  /\ evidence \in [Workers -> Nat \X Nat]
  /\ editing \in [Editors -> {<<>>} \cup (IncidentStatus \X ({KEEP, NULL} \cup Dates))]
  /\ updates \in 0 .. MaxUpdates

(* Confirmations of several users overlap, and still the aggregate written *)
(* beside them is exact: each commit counts all that came before it.       *)
CountExact ==
  /\ count = Cardinality(Confirmed)
  /\ \A u \in Users : confirmedAt[u] <= lastConfirmed

(* No confirmation is recorded for an incident that is over, although the  *)
(* status is tested statements before the commit and the sweep runs on.    *)
ConfirmsActiveOnly ==
  [][confirmedAt' # confirmedAt => status \notin Terminal]_vars

\* A job of kind k is still to extend the window.
Extending(k) ==
  \/ \E j \in Jobs : j[1] = k /\ waiting[j] > 0
  \/ \E w \in Workers : step[w] = "extend" /\ job[w][1] = k

(* backend/README.md:76: a community incident stays active for its window  *)
(* after every report and confirmation once their jobs have run, in        *)
(* whatever order they did: the sweep does not take it earlier.            *)
Expires == status = "ACTIVE" /\ status' = "EXPIRED"
KeepsReportWindow == Extending("report") \/ now >= lastReport + Stale
KeepsConfirmationWindow ==
  \/ Extending("confirmation") \/ lastConfirmed = NULL
  \/ now >= lastConfirmed + Extension \/ now >= LastSign + Stale
WindowKept ==
  [][Expires /\ source = "COMMUNITY" => KeepsReportWindow /\ KeepsConfirmationWindow]_vars

(* backend/README.md:76: an official incident keeps the expiry its         *)
(* authority gave it: reports, confirmations and their jobs neither extend *)
(* nor end it.                                                             *)
EndsOrMoves == <<status, expiresAt>>' # <<status, expiresAt>>
OfficialExpiryHonoured ==
  [][source = "OFFICIAL" /\ EndsOrMoves => expiresAt # NULL /\ expiresAt <= now]_vars

Quiet ==
  /\ \A j \in Jobs : waiting[j] = 0
  /\ \A w \in Workers : step[w] = "idle"

(* With one processor, when every job has run, the confidence accounts for *)
(* every report and confirmation committed so far.                         *)
ConfidenceCurrent == Quiet /\ Evidence # NoEvidence => confidence = Evidence

(* A community incident nobody reports or confirms for the stale period    *)
(* does not stay active, even when the jobs that should have set its       *)
(* window were lost.                                                       *)
Neglected == source = "COMMUNITY" /\ status = "ACTIVE" /\ LastSign + Stale <= now
CommunityExpires == Neglected ~> ~Neglected

(* "A terminal incident cannot be reactivated" (incidents.service.ts:153). *)
TerminalNotReactivated == [][(status \in Terminal) => (status' \in Terminal)]_vars
=============================================================================
