---------------------------- MODULE ReportAssociation ----------------------------
(***************************************************************************)
(* Flood reports of one type on a line of points: the transaction that     *)
(* refuses a reporter's repeated report, finds the incident a report       *)
(* belongs to, or creates it.  The first report may have been made before. *)
(*                                                                         *)
(* CURRENT_TIMESTAMP is the time at which the transaction began, so a      *)
(* transaction that has waited for a lock works with an older time than    *)
(* the one it waited for.                                                  *)
(***************************************************************************)
EXTENDS Requests, Sequences

CONSTANTS
  Reporters,
  Points,            \* integers: where reports are made
  Cell,              \* the hundredth of a degree each point is in
  AssociationRadius,
  DuplicateRadius,
  Lookback,          \* associationLookbackMinutes
  DuplicateWindow,   \* duplicateWindowSeconds
  ActiveWindow,      \* the hours a job keeps an incident active, at least
  MaxReports,        \* bound on the reports submitted
  TransactionTime    \* the time after which Prisma rolls a transaction back

\* 50 and 500 metres, two hours and at least six, unless configured otherwise.
ASSUME RadiiAssumption ==
  /\ Points \subseteq Int
  /\ {DuplicateRadius, AssociationRadius} \subseteq Nat /\ DuplicateRadius <= AssociationRadius
\* Prisma rolls a transaction back after DATABASE_TRANSACTION_TIMEOUT_MS, 15 s.
ASSUME LookbackAssumption ==
  /\ {TransactionTime, DuplicateWindow, Lookback, ActiveWindow} \subseteq Nat
  /\ TransactionTime < Lookback /\ Lookback < ActiveWindow

VARIABLES
  incidents,   \* incidents rows, in the order of their commits
  floodReports \* flood_reports rows, likewise

reportState == <<incidents, floodReports>>

Incident(p, t) ==
  [point |-> p, created |-> t, updated |-> t, expires |-> NULL, status |-> "ACTIVE"]

AssociationInit ==
  \/ incidents = <<>> /\ floodReports = <<>>
  \/ \E u \in Reporters, p \in Points :
       /\ incidents = <<Incident(p, 0)>>
       /\ floodReports = <<[by |-> u, point |-> p, created |-> 0]>>

Within(p, q, radius) == p - q \in -radius .. radius

\* Handlers whose transaction holds a lock, until it ends.
InTransaction == {h \in Handlers : at[h] \in {"unassociated", "associated"}}
SubmissionLocked(h) ==
  \E g \in InTransaction \ {h} : mem[g].by = mem[h].by

\* Bug: reports of a cell do not wait for each other.
NeverAssociationLocked(h) == FALSE

AssociationLocked(h) ==
  \E g \in InTransaction \ {h} :
    at[g] = "associated" /\ Cell[mem[g].point] = Cell[mem[h].point]

\* $transaction begins, and waits for the reporter's lock.
Submit(h, u, p) ==
  /\ begun < MaxReports
  /\ Begin(h, "begun", [by |-> u, point |-> p, start |-> now, found |-> 0])
  /\ UNCHANGED reportState

RecentDuplicates(h) ==
  {r \in DOMAIN floodReports :
     /\ floodReports[r].by = mem[h].by
     /\ floodReports[r].created >= mem[h].start - DuplicateWindow
     /\ Within(floodReports[r].point, mem[h].point, DuplicateRadius)}

FindRecentDuplicate(h) ==
  /\ at[h] = "begun"
  /\ ~SubmissionLocked(h)
  /\ IF RecentDuplicates(h) = {} THEN Proceed(h, "unassociated", mem[h]) ELSE Finish(h)
  /\ UNCHANGED reportState

CompatibleIncidents(h) ==
  {i \in DOMAIN incidents :
     /\ incidents[i].status = "ACTIVE"
     /\ incidents[i].expires = NULL \/ incidents[i].expires > mem[h].start
     /\ incidents[i].updated >= mem[h].start - Lookback
     /\ Within(incidents[i].point, mem[h].point, AssociationRadius)}

\* ORDER BY distance, updated_at DESC, id DESC; identifiers are random.
Distance2(h, i) == (incidents[i].point - mem[h].point) * (incidents[i].point - mem[h].point)
Nearest(h) ==
  {i \in CompatibleIncidents(h) : \A j \in CompatibleIncidents(h) :
     \/ Distance2(h, i) < Distance2(h, j)
     \/ Distance2(h, i) = Distance2(h, j) /\ incidents[i].updated >= incidents[j].updated}

FindCompatibleIncident(h) ==
  /\ at[h] = "unassociated"
  /\ ~AssociationLocked(h)
  /\ \E i \in IF Nearest(h) = {} THEN {0} ELSE Nearest(h) :
       Proceed(h, "associated", [mem[h] EXCEPT !.found = i])
  /\ UNCHANGED reportState

\* The incident found is touched whatever has become of it since.
Touched(h) == [incidents EXCEPT ![mem[h].found].updated = mem[h].start]

Created(h) == Append(incidents, Incident(mem[h].point, mem[h].start))

\* The rest of the transaction, the insert of the report and the commit.
CreateReport(h) ==
  /\ at[h] = "associated"
  /\ incidents' = IF mem[h].found = 0 THEN Created(h) ELSE Touched(h)
  /\ floodReports' = Append(floodReports,
       [by |-> mem[h].by, point |-> mem[h].point, created |-> mem[h].start])
  /\ Finish(h)

\* A statement fails, or the transaction exceeds its time.
SubmitFails(h) ==
  /\ at[h] \in {"begun", "unassociated", "associated"}
  /\ Finish(h)
  /\ UNCHANGED reportState

\* The job of a report or a confirmation.
ExtendIncident(i) ==
  /\ incidents[i].status = "ACTIVE"
  /\ incidents[i].expires < now + ActiveWindow
  /\ incidents' = [incidents EXCEPT ![i].expires = now + ActiveWindow, ![i].updated = now]
  /\ UNCHANGED <<floodReports, environment>>

\* The sweep, or an operator, ends it; its dates matter no more.
EndIncident(i) ==
  /\ incidents[i].status = "ACTIVE"
  /\ incidents' = [incidents EXCEPT ![i] = [Incident(@.point, 0) EXCEPT !.status = "EXPIRED"]]
  /\ UNCHANGED <<floodReports, environment>>

\* A transaction is over, or rolled back, by TransactionTime.
AssociationTick ==
  /\ \A h \in Handlers : at[h] # Free => now - mem[h].start < TransactionTime
  /\ PassTime
  /\ UNCHANGED reportState

AssociationNext ==
  \/ AssociationTick
  \/ \E i \in DOMAIN incidents : ExtendIncident(i) \/ EndIncident(i)
  \/ \E h \in Handlers :
       \/ FindRecentDuplicate(h) \/ FindCompatibleIncident(h)
       \/ CreateReport(h) \/ SubmitFails(h)
       \/ \E u \in Reporters, p \in Points : Submit(h, u, p)

AssociationSpec ==
  EnvironmentInit /\ AssociationInit /\ [][AssociationNext]_<<reportState, environment>>

-----------------------------------------------------------------------------
AssociationTypeOK ==
  /\ \A i \in DOMAIN incidents :
       /\ incidents[i].updated \in Times
       /\ incidents[i].status \in {"ACTIVE", "EXPIRED"}
  /\ Len(incidents) <= Len(floodReports)

Apart(s, t, window) == s - t \notin -window .. window

(* Reports of one cell that come in near each other and within the         *)
(* lookback share one incident while it is active.  A touch may set        *)
(* updated_at back by the time its transaction has waited for the lock,    *)
(* which shortens the lookback by as much.                                 *)
OneIncidentPerPlace ==
  \A i, j \in DOMAIN incidents :
    /\ i # j
    /\ incidents[i].status = "ACTIVE" /\ incidents[j].status = "ACTIVE"
    /\ Cell[incidents[i].point] = Cell[incidents[j].point]
    /\ Within(incidents[i].point, incidents[j].point, AssociationRadius)
    => Apart(incidents[i].created, incidents[j].created, Lookback - TransactionTime)

(* A reporter who sends the same report again within the window has it     *)
(* stored once, however the requests overlap.                              *)
NoRepeatedReport ==
  \A r, s \in DOMAIN floodReports :
    /\ r # s
    /\ floodReports[r].by = floodReports[s].by
    /\ Within(floodReports[r].point, floodReports[s].point, DuplicateRadius)
    => Apart(floodReports[r].created, floodReports[s].created, DuplicateWindow)

(* Reports are neither stored twice nor given two incidents.               *)
ReportsAssociatedOnce == OneIncidentPerPlace /\ NoRepeatedReport
=============================================================================
