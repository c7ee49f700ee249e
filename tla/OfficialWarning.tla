----------------------------- MODULE OfficialWarning -----------------------------
(***************************************************************************)
(* One official warning, identified by its authority and external id: the  *)
(* deliveries of a provider's feed that create and change it, the sweep    *)
(* that expires it, and the events that have its alerts evaluated again.   *)
(*                                                                         *)
(* All columns that make a change material, but for status and expiry, are *)
(* one text.  An event is the id of its job, the kind of change and the    *)
(* row's updated_at; the queue ignores an id it has had.  The four kinds   *)
(* start the same evaluation, which reads the row anew.                    *)
(***************************************************************************)
EXTENDS Requests

CONSTANTS
  Texts,
  Feed, \* items providers deliver
  MaxDeliveries \* bound on the deliveries

OfficialWarningStatus == {"ACTIVE", "EXPIRED", "CANCELLED"}
Expiry == {NULL} \cup Times
Kinds == {"created", "changed", "expired", "cancelled"}
Events == [kind : Kinds, at : Times]
NoWarning == [text |-> NULL, status |-> "NONE", expiresAt |-> NULL]
Warning == [text : Texts, status : OfficialWarningStatus, expiresAt : Expiry]

\* A feed need not state the status.
FeedItem ==
  [text : Texts, status : OfficialWarningStatus \cup {"UNSET"}, expiresAt : Expiry]

ASSUME FeedAssumption == Feed \subseteq FeedItem /\ MaxDeliveries \in Nat

VARIABLES
  warning,   \* the official_warnings row
  known,     \* the events the queue has had
  events,    \* those whose job, or the evaluation it adds, is not over
  evaluated, \* the row the last evaluation read
  missed     \* history: a change was left without its evaluation, since then

warningState == <<warning, known, events, evaluated, missed>>
warningVars == <<warningState, environment>>

WarningInit ==
  /\ EnvironmentInit
  /\ warning = NoWarning
  /\ known = {}
  /\ events = {}
  /\ evaluated = NoWarning
  /\ missed = FALSE

NormalizeAndValidate(item) ==
  [item EXCEPT !.status =
     IF item.status # "UNSET" THEN item.status
     ELSE IF item.expiresAt # NULL /\ item.expiresAt <= now THEN "EXPIRED"
     ELSE "ACTIVE"]

Due == warning.status = "ACTIVE" /\ warning.expiresAt \in 0 .. now

\* Bug: the row is found without FOR UPDATE.
NeverLocked(h) == TRUE

\* A transaction that found the row holds its lock until it commits.
RowFree(h) ==
  \A other \in Handlers \ {h} :
    at[other] = "write-warning" => mem[other].found = NoWarning

-----------------------------------------------------------------------------
\* Each item of a fetched feed is normalised, then stored by a transaction,
\* which writes the time at which it began.
Ingest(h, item) ==
  /\ begun < MaxDeliveries
  /\ Begin(h, "find-warning", [item |-> NormalizeAndValidate(item), began |-> now])
  /\ UNCHANGED warningState

FindByIdentity(h) ==
  /\ at[h] = "find-warning"
  /\ RowFree(h)
  /\ Proceed(h, "write-warning", [item |-> mem[h].item, began |-> mem[h].began, found |-> warning])
  /\ UNCHANGED warningState

\* Of two first deliveries that both find nothing, the second waits for the
\* first one's insert and then updates its row.
MateriallyChanged(found, item) == found \notin {NoWarning, item}

KindOf(inserted, found, item) ==
  CASE inserted -> "created"
    [] ~inserted /\ item.status = "CANCELLED" -> "cancelled"
    [] ~inserted /\ item.status = "EXPIRED" /\ found.status # "EXPIRED" -> "expired"
    [] OTHER -> "changed"

Upsert(h) ==
  LET item == mem[h].item
      inserted == warning = NoWarning
      found == mem[h].found
      event == [kind |-> KindOf(inserted, found, item), at |-> mem[h].began]
  IN
  /\ at[h] = "write-warning"
  /\ RowFree(h)
  /\ warning' = item
  /\ IF inserted \/ MateriallyChanged(found, item)
     THEN Proceed(h, "emit-warning", event) /\ UNCHANGED missed
     ELSE /\ Finish(h)
          /\ missed' = (missed \/ (found = NoWarning /\ item # warning))
  /\ UNCHANGED <<known, events, evaluated>>

\* expireDueWarnings, by the sweep job: one statement, then the event.
ExpireDue(h) ==
  /\ at[h] = Free
  /\ Due
  /\ RowFree(h)
  /\ warning' = [warning EXCEPT !.status = "EXPIRED"]
  /\ Proceed(h, "emit-warning", [kind |-> "expired", at |-> now])
  /\ UNCHANGED <<known, events, evaluated, missed>>

\* What is left without its evaluation if the job of an event comes to nothing.
Forsaken == missed \/ warning # evaluated

\* The job of an earlier event of the same id may be over.
Emit(h) ==
  LET event == mem[h] IN
  /\ at[h] = "emit-warning"
  /\ known' = known \cup {event}
  /\ IF event \in known THEN UNCHANGED events ELSE events' = events \cup {event}
  /\ missed' = IF event \in known \ events THEN Forsaken ELSE missed
  /\ Finish(h)
  /\ UNCHANGED <<warning, evaluated>>

\* An error of the queue is logged and swallowed; a process may also die here.
EmitLost(h) ==
  /\ at[h] = "emit-warning"
  /\ missed' = Forsaken
  /\ Finish(h)
  /\ UNCHANGED <<warning, known, events, evaluated>>

\* The event's job queues an evaluation, whose first query reads the row.
Evaluate(event) ==
  /\ event \in events
  /\ events' = events \ {event}
  /\ evaluated' = warning
  /\ missed' = FALSE
  /\ UNCHANGED <<warning, known, environment>>

\* One of the two has failed as often as it has attempts.
GiveUp(event) ==
  /\ event \in events
  /\ events' = events \ {event}
  /\ missed' = Forsaken
  /\ UNCHANGED <<warning, known, evaluated, environment>>

WarningTick == PassTime /\ UNCHANGED warningState

WarningStep(h) == FindByIdentity(h) \/ Upsert(h) \/ Emit(h) \/ EmitLost(h)

WarningNext ==
  \/ \E h \in Handlers :
       WarningStep(h) \/ ExpireDue(h) \/ \E item \in Feed : Ingest(h, item)
  \/ \E event \in events : Evaluate(event) \/ GiveUp(event)
  \/ WarningTick

WarningSpec == WarningInit /\ [][WarningNext]_warningVars

-----------------------------------------------------------------------------
WarningTypeOK ==
  /\ warning \in {NoWarning} \cup Warning
  /\ evaluated \in {NoWarning} \cup Warning
  /\ events \subseteq known /\ known \subseteq Events
  /\ \A h \in Handlers :
       /\ at[h] = "find-warning" => mem[h] \in [item : Warning, began : Times]
       /\ at[h] = "write-warning" =>
            mem[h] \in [item : Warning, began : Times, found : {NoWarning} \cup Warning]
       /\ at[h] = "emit-warning" => mem[h] \in Events

(* A change of the row that no evaluation has read yet has its event on the *)
(* way, whoever changed it and whatever the transactions and jobs overlap. *)
(* There are four exceptions: the event got lost between the commit and    *)
(* the queue; its job, or the evaluation, failed on all attempts; it was   *)
(* the second of two concurrent first deliveries; or a change of the same  *)
(* kind, by a transaction begun at the same time, was evaluated before.    *)
ChangesAreEvaluated ==
  \/ warning = evaluated
  \/ events # {}
  \/ \E h \in Handlers : at[h] = "emit-warning"
  \/ missed
=============================================================================
