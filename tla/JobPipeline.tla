------------------------------ MODULE JobPipeline ------------------------------
(***************************************************************************)
(* How a change of an incident or of an official warning gets to the       *)
(* evaluations of alerts and of navigation: the jobs that the requests add *)
(* after their commit, the dispatcher that runs them, and the jobs these   *)
(* add in turn.  What an evaluation then does is AlertEvaluation's and     *)
(* NavigationSession's.                                                    *)
(*                                                                         *)
(* Handlers are requests and processors alike.  Queue.add ignores a job    *)
(* whose id it has seen: the queue removes none, so it knows them all.  It *)
(* throws for a custom id with a ':', but for those that split at it into  *)
(* three.  Of the wording of an id only these parts are kept: a date in    *)
(* ISO format makes three, and "<id of a job>:<correlation id>" makes one  *)
(* more than that job's.                                                   *)
(*                                                                         *)
(* The jobs of a report, a confirmation and a requested recalculation are  *)
(* dispatched alike and are all called "change" here, the four of a        *)
(* warning "warning", and the two evaluations of alerts are one.           *)
(***************************************************************************)
EXTENDS Requests

CONSTANTS
  Attempts, \* "attempts" of a job, 3
  MaxEvents \* bound on the changes

ASSUME JobAttemptsAssumption == Attempts \in Nat \ {0} /\ MaxEvents \in Nat

Evaluations == {"evaluate-alerts", "evaluate-navigation"}
JobNames == {"change", "warning"} \cup Evaluations

\* The field the dispatcher demands of a payload.
RequiredField(name) ==
  CASE name = "evaluate-alerts" -> "sourceId"
    [] name = "warning" -> "warningId"
    [] OTHER -> "incidentId"

VARIABLES
  jobs, \* the jobs the queue knows, by id
  extended, \* history: events after which window and confidence were written
  struck \* history: events of jobs that a fault has hit

jobState == <<jobs, extended, struck>>
jobVars == <<jobState, environment>>

JobInit ==
  /\ EnvironmentInit
  /\ jobs = <<>>
  /\ extended = {}
  /\ struck = {}

\* An id is the job's name, the event that it goes back to, and a salt where
\* it is not derived from these.
Job(name, event, field) ==
  [name |-> name, event |-> event, field |-> field, salt |-> 0,
   parts |-> IF name = "warning" THEN 3 ELSE 1]

\* Job.validateOptions of BullMQ.
IdAccepted(job) == job.parts \in {1, 3}

Add(job) ==
  /\ IdAccepted(job)
  /\ jobs' = [id \in DOMAIN jobs \cup {job} |->
                IF id \in DOMAIN jobs THEN jobs[id] ELSE [state |-> "waiting", made |-> 0]]

\* Bug: every evaluation gets an id of its own (the default, randomUUID).
AlertEvaluationFresh(event, job) ==
  [Job("evaluate-alerts", event, "sourceId") EXCEPT !.salt = Cardinality(DOMAIN jobs)]

\* The id is derived from that of the job that adds it, and so a job that is
\* run again adds the same one: of an incident's change with the correlation
\* id, which is a UUID, of a warning's as it is.  A request's has a number.
AlertEvaluation(event, job) ==
  [Job("evaluate-alerts", event, "sourceId") EXCEPT
     !.parts = IF job = Nothing THEN 1 ELSE IF job.name = "warning" THEN job.parts ELSE job.parts + 1]

-----------------------------------------------------------------------------
(* Requests: the transaction is committed, the job is added after it.      *)

\* submit, confirm and requestRecalculation.
Change(h) ==
  /\ begun < MaxEvents
  /\ Begin(h, "add-event", Job("change", begun + 1, "incidentId"))
  /\ UNCHANGED jobState

\* emitChangeEvents and emitEvent, of an ingestion or the sweep.
WarningChange(h) ==
  /\ begun < MaxEvents
  /\ Begin(h, "add-event", Job("warning", begun + 1, "warningId"))
  /\ UNCHANGED jobState

AddEvent(h) ==
  /\ at[h] = "add-event"
  /\ Add(mem[h])
  /\ Finish(h)
  /\ UNCHANGED <<extended, struck>>

\* createIncident, and updateIncident when the change is material.
MaterialChange(h) ==
  /\ begun < MaxEvents
  /\ Begin(h, "add-alert", [event |-> begun + 1, job |-> Nothing])
  /\ UNCHANGED jobState

\* triggerHazard: both jobs carry an incidentId.
TriggerHazard(h) ==
  /\ begun < MaxEvents
  /\ Begin(h, "add-demo-navigation", begun + 1)
  /\ UNCHANGED jobState

AddDemoNavigation(h) ==
  /\ at[h] = "add-demo-navigation"
  /\ Add(Job("evaluate-navigation", mem[h], "incidentId"))
  /\ Proceed(h, "add-demo-alert", mem[h])
  /\ UNCHANGED <<extended, struck>>

AddDemoAlert(h) ==
  /\ at[h] = "add-demo-alert"
  /\ Add(Job("evaluate-alerts", mem[h], "incidentId"))
  /\ Finish(h)
  /\ UNCHANGED <<extended, struck>>

\* Queue.add fails, or the process dies before it.
RequestAddFails(h) ==
  /\ at[h] \in {"add-event", "add-demo-navigation", "add-demo-alert"}
  /\ Finish(h)
  /\ UNCHANGED jobState

-----------------------------------------------------------------------------
(* The dispatcher.  mem[h].job is Nothing for a request.                   *)

Becomes(job, status) == [jobs EXCEPT ![job].state = status]

TakeJob(h, job) ==
  /\ at[h] = Free
  /\ jobs[job].state = "waiting"
  /\ jobs' = Becomes(job, "active")
  /\ Proceed(h, CASE job.name = "change" -> "recalculate"
                  [] job.name = "warning" -> "add-alert"
                  [] OTHER -> "evaluate",
             [event |-> job.event, job |-> job])
  /\ UNCHANGED <<extended, struck>>

\* onReportSubmitted or onIncidentConfirmed, and recalculateIncident.
Recalculate(h) ==
  /\ at[h] = "recalculate"
  /\ extended' = extended \cup {mem[h].event}
  /\ Proceed(h, "add-alert", mem[h])
  /\ UNCHANGED <<jobs, struck>>

\* A warning's job is over with it.
AddAlert(h) ==
  LET job == mem[h].job IN
  /\ at[h] = "add-alert"
  /\ Add(AlertEvaluation(mem[h].event, job))
  /\ Proceed(h, IF job = Nothing \/ job.name = "change" THEN "add-navigation" ELSE "complete",
             mem[h])
  /\ UNCHANGED <<extended, struck>>

\* Here a ':' of the event becomes '_'.
AddNavigation(h) ==
  /\ at[h] = "add-navigation"
  /\ Add(Job("evaluate-navigation", mem[h].event, "incidentId"))
  /\ IF mem[h].job = Nothing THEN Finish(h) ELSE Proceed(h, "complete", mem[h])
  /\ UNCHANGED <<extended, struck>>

\* A request swallows an error of either add, a job that of the second only.
AddSwallowed(h) ==
  /\ \/ at[h] = "add-navigation"
     \/ at[h] = "add-alert" /\ mem[h].job = Nothing
  /\ IF at[h] = "add-alert" THEN Proceed(h, "add-navigation", mem[h])
     ELSE IF mem[h].job = Nothing THEN Finish(h)
     ELSE Proceed(h, "complete", mem[h])
  /\ UNCHANGED jobState

\* The evaluation, or the end of a change's job.
Complete(h) ==
  /\ \/ at[h] = "evaluate" /\ mem[h].job.field = RequiredField(mem[h].job.name)
     \/ at[h] = "complete"
  /\ jobs' = Becomes(mem[h].job, "completed")
  /\ Finish(h)
  /\ UNCHANGED <<extended, struck>>

\* The job is run again while it has attempts left.
ThrowBack(h) ==
  LET made == jobs[mem[h].job].made + 1 IN
  /\ jobs' = [jobs EXCEPT ![mem[h].job] =
                [state |-> IF made < Attempts THEN "waiting" ELSE "failed", made |-> made]]
  /\ Finish(h)
  /\ UNCHANGED extended

Strike(h) == struck' = struck \cup {mem[h].event}

\* A refused payload, a failing statement, or a failing add of the alert
\* evaluation.
Throw(h) ==
  /\ at[h] \in {"recalculate", "evaluate", "add-alert"} /\ mem[h].job # Nothing
  /\ ThrowBack(h)
  /\ Strike(h)

\* Queue.add throws for the id of the alert evaluation, on every attempt: the
\* two evaluations of a report, a confirmation or a recalculation are not
\* queued, and its job fails after it has done the rest.
Refused(h) ==
  /\ at[h] = "add-alert" /\ mem[h].job # Nothing
  /\ ~IdAccepted(AlertEvaluation(mem[h].event, mem[h].job))
  /\ ThrowBack(h)
  /\ UNCHANGED struck

\* The processor dies: the stalled job is run again, or has stalled too often.
Stall(h) ==
  /\ at[h] \in {"recalculate", "evaluate", "add-alert", "add-navigation", "complete"}
  /\ mem[h].job # Nothing
  /\ \E status \in {"waiting", "failed"} : jobs' = Becomes(mem[h].job, status)
  /\ Finish(h)
  /\ Strike(h)
  /\ UNCHANGED extended

JobNext ==
  \E h \in Handlers :
    \/ Change(h) \/ WarningChange(h) \/ AddEvent(h) \/ MaterialChange(h) \/ RequestAddFails(h)
    \/ TriggerHazard(h) \/ AddDemoNavigation(h) \/ AddDemoAlert(h)
    \/ Recalculate(h) \/ AddAlert(h) \/ AddNavigation(h) \/ AddSwallowed(h)
    \/ Complete(h) \/ Throw(h) \/ Refused(h) \/ Stall(h)
    \/ \E job \in DOMAIN jobs : TakeJob(h, job)

JobSpec == JobInit /\ [][JobNext]_jobVars

-----------------------------------------------------------------------------
JobTypeOK ==
  /\ \A job \in DOMAIN jobs :
       /\ job.name \in JobNames
       /\ jobs[job] \in [state : {"waiting", "active", "completed", "failed"},
                         made : 0 .. Attempts]
  /\ extended \cup struck \subseteq 1 .. begun

JobsOf(name, event) == {job \in DOMAIN jobs : job.name = name /\ job.event = event}

(* However often the job of a change is thrown back, stalls or is run by a *)
(* new processor: nothing is evaluated by two jobs of one kind; a job that *)
(* completes has queued the evaluation of alerts; and only that of an      *)
(* incident's change fails without a fault, which has then written window  *)
(* and confidence.                                                         *)
EvaluatedOnce ==
  /\ \A name \in Evaluations, event \in 1 .. begun : Cardinality(JobsOf(name, event)) <= 1
  /\ \A job \in DOMAIN jobs :
       /\ job.name \notin Evaluations /\ jobs[job].state = "completed" =>
            JobsOf("evaluate-alerts", job.event) # {}
       /\ jobs[job].state = "failed" /\ job.event \notin struck =>
            job.name = "change" /\ job.event \in extended

(* The job of a report, a confirmation or a requested recalculation, over  *)
(* without a fault, has triggered the evaluation of alerts: as             *)
(* backend/SECURITY.md:58 says of a validated internal job.                *)
ChangesTriggerEvaluation ==
  \A job \in DOMAIN jobs :
    /\ job.name = "change" /\ jobs[job].state \in {"completed", "failed"}
    /\ job.event \notin struck
    => JobsOf("evaluate-alerts", job.event) # {}
=============================================================================
