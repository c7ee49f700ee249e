--------------------------- MODULE AlertEvaluation ---------------------------
(***************************************************************************)
(* Alert evaluation of one source, an incident or an official warning:     *)
(* its changes, the evaluation job each change adds, and the evaluators    *)
(* that page through the users it concerns and record one notification per *)
(* user and trigger.  What becomes of the deliveries of a notification is  *)
(* the subject of NotificationDelivery; here they are queued or lost.      *)
(***************************************************************************)
EXTENDS Integers, FiniteSets

CONSTANTS
  Users,        \* user ids, ordered as the pages are
  Types,        \* incident types
  MaxLevel,     \* the rank of the highest severity (3 in the code)
  BatchSize,    \* notification.evaluationBatchSize
  Evaluators,   \* concurrently running evaluations
  NoEvaluator,
  MaxChanges,   \* bound on the changes of the source
  MaxAttempts,  \* "attempts" of an evaluation job (3 in the code)
  Faults        \* what may go wrong in the environment

ASSUME UsersAssumption == Users \subseteq Nat \ {0} /\ IsFiniteSet(Users)
ASSUME LevelAssumption == MaxLevel \in Nat
ASSUME BatchAssumption == BatchSize \in Nat \ {0}
ASSUME EvaluatorsAssumption == NoEvaluator \notin Evaluators
ASSUME ChangesAssumption == MaxChanges \in Nat \ {0}
ASSUME AttemptsAssumption == MaxAttempts \in Nat \ {0}
ASSUME FaultsAssumption == Faults \subseteq {"database", "enqueue", "crash"}

Levels == 0 .. MaxLevel
Triggers == Types \X Levels   \* `${incidentType}:${severityRank(severity)}`
Rank(t) == t[2]
Events == 1 .. MaxChanges

VARIABLES
  active,    \* is the source ACTIVE and not past its expiry?
  trigger,   \* its type and severity
  concerned, \* users with a matching active place and an enabled channel
  changes,   \* changes so far
  unsaid,    \* changes committed whose evaluation job is still to be added
  jobAt,     \* where the evaluation job of each change is
  jobMade,   \* its attemptsMade
  jobOwner,  \* the evaluator running it
  stalled,   \* has it been recovered from a dead evaluator before?
  pc,        \* where each evaluator is
  seen,      \* the source's trigger when the evaluator read its page
  page,      \* targets of the page still to be handled
  isLast,    \* was the page shorter than a batch?
  cursor,    \* the last user handled
  rows,      \* notifications recorded, per user and trigger
  queued     \* triggers whose deliveries have their jobs, per user

sourceVars == <<active, trigger, concerned, changes, unsaid>>
jobVars    == <<jobAt, jobMade, jobOwner, stalled>>
pageVars   == <<seen, page, isLast, cursor>>
alertVars  == <<rows, queued>>
vars == <<sourceVars, jobVars, pc, pageVars, alertVars>>

JobStates == {"absent", "waiting", "active", "delayed", "completed", "failed"}
Steps == {"idle", "fetch", "check", "insert", "enqueue", "return", "throw"}

Least(S) == CHOOSE u \in S : \A v \in S : u <= v

-----------------------------------------------------------------------------
\* The source has just been created and its first evaluation is to be added.
Init ==
  /\ active = TRUE
  /\ trigger \in Triggers
  /\ concerned \in SUBSET Users
  /\ changes = 1
  /\ unsaid = {1}
  /\ jobAt = [k \in Events |-> "absent"]
  /\ jobMade = [k \in Events |-> 0]
  /\ jobOwner = [k \in Events |-> NoEvaluator]
  /\ stalled = [k \in Events |-> FALSE]
  /\ pc = [e \in Evaluators |-> "idle"]
  /\ seen = [e \in Evaluators |-> trigger]
  /\ page = [e \in Evaluators |-> {}]
  /\ isLast = [e \in Evaluators |-> FALSE]
  /\ cursor = [e \in Evaluators |-> 0]
  /\ rows = [u \in Users |-> [t \in Triggers |-> 0]]
  /\ queued = [u \in Users |-> {}]

(***************************************************************************)
(* The source: a change of a warning, or of an incident by createIncident  *)
(* or updateIncident, commits first and adds its job after.  An error      *)
(* of Queue.add is logged and dropped.  (The evaluation that a report or a *)
(* confirmation asks for is refused by the queue, see JobPipeline.)        *)
(***************************************************************************)
ChangeSource(t) ==
  /\ active
  /\ changes < MaxChanges
  /\ trigger' = t
  /\ changes' = changes + 1
  /\ unsaid' = unsaid \cup {changes + 1}
  /\ UNCHANGED <<active, concerned, jobVars, pc, pageVars, alertVars>>

EndSource ==
  /\ active
  /\ active' = FALSE
  /\ UNCHANGED <<trigger, concerned, changes, unsaid, jobVars, pc, pageVars, alertVars>>

AddEvaluation(k) ==
  /\ k \in unsaid
  /\ unsaid' = unsaid \ {k}
  /\ jobAt' = [jobAt EXCEPT ![k] = "waiting"]
  /\ UNCHANGED <<active, trigger, concerned, changes, jobMade, jobOwner, stalled,
                 pc, pageVars, alertVars>>

AddLost(k) ==
  /\ Faults \cap {"enqueue", "crash"} # {}
  /\ k \in unsaid
  /\ unsaid' = unsaid \ {k}
  /\ UNCHANGED <<active, trigger, concerned, changes, jobVars, pc, pageVars, alertVars>>

-----------------------------------------------------------------------------
(* BullMQ, as the evaluators use it (external). *)

TakeJob(e, k) ==
  /\ pc[e] = "idle"
  /\ jobAt[k] = "waiting"
  /\ jobAt' = [jobAt EXCEPT ![k] = "active"]
  /\ jobOwner' = [jobOwner EXCEPT ![k] = e]
  /\ pc' = [pc EXCEPT ![e] = "fetch"]
  /\ cursor' = [cursor EXCEPT ![e] = 0]
  /\ UNCHANGED <<sourceVars, jobMade, stalled, seen, page, isLast, alertVars>>

Promote(k) ==
  /\ jobAt[k] = "delayed"
  /\ jobAt' = [jobAt EXCEPT ![k] = "waiting"]
  /\ UNCHANGED <<sourceVars, jobMade, jobOwner, stalled, pc, pageVars, alertVars>>

ReportReturn(e, k) ==
  /\ pc[e] = "return"
  /\ jobOwner[k] = e
  /\ pc' = [pc EXCEPT ![e] = "idle"]
  /\ jobAt' = [jobAt EXCEPT ![k] = "completed"]
  /\ jobOwner' = [jobOwner EXCEPT ![k] = NoEvaluator]
  /\ UNCHANGED <<sourceVars, jobMade, stalled, pageVars, alertVars>>

ReportThrow(e, k) ==
  /\ pc[e] = "throw"
  /\ jobOwner[k] = e
  /\ pc' = [pc EXCEPT ![e] = "idle"]
  /\ jobMade' = [jobMade EXCEPT ![k] = @ + 1]
  /\ jobAt' = [jobAt EXCEPT ![k] =
                 IF jobMade[k] + 1 >= MaxAttempts THEN "failed" ELSE "delayed"]
  /\ jobOwner' = [jobOwner EXCEPT ![k] = NoEvaluator]
  /\ UNCHANGED <<sourceVars, stalled, pageVars, alertVars>>

\* The process dies; the stalled check puts its job back once.
Crash(e, k) ==
  /\ "crash" \in Faults
  /\ jobOwner[k] = e
  /\ pc' = [pc EXCEPT ![e] = "idle"]
  /\ jobAt' = [jobAt EXCEPT ![k] = IF stalled[k] THEN "failed" ELSE "waiting"]
  /\ stalled' = [stalled EXCEPT ![k] = TRUE]
  /\ jobOwner' = [jobOwner EXCEPT ![k] = NoEvaluator]
  /\ UNCHANGED <<sourceVars, jobMade, pageVars, alertVars>>

-----------------------------------------------------------------------------
(* evaluateSource *)

\* The users the query returns for a page: the first BatchSize concerned
\* users after the cursor, none once the source is no longer active.
Targets(after) == IF active THEN {u \in concerned : u > after} ELSE {}
FirstBatch(T) == {u \in T : Cardinality({v \in T : v <= u}) <= BatchSize}

\* Bug: an empty page does not end the evaluation.
FetchTargetsEmpty(e) ==
  LET T == FirstBatch(Targets(cursor[e])) IN
  /\ pc[e] = "fetch"
  /\ page' = [page EXCEPT ![e] = T]
  /\ isLast' = [isLast EXCEPT ![e] = Cardinality(T) < BatchSize]
  /\ seen' = [seen EXCEPT ![e] = trigger]
  /\ pc' = [pc EXCEPT ![e] = "check"]
  /\ UNCHANGED <<sourceVars, jobVars, cursor, alertVars>>

\* Bug: a page of exactly BatchSize users is taken for the last one.
FetchTargetsOffByOne(e) ==
  LET T == FirstBatch(Targets(cursor[e])) IN
  /\ pc[e] = "fetch"
  /\ page' = [page EXCEPT ![e] = T]
  /\ isLast' = [isLast EXCEPT ![e] = Cardinality(T) <= BatchSize]
  /\ seen' = [seen EXCEPT ![e] = trigger]
  /\ pc' = [pc EXCEPT ![e] = IF T = {} THEN "return" ELSE "check"]
  /\ UNCHANGED <<sourceVars, jobVars, cursor, alertVars>>

FetchTargets(e) ==
  LET T == FirstBatch(Targets(cursor[e])) IN
  /\ pc[e] = "fetch"
  /\ page' = [page EXCEPT ![e] = T]
  /\ isLast' = [isLast EXCEPT ![e] = Cardinality(T) < BatchSize]
  /\ seen' = [seen EXCEPT ![e] = trigger]
  /\ pc' = [pc EXCEPT ![e] = IF T = {} THEN "return" ELSE "check"]
  /\ UNCHANGED <<sourceVars, jobVars, cursor, alertVars>>

Target(e) == Least(page[e])

\* On to the next target, the next page, or the end of the evaluation.
Advance(e) ==
  /\ page' = [page EXCEPT ![e] = @ \ {Target(e)}]
  /\ cursor' = [cursor EXCEPT ![e] = Target(e)]
  /\ pc' = [pc EXCEPT ![e] = IF page[e] # {Target(e)} THEN "check"
                             ELSE IF isLast[e] THEN "return" ELSE "fetch"]
  /\ UNCHANGED <<seen, isLast>>

\* The SELECT MAX of createIfAbsent: a higher level was notified before.
Outranked(u, t) == \E s \in Triggers : rows[u][s] > 0 /\ Rank(s) > Rank(t)

CheckEscalation(e) ==
  /\ pc[e] = "check"
  /\ IF Outranked(Target(e), seen[e])
     THEN Advance(e)
     ELSE pc' = [pc EXCEPT ![e] = "insert"] /\ UNCHANGED pageVars
  /\ UNCHANGED <<sourceVars, jobVars, alertVars>>

\* Bug: the dedupe key is not unique.
InsertAlways(e) ==
  /\ pc[e] = "insert"
  /\ rows' = [rows EXCEPT ![Target(e)][seen[e]] = @ + 1]
  /\ pc' = [pc EXCEPT ![e] = "enqueue"]
  /\ UNCHANGED <<sourceVars, jobVars, pageVars, queued>>

\* The INSERT ... ON CONFLICT DO NOTHING, the deliveries, and the commit.
InsertNotification(e) ==
  /\ pc[e] = "insert"
  /\ IF rows[Target(e)][seen[e]] > 0
     THEN Advance(e) /\ UNCHANGED rows
     ELSE /\ rows' = [rows EXCEPT ![Target(e)][seen[e]] = @ + 1]
          /\ pc' = [pc EXCEPT ![e] = "enqueue"]
          /\ UNCHANGED pageVars
  /\ UNCHANGED <<sourceVars, jobVars, queued>>

EnqueueDeliveries(e) ==
  /\ pc[e] = "enqueue"
  /\ queued' = [queued EXCEPT ![Target(e)] = @ \cup {seen[e]}]
  /\ Advance(e)
  /\ UNCHANGED <<sourceVars, jobVars, rows>>

\* Errors of Queue.add are logged and dropped.
EnqueueFails(e) ==
  /\ "enqueue" \in Faults
  /\ pc[e] = "enqueue"
  /\ Advance(e)
  /\ UNCHANGED <<sourceVars, jobVars, alertVars>>

\* An error of the query or of the transaction ends the run of the job.
QueryFails(e) ==
  /\ "database" \in Faults
  /\ pc[e] \in {"fetch", "check", "insert"}
  /\ pc' = [pc EXCEPT ![e] = "throw"]
  /\ UNCHANGED <<sourceVars, jobVars, pageVars, alertVars>>

-----------------------------------------------------------------------------
Evaluate(e) ==
  \/ FetchTargets(e) \/ CheckEscalation(e) \/ InsertNotification(e) \/ EnqueueDeliveries(e)
  \/ \E k \in Events : ReportReturn(e, k) \/ ReportThrow(e, k)

Next ==
  \/ \E t \in Triggers : ChangeSource(t)
  \/ EndSource
  \/ \E k \in Events :
       \/ AddEvaluation(k) \/ AddLost(k) \/ Promote(k)
       \/ \E e \in Evaluators : TakeJob(e, k) \/ Crash(e, k)
  \/ \E e \in Evaluators : Evaluate(e) \/ EnqueueFails(e) \/ QueryFails(e)

Spec == Init /\ [][Next]_vars

\* Evaluators and the API run on; BullMQ hands out and promotes jobs.
Fairness ==
  /\ \A e \in Evaluators : WF_vars(Evaluate(e))
  /\ \A k \in Events :
       /\ WF_vars(AddEvaluation(k))
       /\ WF_vars(Promote(k))
       /\ WF_vars(\E e \in Evaluators : TakeJob(e, k))

FairSpec == Spec /\ Fairness

-----------------------------------------------------------------------------
(* Every row, job and evaluator keeps to its type, and an evaluator that   *)
(* handles a page has a target left on it.                                 *)
TypeOK ==
  /\ active \in BOOLEAN
  /\ trigger \in Triggers
  /\ concerned \subseteq Users
  /\ changes \in Events
  /\ unsaid \subseteq Events
  /\ jobAt \in [Events -> JobStates]
  /\ jobMade \in [Events -> 0 .. MaxAttempts]
  /\ jobOwner \in [Events -> Evaluators \cup {NoEvaluator}]
  /\ stalled \in [Events -> BOOLEAN]
  /\ pc \in [Evaluators -> Steps]
  /\ seen \in [Evaluators -> Triggers]
  /\ page \in [Evaluators -> SUBSET Users]
  /\ \A e \in Evaluators : pc[e] \in {"check", "insert", "enqueue"} => page[e] # {}
  /\ isLast \in [Evaluators -> BOOLEAN]
  /\ cursor \in [Evaluators -> Users \cup {0}]
  /\ rows \in [Users -> [Triggers -> Nat]]
  /\ queued \in [Users -> SUBSET Triggers]

(* A user is notified of a type and severity of the source at most once,   *)
(* however many evaluations overlap, fail half way and start over.         *)
OncePerTrigger == \A u \in Users : \A t \in Triggers : rows[u][t] <= 1

(* SECURITY.md:46 promises escalation-only repeats: whoever was notified   *)
(* of one severity is not notified of a lower one later.                   *)
EscalationOnly ==
  [][\A u \in Users : \A t \in Triggers :
       rows'[u][t] > rows[u][t] => ~Outranked(u, t)]_vars

(* As long as the source stays as it is, everyone it concerns is alerted   *)
(* at its severity or above.                                               *)
ConcernedAreAlerted ==
  \A u \in Users : \A t \in Triggers :
    u \in concerned /\ trigger = t
      ~> ~active \/ trigger # t \/ \E s \in queued[u] : Rank(s) >= Rank(t)
=============================================================================
