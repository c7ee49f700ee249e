--------------------------- MODULE NavigationSession ---------------------------
(***************************************************************************)
(* One active navigation session: its start, the jobs that evaluate an     *)
(* incident's impact on it and may move it to another route, the route     *)
(* updates this records, their delivery, and the session's end.            *)
(*                                                                         *)
(* Every statement is keyed by one session, so one session is the whole    *)
(* interaction; paging over sessions is that of AlertEvaluation.           *)
(***************************************************************************)
EXTENDS Integers, FiniteSets

CONSTANTS
  Incidents,
  Routes,      \* what the routing provider may offer
  Planned,     \* the route the session starts with
  Near,        \* the routes in whose corridor an incident lies
  Workers,     \* concurrently running job processors
  MinGain,     \* minimumRiskImprovement
  Cooldown,    \* rerouteCooldownSeconds
  Lifetime,    \* sessionTtlMinutes
  MaxTime,     \* bound on the clock
  MaxEvents,   \* bound on the incidents' beginnings, changes and ends
  MaxAttempts, \* "attempts" of a job (3 and 5 in the code)
  MaxFailures, \* bound on what goes wrong
  Faults       \* what may go wrong in the environment

ASSUME IncidentsAssumption == IsFiniteSet(Incidents)
ASSUME RoutesAssumption == Planned \in Routes /\ Near \in [Incidents -> SUBSET Routes]
ASSUME PolicyAssumption ==
  MinGain \in Nat \ {0} /\ Cooldown \in Nat \ {0} /\ Lifetime \in Nat \ {0}
ASSUME BoundsAssumption == {MaxTime, MaxEvents, MaxFailures} \subseteq Nat
ASSUME AttemptsAssumption == MaxAttempts \in Nat \ {0}
ASSUME FaultsAssumption ==
  Faults \subseteq {"enqueue", "database", "provider", "transport", "crash", "lockLoss"}

NULL == -1
Times == 0 .. MaxTime

NavigationSessionStatus == {"ACTIVE", "CANCELLED", "EXPIRED"}
NavigationRouteUpdateStatus == {"PENDING", "SENT", "FAILED"}

\* Kind, incident (of the route update, for a delivery) and attemptsMade.
Jobs == {"evaluate", "deliver"} \X Incidents \X (0 .. MaxAttempts - 1)
NoJob == <<>>
NoUpdate == [status |-> "NONE"]
Update(s, from, to) == [status |-> s, from |-> from, to |-> to]

VARIABLES
  now,
  active,    \* active, unexpired incidents
  events,    \* beginnings, changes and ends of incidents so far
  starting,  \* the risk start() has evaluated, NULL outside
  status,    \* status of the session, "NONE" before its insert
  route,     \* route_fingerprint and geometry
  risk,      \* current_risk_score
  rerouted,  \* last_rerouted_at
  expiresAt, \* expires_at
  updates,   \* the route_updates row of the session and each incident
  waiting,   \* jobs to be run
  failures,  \* what went wrong so far
  step,      \* where each processor is
  job,       \* the job it runs
  owned,     \* does it still hold the job's lock?
  seen,      \* the session as its query returned it
  assessed,  \* the risk it evaluated for that session's route
  plan       \* the alternative it chose

session == <<status, route, risk, rerouted, expiresAt>>
world   == <<now, active, events, starting>>
queue   == <<waiting, failures>>
workers == <<step, job, owned, seen, assessed, plan>>
vars == <<world, session, updates, queue, workers>>

\* The bounded risk formula, by the active incidents of the corridor.
RiskScore(r) == Cardinality({i \in active : r \in Near[i]})

NoView == [route |-> Planned, risk |-> 0, rerouted |-> NULL]
NoPlan == [route |-> Planned, risk |-> 0]

\* The environment does one of the things it may do wrong.
Fails(f) ==
  /\ f \in Faults
  /\ failures < MaxFailures
  /\ failures' = failures + 1

Init ==
  /\ now = 0
  /\ active = {}
  /\ events = 0
  /\ starting = NULL
  /\ status = "NONE"
  /\ route = Planned
  /\ risk = 0
  /\ rerouted = NULL
  /\ expiresAt = 0
  /\ updates = [i \in Incidents |-> NoUpdate]
  /\ waiting = [j \in Jobs |-> 0]
  /\ failures = 0
  /\ step = [w \in Workers |-> "idle"]
  /\ job = [w \in Workers |-> NoJob]
  /\ owned = [w \in Workers |-> TRUE]
  /\ seen = [w \in Workers |-> NoView]
  /\ assessed = [w \in Workers |-> 0]
  /\ plan = [w \in Workers |-> NoPlan]

\* From its query to its transaction an evaluation may take any time: the
\* sessions of a page are read together and evaluated one after the other,
\* each with calls to the provider.
Evaluating == {"assess", "baseline", "preview", "apply"}

\* Nothing compares a time before the session's insert, so the clock starts
\* there.
Tick ==
  /\ now < MaxTime
  /\ status # "NONE"
  /\ now' = now + 1
  /\ UNCHANGED <<active, events, starting, session, updates, queue, workers>>

-----------------------------------------------------------------------------
(* Incidents begin or change, which queues an evaluation, and end.         *)

Report(i) ==
  /\ events < MaxEvents
  /\ events' = events + 1
  /\ active' = active \cup {i}
  /\ waiting' = [waiting EXCEPT ![<<"evaluate", i, 0>>] = @ + 1]
  /\ UNCHANGED <<now, starting, session, updates, failures, workers>>

\* The error of Queue.add is logged only.
ReportLost(i) ==
  /\ events < MaxEvents
  /\ Fails("enqueue")
  /\ events' = events + 1
  /\ active' = active \cup {i}
  /\ UNCHANGED <<now, starting, session, updates, waiting, workers>>

EndIncident(i) ==
  /\ i \in active
  /\ events < MaxEvents
  /\ events' = events + 1
  /\ active' = active \ {i}
  /\ UNCHANGED <<now, starting, session, updates, queue, workers>>

-----------------------------------------------------------------------------
(* The owner and the sweep. *)

\* start evaluates the planned route, then inserts the session.
StartAssess ==
  /\ status = "NONE"
  /\ starting = NULL
  /\ starting' = RiskScore(Planned)
  /\ UNCHANGED <<now, active, events, session, updates, queue, workers>>

StartInsert ==
  /\ starting # NULL
  /\ starting' = NULL
  /\ status' = "ACTIVE"
  /\ risk' = starting
  /\ expiresAt' = now + Lifetime
  /\ UNCHANGED <<now, active, events, route, rerouted, updates, queue, workers>>

Cancel ==
  /\ status = "ACTIVE"
  /\ status' = "CANCELLED"
  /\ UNCHANGED <<world, route, risk, rerouted, expiresAt, updates, queue, workers>>

ExpireDue ==
  /\ status = "ACTIVE"
  /\ expiresAt <= now
  /\ status' = "EXPIRED"
  /\ UNCHANGED <<world, route, risk, rerouted, expiresAt, updates, queue, workers>>

-----------------------------------------------------------------------------
(* A processor takes a job, and is done with it.                           *)

Incident(w) == job[w][2]

TakeJob(w, j) ==
  /\ step[w] = "idle"
  /\ waiting[j] > 0
  /\ waiting' = [waiting EXCEPT ![j] = @ - 1]
  /\ job' = [job EXCEPT ![w] = j]
  /\ step' = [step EXCEPT ![w] = IF j[1] = "evaluate" THEN "find" ELSE "read"]
  /\ UNCHANGED <<world, session, updates, failures, owned, seen, assessed, plan>>

Forget(w) ==
  /\ step' = [step EXCEPT ![w] = "idle"]
  /\ job' = [job EXCEPT ![w] = NoJob]
  /\ owned' = [owned EXCEPT ![w] = TRUE]
  /\ seen' = [seen EXCEPT ![w] = NoView]
  /\ assessed' = [assessed EXCEPT ![w] = 0]
  /\ plan' = [plan EXCEPT ![w] = NoPlan]

Complete(w) == Forget(w) /\ UNCHANGED waiting

\* A job that throws is run again while it has attempts left.  BullMQ ignores
\* the outcome of a processor that lost the job's lock.
Throw(w) ==
  LET j == job[w] IN
  /\ waiting' = IF owned[w] /\ j[3] + 1 < MaxAttempts
                THEN [waiting EXCEPT ![<<j[1], j[2], j[3] + 1>>] = @ + 1]
                ELSE waiting
  /\ Forget(w)

\* The stalled check finds the job of a dead processor, or of a live one that
\* did not renew its lock, and queues it again.
Crash(w) ==
  /\ step[w] # "idle"
  /\ Fails("crash")
  /\ waiting' = IF owned[w] THEN [waiting EXCEPT ![job[w]] = @ + 1] ELSE waiting
  /\ Forget(w)
  /\ UNCHANGED <<world, session, updates>>

LoseLock(w) ==
  /\ step[w] # "idle" /\ owned[w]
  /\ Fails("lockLoss")
  /\ owned' = [owned EXCEPT ![w] = FALSE]
  /\ waiting' = [waiting EXCEPT ![job[w]] = @ + 1]
  /\ UNCHANGED <<world, session, updates, step, job, seen, assessed, plan>>

-----------------------------------------------------------------------------
(* evaluateIncidentImpact *)

Affected(i) ==
  /\ status = "ACTIVE" /\ now < expiresAt
  /\ i \in active /\ route \in Near[i]

FindAffected(w) ==
  /\ step[w] = "find"
  /\ IF Affected(Incident(w))
     THEN /\ seen' = [seen EXCEPT ![w] = [route |-> route, risk |-> risk, rerouted |-> rerouted]]
          /\ step' = [step EXCEPT ![w] = "assess"]
          /\ UNCHANGED <<job, owned, assessed, plan, waiting>>
     ELSE Complete(w)
  /\ UNCHANGED <<world, session, updates, failures>>

FindFails(w) ==
  /\ step[w] = "find"
  /\ Fails("database")
  /\ Throw(w)
  /\ UNCHANGED <<world, session, updates>>

CooledDown(last) == last = NULL \/ last <= now - Cooldown

\* The cooldown, the risk now, and its increase over the recorded one.
Assess(w) ==
  LET score == RiskScore(seen[w].route) IN
  /\ step[w] = "assess"
  /\ IF CooledDown(seen[w].rerouted) /\ score - seen[w].risk >= MinGain
     THEN /\ assessed' = [assessed EXCEPT ![w] = score]
          /\ step' = [step EXCEPT ![w] = "baseline"]
          /\ UNCHANGED <<job, owned, seen, plan, waiting>>
     ELSE Complete(w)
  /\ UNCHANGED <<world, session, updates, failures>>

\* Bug: the UPDATE does not test the status.
UpdateAnyRisk(w) ==
  /\ step[w] = "baseline"
  /\ risk' = assessed[w]
  /\ step' = [step EXCEPT ![w] = "preview"]
  /\ UNCHANGED <<world, status, route, rerouted, expiresAt, updates, queue,
                 job, owned, seen, assessed, plan>>

UpdateCurrentRisk(w) ==
  /\ step[w] = "baseline"
  /\ risk' = IF status = "ACTIVE" THEN assessed[w] ELSE risk
  /\ step' = [step EXCEPT ![w] = "preview"]
  /\ UNCHANGED <<world, status, route, rerouted, expiresAt, updates, queue,
                 job, owned, seen, assessed, plan>>

\* Bug: the route the session is on is not excluded.
AnyAlternatives(w) == {r \in Routes : RiskScore(r) <= assessed[w] - MinGain}

MeaningfulAlternatives(w) ==
  {r \in Routes \ {seen[w].route} : RiskScore(r) <= assessed[w] - MinGain}

\* Which of them are offered and short enough, and which is sorted first, is
\* the provider's and the recommendation policy's choice.
Preview(w) ==
  /\ step[w] = "preview"
  /\ \/ \E r \in MeaningfulAlternatives(w) :
          /\ plan' = [plan EXCEPT ![w] = [route |-> r, risk |-> RiskScore(r)]]
          /\ step' = [step EXCEPT ![w] = "apply"]
          /\ assessed' = [assessed EXCEPT ![w] = 0]
          /\ UNCHANGED <<job, owned, seen, waiting>>
     \/ Complete(w)
  /\ UNCHANGED <<world, session, updates, failures>>

\* Bug: the cooldown is not tested again under the row lock.
ApplicableNow(i) ==
  /\ status = "ACTIVE" /\ now < expiresAt
  /\ updates[i] = NoUpdate

Applicable(i) ==
  /\ status = "ACTIVE" /\ now < expiresAt
  /\ CooledDown(rerouted)
  /\ updates[i] = NoUpdate

ApplyRouteUpdate(w) ==
  /\ step[w] = "apply"
  /\ IF Applicable(Incident(w))
     THEN /\ updates' = [updates EXCEPT ![Incident(w)] =
                           Update("PENDING", seen[w].route, plan[w].route)]
          /\ route' = plan[w].route
          /\ risk' = plan[w].risk
          /\ rerouted' = now
          /\ step' = [step EXCEPT ![w] = "enqueue"]
          /\ seen' = [seen EXCEPT ![w] = NoView]
          /\ plan' = [plan EXCEPT ![w] = NoPlan]
          /\ UNCHANGED <<job, owned, assessed, waiting>>
     ELSE Complete(w) /\ UNCHANGED <<updates, route, risk, rerouted>>
  /\ UNCHANGED <<world, status, expiresAt, failures>>

EnqueueDelivery(w) ==
  /\ step[w] = "enqueue"
  /\ waiting' = [waiting EXCEPT ![<<"deliver", Incident(w), 0>>] = @ + 1]
  /\ Forget(w)
  /\ UNCHANGED <<world, session, updates, failures>>

\* Any error after the query is logged, and the job goes on to its end.
EvaluationError(w) ==
  /\ \/ step[w] \in Evaluating /\ Fails("database")
     \/ step[w] = "preview" /\ Fails("provider")
     \/ step[w] = "enqueue" /\ Fails("enqueue")
  /\ Complete(w)
  /\ UNCHANGED <<world, session, updates>>

-----------------------------------------------------------------------------
(* deliverRouteUpdate *)

Go(w, s) ==
  /\ step' = [step EXCEPT ![w] = s]
  /\ UNCHANGED <<job, owned, seen, assessed, plan, waiting>>

FindRouteUpdate(w) ==
  /\ step[w] = "read"
  /\ IF updates[Incident(w)].status = "SENT" THEN Complete(w) ELSE Go(w, "publish")
  /\ UNCHANGED <<world, session, updates, failures>>

ReadFails(w) ==
  /\ step[w] = "read"
  /\ Fails("database")
  /\ Throw(w)
  /\ UNCHANGED <<world, session, updates>>

Publish(w) ==
  /\ step[w] = "publish"
  /\ \/ Go(w, "markSent") /\ UNCHANGED failures
     \/ Go(w, "markFailed") /\ Fails("transport")
  /\ UNCHANGED <<world, session, updates>>

MarkSent(w) ==
  /\ step[w] = "markSent"
  /\ \/ /\ updates' = [updates EXCEPT ![Incident(w)].status = "SENT"]
        /\ Complete(w)
        /\ UNCHANGED failures
     \/ Go(w, "markFailed") /\ Fails("database") /\ UNCHANGED updates
  /\ UNCHANGED <<world, session>>

\* Bug: a failure overwrites any status.
FailedAlways(s) == "FAILED"

FailedFrom(s) == IF s = "SENT" THEN s ELSE "FAILED"

\* markRouteUpdateFailed, or its own failure; the job throws in either case.
MarkFailed(w) ==
  /\ step[w] = "markFailed"
  /\ \/ /\ updates' = [updates EXCEPT ![Incident(w)].status = FailedFrom(@)]
        /\ UNCHANGED failures
     \/ Fails("database") /\ UNCHANGED updates
  /\ Throw(w)
  /\ UNCHANGED <<world, session>>

-----------------------------------------------------------------------------
Evaluate(w) ==
  \/ FindAffected(w) \/ FindFails(w) \/ Assess(w) \/ UpdateCurrentRisk(w) \/ Preview(w)
  \/ ApplyRouteUpdate(w) \/ EnqueueDelivery(w) \/ EvaluationError(w)

Deliver(w) ==
  FindRouteUpdate(w) \/ ReadFails(w) \/ Publish(w) \/ MarkSent(w) \/ MarkFailed(w)

Next ==
  \/ Tick
  \/ \E i \in Incidents : Report(i) \/ ReportLost(i) \/ EndIncident(i)
  \/ StartAssess \/ StartInsert \/ Cancel \/ ExpireDue
  \/ \E w \in Workers :
       \/ Evaluate(w) \/ Deliver(w) \/ Crash(w) \/ LoseLock(w)
       \/ \E j \in Jobs : TakeJob(w, j)

Spec == Init /\ [][Next]_vars

-----------------------------------------------------------------------------
RouteUpdates ==
  {u \in [status : NavigationRouteUpdateStatus, from : Routes, to : Routes] : u.from # u.to}

(* Every column, job and processor keeps to its type; a recorded update    *)
(* moves the session to another route than the one it was on.              *)
TypeOK ==
  /\ now \in Times
  /\ active \subseteq Incidents
  /\ events \in 0 .. MaxEvents
  /\ starting \in Nat \cup {NULL}
  /\ status \in NavigationSessionStatus \cup {"NONE"}
  /\ route \in Routes
  /\ risk \in Nat
  /\ rerouted \in Times \cup {NULL}
  /\ expiresAt \in Nat
  /\ updates \in [Incidents -> {NoUpdate} \cup RouteUpdates]
  /\ waiting \in [Jobs -> Nat]
  /\ failures \in 0 .. MaxFailures
  /\ step \in [Workers -> Evaluating \cup {"idle", "find", "enqueue", "read", "publish",
                                           "markSent", "markFailed"}]
  /\ job \in [Workers -> Jobs \cup {NoJob}]
  /\ owned \in [Workers -> BOOLEAN]
  /\ seen \in [Workers -> [route : Routes, risk : Nat, rerouted : Times \cup {NULL}]]
  /\ assessed \in [Workers -> Nat]
  /\ plan \in [Workers -> [route : Routes, risk : Nat]]

NewUpdate(i) == updates[i] = NoUpdate /\ updates'[i] # NoUpdate

(* backend/README.md:233, cooldown: no two reroutes of a session are       *)
(* closer than the cooldown, although evaluations of several incidents     *)
(* pass the first test together.                                           *)
RerouteSpacing == [][route' # route => CooledDown(rerouted)]_vars

\* The session was moved between the page read and the transaction of w, and
\* so long ago that the cooldown is over: w has outlasted it.
Overtaken(w) ==
  step[w] = "apply" /\ seen[w].rerouted # rerouted /\ CooledDown(rerouted)

(* backend/README.md:233, idempotence: an incident moves the session at    *)
(* most once, each move is recorded, and the record ends at the route the  *)
(* session is on then.  It begins at the route the session left, unless    *)
(* the evaluation is older than a cooldown: applyRouteUpdate compares no   *)
(* route, so only its cooldown test refuses a decision about another one.  *)
MovesAreRecorded ==
  [][/\ <<route, rerouted>>' # <<route, rerouted>> => \E i \in Incidents : NewUpdate(i)
     /\ \A i \in Incidents : NewUpdate(i) =>
          /\ updates'[i].to = route'
          /\ \/ updates'[i].from = route
             \/ \E w \in Workers : Overtaken(w) /\ Incident(w) = i
    ]_vars

(* A session the owner cancelled or the sweep expired is left as it ended  *)
(* by the evaluations still under way.                                     *)
EndedUntouched ==
  [][status \notin {"NONE", "ACTIVE"} => session' = session]_vars

(* An update that was sent stays SENT: a second run of its delivery, after *)
(* a lost lock, may fail but does not take that back.                      *)
SentIsFinal ==
  [][\A i \in Incidents : updates[i].status = "SENT" => updates'[i] = updates[i]]_vars
=============================================================================
