---------------------- MODULE NavigationSession_proofs ----------------------
(***************************************************************************)
(* Proofs about NavigationSession for any incidents, routes, corridors,    *)
(* processors, policy and bounds.                                          *)
(***************************************************************************)
EXTENDS NavigationSession, FiniteSetTheorems, TLAPS

USE IncidentsAssumption, RoutesAssumption, PolicyAssumption, BoundsAssumption,
    AttemptsAssumption, FaultsAssumption

Delivering == {"read", "publish", "markSent", "markFailed"}
StepNames == Evaluating \cup Delivering \cup {"idle", "find", "enqueue"}
Views == [route : Routes, risk : Nat, rerouted : Times \cup {NULL}]
Plans == [route : Routes, risk : Nat]

(* The type invariant by the groups of variables that change together. *)
WorldOK ==
  /\ now \in Times /\ active \subseteq Incidents /\ events \in 0 .. MaxEvents
  /\ starting \in Nat \cup {NULL}
SessionOK ==
  /\ status \in NavigationSessionStatus \cup {"NONE"}
  /\ route \in Routes /\ risk \in Nat /\ rerouted \in Times \cup {NULL} /\ expiresAt \in Nat
UpdatesOK == updates \in [Incidents -> {NoUpdate} \cup RouteUpdates]
QueueOK == waiting \in [Jobs -> Nat] /\ failures \in 0 .. MaxFailures
WorkersOK ==
  /\ step \in [Workers -> StepNames] /\ job \in [Workers -> Jobs \cup {NoJob}]
  /\ owned \in [Workers -> BOOLEAN] /\ seen \in [Workers -> Views]
  /\ assessed \in [Workers -> Nat] /\ plan \in [Workers -> Plans]

(* The groups make up TypeOK. *)
LEMMA TypeGroups == TypeOK <=> WorldOK /\ SessionOK /\ UpdatesOK /\ QueueOK /\ WorkersOK
BY DEF TypeOK, WorldOK, SessionOK, UpdatesOK, QueueOK, WorkersOK, StepNames, Delivering,
       Evaluating, Views, Plans

(* A processor at work has a job, of the kind its step is about. *)
JobHeld ==
  \A w \in Workers : step[w] # "idle" =>
    job[w] \in Jobs /\ (job[w][1] = "deliver" <=> step[w] \in Delivering)

(* What is to be delivered, or queued for it, has been recorded. *)
Recorded ==
  /\ \A j \in Jobs : j[1] = "deliver" /\ waiting[j] > 0 => updates[j[2]].status # "NONE"
  /\ \A w \in Workers :
       step[w] \in Delivering \cup {"enqueue"} => updates[Incident(w)].status # "NONE"

(* The alternative chosen is not the route the session was seen on. *)
PlanMoves == \A w \in Workers : step[w] = "apply" => plan[w].route # seen[w].route

Typed == WorldOK /\ SessionOK /\ UpdatesOK /\ QueueOK /\ WorkersOK
TypeInv == Typed /\ JobHeld /\ Recorded /\ PlanMoves

(* Initially everything has its type and nothing is under way. *)
LEMMA TypeInit == Init => TypeInv
BY DEF Init, TypeInv, Typed, WorldOK, SessionOK, UpdatesOK, QueueOK, WorkersOK, JobHeld, Recorded,
       PlanMoves, StepNames, Delivering, Evaluating, Views, Plans, Times, NULL, NoView, NoPlan,
       NavigationSessionStatus, Jobs

(* The risk of a route is a number. *)
LEMMA RiskType ==
  ASSUME WorldOK, NEW r
  PROVE  RiskScore(r) \in Nat
<1>1. {i \in active : r \in Near[i]} \subseteq Incidents
  BY DEF WorldOK
<1>. QED
  BY <1>1, FS_Subset, FS_CardinalityType DEF RiskScore

(* A processor that is done has forgotten everything. *)
LEMMA ForgetKeeps ==
  ASSUME NEW w \in Workers, WorkersOK, JobHeld, PlanMoves, Forget(w)
  PROVE  WorkersOK' /\ JobHeld' /\ PlanMoves'
<1>1. NoView \in Views /\ NoPlan \in Plans /\ "idle" \in StepNames
  BY DEF NoView, NoPlan, Views, Plans, NULL, StepNames
<1>2. WorkersOK'
  BY <1>1 DEF Forget, WorkersOK
<1>3. JobHeld'
  BY DEF Forget, JobHeld, WorkersOK
<1>4. PlanMoves'
  BY DEF Forget, PlanMoves, WorkersOK
<1>. QED
  BY <1>2, <1>3, <1>4

(* Putting a job back leaves the queue typed. *)
LEMMA PutBack ==
  ASSUME QueueOK, NEW j \in Jobs
  PROVE  [waiting EXCEPT ![j] = @ + 1] \in [Jobs -> Nat]
BY DEF QueueOK

(* A job that throws goes back to the queue or is dropped. *)
LEMMA ThrowKeeps ==
  ASSUME NEW w \in Workers, TypeInv, step[w] # "idle", Throw(w)
  PROVE  /\ WorkersOK' /\ JobHeld' /\ PlanMoves' /\ waiting' \in [Jobs -> Nat]
         /\ \A j \in Jobs : j[1] = "deliver" /\ waiting'[j] > 0 => updates[j[2]].status # "NONE"
<1>1. WorkersOK' /\ JobHeld' /\ PlanMoves'
  BY ForgetKeeps DEF Throw, TypeInv, Typed
<1> DEFINE next == <<job[w][1], job[w][2], job[w][3] + 1>>
<1>2. job[w] \in Jobs /\ (job[w][1] = "deliver" => updates[job[w][2]].status # "NONE")
  BY DEF TypeInv, JobHeld, Recorded, Incident
<1>3. CASE owned[w] /\ job[w][3] + 1 < MaxAttempts
  <2>1. next \in Jobs /\ next[1] = job[w][1] /\ next[2] = job[w][2]
    BY <1>2, <1>3 DEF Jobs
  <2>2. waiting' = [waiting EXCEPT ![next] = @ + 1]
    BY <1>3 DEF Throw
  <2>. QED
    BY <1>1, <1>2, <2>1, <2>2, PutBack DEF TypeInv, Typed, QueueOK, Recorded
<1>4. CASE ~(owned[w] /\ job[w][3] + 1 < MaxAttempts)
  BY <1>1, <1>4 DEF Throw, TypeInv, Typed, QueueOK, Recorded
<1>. QED
  BY <1>3, <1>4

(* A processor that is done leaves every other as recorded as it was. *)
LEMMA ForgetRecords ==
  ASSUME NEW w \in Workers, TypeInv, Forget(w),
         \A i \in Incidents : updates[i].status # "NONE" => updates'[i].status # "NONE"
  PROVE  \A v \in Workers :
           step'[v] \in Delivering \cup {"enqueue"} => updates'[Incident(v)'].status # "NONE"
<1> SUFFICES ASSUME NEW v \in Workers, step'[v] \in Delivering \cup {"enqueue"}
             PROVE  updates'[Incident(v)'].status # "NONE"
  OBVIOUS
<1>1. v # w /\ step'[v] = step[v] /\ job'[v] = job[v]
  BY DEF Forget, TypeInv, Typed, WorkersOK, Delivering
<1>2. job[v] \in Jobs /\ job[v][2] \in Incidents
  BY <1>1 DEF TypeInv, JobHeld, Jobs, Delivering
<1>. QED
  BY <1>1, <1>2 DEF TypeInv, Recorded, Incident

(* The statements that touch neither jobs nor processors. *)
LEMMA TypeSession ==
  ASSUME TypeInv,
         \/ Tick \/ \E i \in Incidents : EndIncident(i)
         \/ StartAssess \/ StartInsert \/ Cancel \/ ExpireDue
  PROVE  TypeInv'
<1> USE DEF TypeInv, Typed, WorldOK, SessionOK, UpdatesOK, QueueOK, WorkersOK, JobHeld, Recorded,
            PlanMoves, Incident, session, world, queue, workers
<1>1. CASE Tick
  BY <1>1 DEF Tick, Times
<1>2. CASE \E i \in Incidents : EndIncident(i)
  BY <1>2 DEF EndIncident
<1>3. CASE StartAssess
  BY <1>3, RiskType DEF StartAssess
<1>4. CASE StartInsert
  BY <1>4 DEF StartInsert, NavigationSessionStatus, Times
<1>5. CASE Cancel
  BY <1>5 DEF Cancel, NavigationSessionStatus
<1>6. CASE ExpireDue
  BY <1>6 DEF ExpireDue, NavigationSessionStatus
<1>. QED
  BY <1>1, <1>2, <1>3, <1>4, <1>5, <1>6

(* The steps of the queue: jobs added, taken, and given back. *)
LEMMA TypeQueue ==
  ASSUME TypeInv,
         \/ \E i \in Incidents : Report(i) \/ ReportLost(i)
         \/ \E w \in Workers : Crash(w) \/ LoseLock(w) \/ \E j \in Jobs : TakeJob(w, j)
  PROVE  TypeInv'
<1> USE DEF TypeInv, Typed, WorldOK, SessionOK, UpdatesOK, QueueOK, WorkersOK, Fails,
            session, world, queue, workers
<1>1. ASSUME NEW i \in Incidents, Report(i) PROVE TypeInv'
  <2>1. <<"evaluate", i, 0>> \in Jobs
    BY DEF Jobs
  <2>. QED
    BY <1>1, <2>1, PutBack DEF Report, JobHeld, Recorded, PlanMoves, Incident
<1>2. ASSUME NEW i \in Incidents, ReportLost(i) PROVE TypeInv'
  BY <1>2 DEF ReportLost, JobHeld, Recorded, PlanMoves, Incident
<1>3. ASSUME NEW w \in Workers, Crash(w) PROVE TypeInv'
  <2>1. Forget(w) /\ UNCHANGED updates /\ job[w] \in Jobs
    BY <1>3 DEF Crash, JobHeld
  <2>2. WorkersOK' /\ JobHeld' /\ PlanMoves'
    BY <2>1, ForgetKeeps
  <2>3. \A v \in Workers :
          step'[v] \in Delivering \cup {"enqueue"} => updates'[Incident(v)'].status # "NONE"
    BY <2>1, ForgetRecords
  <2>4. waiting' \in [Jobs -> Nat]
    BY <1>3, <2>1, PutBack DEF Crash
  <2>5. \A j \in Jobs : j[1] = "deliver" /\ waiting'[j] > 0 => updates[j[2]].status # "NONE"
    BY <1>3, <2>1 DEF Crash, JobHeld, Recorded, Incident
  <2>. QED
    BY <1>3, <2>1, <2>2, <2>3, <2>4, <2>5 DEF Crash, Recorded
<1>4. ASSUME NEW w \in Workers, LoseLock(w) PROVE TypeInv'
  <2>1. job[w] \in Jobs
    BY <1>4 DEF LoseLock, JobHeld
  <2>. QED
    BY <1>4, <2>1, PutBack DEF LoseLock, JobHeld, Recorded, PlanMoves, Incident
<1>5. ASSUME NEW w \in Workers, NEW j \in Jobs, TakeJob(w, j) PROVE TypeInv'
  <2>1. waiting' \in [Jobs -> Nat]
    BY <1>5 DEF TakeJob
  <2>2. WorkersOK'
    BY <1>5 DEF TakeJob, StepNames, Delivering
  <2>3. JobHeld' /\ PlanMoves'
    BY <1>5 DEF TakeJob, JobHeld, PlanMoves, Delivering, Jobs
  <2>4. Recorded'
    <3>1. \A k \in Jobs : waiting'[k] > 0 => waiting[k] > 0
      BY <1>5 DEF TakeJob
    <3>2. step'[w] \in Delivering \cup {"enqueue"} => j[1] = "deliver"
      BY <1>5 DEF TakeJob, Delivering, Jobs
    <3>3. job'[w] = j /\ \A v \in Workers \ {w} : job'[v] = job[v] /\ step'[v] = step[v]
      BY <1>5 DEF TakeJob
    <3>. QED
      BY <1>5, <3>1, <3>2, <3>3 DEF TakeJob, Recorded, Incident
  <2>. QED
    BY <1>5, <2>1, <2>2, <2>3, <2>4 DEF TakeJob
<1>. QED
  BY <1>1, <1>2, <1>3, <1>4, <1>5

(* A processor that only moves on to its next step keeps the rest. *)
LEMMA StepType ==
  ASSUME WorkersOK, NEW w \in Workers, NEW s \in StepNames
  PROVE  [step EXCEPT ![w] = s] \in [Workers -> StepNames]
BY DEF WorkersOK

(* The steps of an evaluation that leave the session's row alone but for   *)
(* its recorded risk.                                                      *)
LEMMA TypeAssess ==
  ASSUME TypeInv, NEW w \in Workers,
         FindAffected(w) \/ FindFails(w) \/ Assess(w) \/ UpdateCurrentRisk(w) \/ Preview(w)
           \/ EvaluationError(w)
  PROVE  TypeInv'
<1> USE DEF TypeInv, Typed, WorldOK, SessionOK, UpdatesOK, QueueOK, WorkersOK, Fails,
            session, world, queue, workers
<1>1. ASSUME Complete(w), UNCHANGED <<world, session, updates>>, failures' \in 0 .. MaxFailures
      PROVE  TypeInv'
  <2>1. WorkersOK' /\ JobHeld' /\ PlanMoves'
    BY <1>1, ForgetKeeps DEF Complete
  <2>2. \A v \in Workers :
          step'[v] \in Delivering \cup {"enqueue"} => updates'[Incident(v)'].status # "NONE"
    BY <1>1, ForgetRecords DEF Complete
  <2>. QED
    BY <1>1, <2>1, <2>2 DEF Complete, Recorded
<1>2. CASE FindAffected(w)
  <2>1. CASE Complete(w)
    BY <1>1, <1>2, <2>1 DEF FindAffected
  <2>2. CASE ~Complete(w)
    <3> DEFINE view == [route |-> route, risk |-> risk, rerouted |-> rerouted]
    <3>1. view \in Views /\ "assess" \in StepNames
      BY DEF Views, StepNames, Evaluating
    <3>2. /\ step[w] = "find" /\ seen' = [seen EXCEPT ![w] = view]
          /\ step' = [step EXCEPT ![w] = "assess"]
          /\ UNCHANGED <<job, owned, assessed, plan, waiting, world, session, updates, failures>>
      BY <1>2, <2>2 DEF FindAffected
    <3>3. WorkersOK'
      BY <3>1, <3>2
    <3>4. JobHeld' /\ Recorded' /\ PlanMoves'
      BY <3>2 DEF JobHeld, Recorded, PlanMoves, Incident, Delivering
    <3>. QED
      BY <3>2, <3>3, <3>4
  <2>. QED
    BY <2>1, <2>2
<1>3. CASE FindFails(w)
  <2>1. Throw(w) /\ step[w] # "idle" /\ UNCHANGED <<world, session, updates>>
    BY <1>3 DEF FindFails
  <2>2. /\ WorkersOK' /\ JobHeld' /\ PlanMoves' /\ waiting' \in [Jobs -> Nat]
        /\ \A j \in Jobs : j[1] = "deliver" /\ waiting'[j] > 0 => updates[j[2]].status # "NONE"
    BY <2>1, ThrowKeeps
  <2>3. \A v \in Workers :
          step'[v] \in Delivering \cup {"enqueue"} => updates'[Incident(v)'].status # "NONE"
    BY <2>1, ForgetRecords DEF Throw
  <2>. QED
    BY <1>3, <2>1, <2>2, <2>3 DEF FindFails, Recorded
<1>4. CASE Assess(w)
  <2>1. CASE Complete(w)
    BY <1>1, <1>4, <2>1 DEF Assess
  <2>2. CASE ~Complete(w)
    <3>1. RiskScore(seen[w].route) \in Nat /\ "baseline" \in StepNames
      BY RiskType DEF StepNames, Evaluating
    <3>2. /\ step[w] = "assess"
          /\ assessed' = [assessed EXCEPT ![w] = RiskScore(seen[w].route)]
          /\ step' = [step EXCEPT ![w] = "baseline"]
          /\ UNCHANGED <<job, owned, seen, plan, waiting, world, session, updates, failures>>
      BY <1>4, <2>2 DEF Assess
    <3>3. WorkersOK'
      BY <3>1, <3>2
    <3>4. JobHeld' /\ Recorded' /\ PlanMoves'
      BY <3>2 DEF JobHeld, Recorded, PlanMoves, Incident, Delivering
    <3>. QED
      BY <3>2, <3>3, <3>4
  <2>. QED
    BY <2>1, <2>2
<1>5. CASE UpdateCurrentRisk(w)
  <2>1. WorkersOK' /\ risk' \in Nat
    BY <1>5 DEF UpdateCurrentRisk, StepNames, Evaluating
  <2>2. JobHeld' /\ Recorded' /\ PlanMoves'
    BY <1>5 DEF UpdateCurrentRisk, JobHeld, Recorded, PlanMoves, Incident, Delivering
  <2>. QED
    BY <1>5, <2>1, <2>2 DEF UpdateCurrentRisk
<1>6. CASE Preview(w)
  <2>1. CASE Complete(w)
    BY <1>1, <1>6, <2>1 DEF Preview
  <2>2. CASE ~Complete(w)
    <3>1. PICK r \in MeaningfulAlternatives(w) :
            /\ plan' = [plan EXCEPT ![w] = [route |-> r, risk |-> RiskScore(r)]]
            /\ step' = [step EXCEPT ![w] = "apply"]
            /\ assessed' = [assessed EXCEPT ![w] = 0]
            /\ UNCHANGED <<job, owned, seen, waiting>>
      BY <1>6, <2>2 DEF Preview
    <3>2. r \in Routes /\ r # seen[w].route /\ RiskScore(r) \in Nat /\ "apply" \in StepNames
      BY RiskType DEF MeaningfulAlternatives, StepNames, Evaluating
    <3>3. step[w] = "preview" /\ UNCHANGED <<world, session, updates, failures>>
      BY <1>6 DEF Preview
    <3>4. WorkersOK'
      BY <3>1, <3>2 DEF Plans
    <3>5. JobHeld' /\ Recorded'
      BY <3>1, <3>3 DEF JobHeld, Recorded, Incident, Delivering
    <3>6. PlanMoves'
      BY <3>1, <3>2 DEF PlanMoves
    <3>. QED
      BY <3>1, <3>3, <3>4, <3>5, <3>6
  <2>. QED
    BY <2>1, <2>2
<1>7. CASE EvaluationError(w)
  <2>1. failures' \in 0 .. MaxFailures
    BY <1>7 DEF EvaluationError
  <2>. QED
    BY <1>1, <1>7, <2>1 DEF EvaluationError
<1>. QED
  BY <1>2, <1>3, <1>4, <1>5, <1>6, <1>7

(* A recorded update stays recorded through the reroute transaction, which *)
(* records the move it makes.                                              *)
LEMMA TypeApply ==
  ASSUME TypeInv, NEW w \in Workers, ApplyRouteUpdate(w) \/ EnqueueDelivery(w)
  PROVE  TypeInv'
<1> USE DEF TypeInv, Typed, WorldOK, SessionOK, UpdatesOK, QueueOK, WorkersOK,
            session, world, queue, workers
<1> DEFINE i == Incident(w)
<1>1. CASE ApplyRouteUpdate(w) /\ Applicable(i)
  <2> DEFINE row == Update("PENDING", seen[w].route, plan[w].route)
  <2>1. /\ step[w] = "apply" /\ updates[i] = NoUpdate
        /\ updates' = [updates EXCEPT ![i] = row] /\ route' = plan[w].route
        /\ risk' = plan[w].risk /\ rerouted' = now
        /\ step' = [step EXCEPT ![w] = "enqueue"]
        /\ seen' = [seen EXCEPT ![w] = NoView] /\ plan' = [plan EXCEPT ![w] = NoPlan]
        /\ UNCHANGED <<job, owned, assessed, waiting, world, status, expiresAt, failures>>
    BY <1>1 DEF ApplyRouteUpdate, Applicable
  <2>2. seen[w] \in Views /\ plan[w] \in Plans /\ plan[w].route # seen[w].route
    BY <2>1 DEF PlanMoves
  <2>3. row \in RouteUpdates /\ row.status = "PENDING"
    BY <2>2 DEF Update, RouteUpdates, NavigationRouteUpdateStatus, Views, Plans
  <2>4. job[w] \in Jobs /\ i \in Incidents
    BY <2>1 DEF JobHeld, Incident, Jobs
  <2>5. UpdatesOK' /\ SessionOK' /\ WorldOK' /\ QueueOK'
    BY <2>1, <2>2, <2>3, <2>4 DEF Plans
  <2>6. WorkersOK'
    BY <2>1 DEF NoView, NoPlan, Views, Plans, NULL, StepNames
  <2>7. JobHeld' /\ PlanMoves'
    BY <2>1 DEF JobHeld, PlanMoves, Delivering
  <2>8. \A k \in Incidents : updates[k].status # "NONE" => updates'[k].status # "NONE"
    BY <2>1, <2>3, <2>4
  <2>9. updates'[i].status # "NONE"
    BY <2>1, <2>3, <2>4
  <2>10. Recorded'
    <3>1. ASSUME NEW v \in Workers, step'[v] \in Delivering \cup {"enqueue"}
          PROVE  updates'[Incident(v)'].status # "NONE"
      <4>1. job'[v] = job[v]
        BY <2>1
      <4>2. CASE v = w
        BY <2>9, <4>1, <4>2 DEF Incident
      <4>3. CASE v # w
        <5>1. step[v] \in Delivering \cup {"enqueue"} /\ job[v] \in Jobs /\ job[v][2] \in Incidents
          BY <2>1, <3>1, <4>3 DEF JobHeld, Jobs, Delivering
        <5>. QED
          BY <2>8, <4>1, <5>1 DEF Recorded, Incident
      <4>. QED
        BY <4>2, <4>3
    <3>2. \A j \in Jobs : j[1] = "deliver" /\ waiting'[j] > 0 => updates'[j[2]].status # "NONE"
      BY <2>1, <2>8 DEF Recorded, Jobs
    <3>. QED
      BY <3>1, <3>2 DEF Recorded
  <2>. QED
    BY <2>5, <2>6, <2>7, <2>10
<1>2. CASE ApplyRouteUpdate(w) /\ ~Applicable(i)
  <2>1. Complete(w) /\ UNCHANGED <<updates, session, world, failures>>
    BY <1>2 DEF ApplyRouteUpdate
  <2>2. WorkersOK' /\ JobHeld' /\ PlanMoves'
    BY <2>1, ForgetKeeps DEF Complete
  <2>3. \A v \in Workers :
          step'[v] \in Delivering \cup {"enqueue"} => updates'[Incident(v)'].status # "NONE"
    BY <2>1, ForgetRecords DEF Complete
  <2>. QED
    BY <2>1, <2>2, <2>3 DEF Complete, Recorded
<1>3. CASE EnqueueDelivery(w)
  <2> DEFINE j == <<"deliver", i, 0>>
  <2>1. Forget(w) /\ UNCHANGED <<world, session, updates, failures>> /\ step[w] = "enqueue"
    BY <1>3 DEF EnqueueDelivery
  <2>2. j \in Jobs /\ updates[i].status # "NONE"
    BY <2>1 DEF JobHeld, Recorded, Incident, Jobs
  <2>3. waiting' = [waiting EXCEPT ![j] = @ + 1]
    BY <1>3 DEF EnqueueDelivery
  <2>4. waiting' \in [Jobs -> Nat]
    BY <2>2, <2>3, PutBack
  <2>5. WorkersOK' /\ JobHeld' /\ PlanMoves'
    BY <2>1, ForgetKeeps
  <2>6. \A v \in Workers :
          step'[v] \in Delivering \cup {"enqueue"} => updates'[Incident(v)'].status # "NONE"
    BY <2>1, ForgetRecords
  <2>7. \A k \in Jobs : k[1] = "deliver" /\ waiting'[k] > 0 => updates'[k[2]].status # "NONE"
    BY <2>1, <2>2, <2>3 DEF Recorded
  <2>. QED
    BY <2>1, <2>4, <2>5, <2>6, <2>7 DEF Recorded
<1>. QED
  BY <1>1, <1>2, <1>3

(* The mark statements change the status of a recorded update only. *)
LEMMA MarkType ==
  ASSUME UpdatesOK, NEW i \in Incidents, updates[i].status # "NONE",
         NEW s \in NavigationRouteUpdateStatus
  PROVE  /\ [updates EXCEPT ![i].status = s] \in [Incidents -> {NoUpdate} \cup RouteUpdates]
         /\ [updates EXCEPT ![i].status = s][i].status = s
<1>1. updates[i] \in RouteUpdates
  BY DEF UpdatesOK, NoUpdate
<1>2. [updates[i] EXCEPT !.status = s] \in RouteUpdates /\ [updates[i] EXCEPT !.status = s].status = s
  BY <1>1 DEF RouteUpdates
<1>. QED
  BY <1>2 DEF UpdatesOK

(* The delivery of a route update, its failures and its second runs. *)
LEMMA TypeDeliver ==
  ASSUME TypeInv, NEW w \in Workers, Deliver(w)
  PROVE  TypeInv'
<1> USE DEF TypeInv, Typed, WorldOK, SessionOK, UpdatesOK, QueueOK, WorkersOK, Fails,
            session, world, queue, workers
<1> DEFINE i == Incident(w)
           Stays == \A k \in Incidents : updates[k].status # "NONE" => updates'[k].status # "NONE"
<1>1. step[w] \in Delivering /\ i \in Incidents /\ updates[i].status # "NONE"
  BY DEF Deliver, FindRouteUpdate, ReadFails, Publish, MarkSent, MarkFailed, Delivering, JobHeld,
         Recorded, Incident, Jobs
<1>2. ASSUME Complete(w), UNCHANGED <<world, session>>, failures' \in 0 .. MaxFailures,
             UpdatesOK', Stays
      PROVE  TypeInv'
  <2>1. WorkersOK' /\ JobHeld' /\ PlanMoves'
    BY <1>2, ForgetKeeps DEF Complete
  <2>2. \A v \in Workers :
          step'[v] \in Delivering \cup {"enqueue"} => updates'[Incident(v)'].status # "NONE"
    BY <1>2, ForgetRecords DEF Complete
  <2>3. \A j \in Jobs : j[1] = "deliver" /\ waiting'[j] > 0 => updates'[j[2]].status # "NONE"
    BY <1>2 DEF Complete, Recorded, Jobs
  <2>. QED
    BY <1>2, <2>1, <2>2, <2>3 DEF Complete, Recorded
<1>3. ASSUME Throw(w), UNCHANGED <<world, session>>, failures' \in 0 .. MaxFailures,
             UpdatesOK', Stays
      PROVE  TypeInv'
  <2>1. /\ WorkersOK' /\ JobHeld' /\ PlanMoves' /\ waiting' \in [Jobs -> Nat]
        /\ \A j \in Jobs : j[1] = "deliver" /\ waiting'[j] > 0 => updates[j[2]].status # "NONE"
    BY <1>1, <1>3, ThrowKeeps DEF Delivering
  <2>2. \A v \in Workers :
          step'[v] \in Delivering \cup {"enqueue"} => updates'[Incident(v)'].status # "NONE"
    BY <1>3, ForgetRecords DEF Throw
  <2>3. \A j \in Jobs : j[1] = "deliver" /\ waiting'[j] > 0 => updates'[j[2]].status # "NONE"
    BY <1>3, <2>1 DEF Jobs
  <2>. QED
    BY <1>3, <2>1, <2>2, <2>3 DEF Recorded
<1>4. ASSUME NEW s \in Delivering, Go(w, s), UNCHANGED <<world, session, updates>>,
             failures' \in 0 .. MaxFailures
      PROVE  TypeInv'
  <2>1. step' = [step EXCEPT ![w] = s] /\ UNCHANGED <<job, owned, seen, assessed, plan, waiting>>
    BY <1>4 DEF Go
  <2>2. WorkersOK'
    BY <2>1 DEF StepNames
  <2>3. JobHeld' /\ PlanMoves'
    BY <1>1, <2>1 DEF JobHeld, PlanMoves, Delivering
  <2>4. Recorded'
    BY <1>1, <1>4, <2>1 DEF Recorded, Incident
  <2>. QED
    BY <1>4, <2>1, <2>2, <2>3, <2>4
<1>5. CASE FindRouteUpdate(w)
  BY <1>2, <1>4, <1>5 DEF FindRouteUpdate, Delivering
<1>6. CASE ReadFails(w)
  BY <1>3, <1>6 DEF ReadFails
<1>7. CASE Publish(w)
  BY <1>4, <1>7 DEF Publish, Delivering
<1>8. CASE MarkSent(w)
  <2>1. CASE updates' = [updates EXCEPT ![i].status = "SENT"] /\ Complete(w) /\ UNCHANGED failures
    <3>1. UpdatesOK' /\ Stays
      BY <1>1, <2>1, MarkType DEF NavigationRouteUpdateStatus
    <3>. QED
      BY <1>2, <1>8, <2>1, <3>1 DEF MarkSent
  <2>2. CASE Go(w, "markFailed") /\ Fails("database") /\ UNCHANGED updates
    BY <1>4, <1>8, <2>2 DEF MarkSent, Delivering
  <2>. QED
    BY <1>8, <2>1, <2>2 DEF MarkSent
<1>9. CASE MarkFailed(w)
  <2>1. CASE updates' = [updates EXCEPT ![i].status = FailedFrom(@)] /\ UNCHANGED failures
    <3>1. FailedFrom(updates[i].status) \in NavigationRouteUpdateStatus
      BY <1>1 DEF FailedFrom, NavigationRouteUpdateStatus
    <3>2. UpdatesOK' /\ Stays
      BY <1>1, <2>1, <3>1, MarkType DEF NavigationRouteUpdateStatus
    <3>. QED
      BY <1>3, <1>9, <2>1, <3>2 DEF MarkFailed
  <2>2. CASE Fails("database") /\ UNCHANGED updates
    BY <1>3, <1>9, <2>2 DEF MarkFailed
  <2>. QED
    BY <1>9, <2>1, <2>2 DEF MarkFailed
<1>. QED
  BY <1>5, <1>6, <1>7, <1>8, <1>9 DEF Deliver

(* Every step keeps every type. *)
LEMMA TypeNext == TypeInv /\ [Next]_vars => TypeInv'
<1> SUFFICES ASSUME TypeInv, [Next]_vars PROVE TypeInv'
  OBVIOUS
<1>1. CASE UNCHANGED vars
  BY <1>1 DEF vars, world, session, queue, workers, TypeInv, Typed, WorldOK, SessionOK, UpdatesOK,
     QueueOK, WorkersOK, JobHeld, Recorded, PlanMoves, Incident
<1>2. CASE Next
  BY <1>2, TypeSession, TypeQueue, TypeAssess, TypeApply, TypeDeliver DEF Next, Evaluate
<1>. QED
  BY <1>1, <1>2

(* Type correctness; in particular a recorded update never moves the       *)
(* session to the route it was on, although the alternative was chosen     *)
(* statements before the transaction that records it.                      *)
THEOREM TypeCorrect == Spec => []TypeOK
<1>1. TypeInv => TypeOK
  BY TypeGroups DEF TypeInv, Typed
<1>. QED
  BY TypeInit, TypeNext, <1>1, PTL DEF Spec

-----------------------------------------------------------------------------
(* No two reroutes of a session are closer than the cooldown: it is tested *)
(* again under the row lock, by the transaction that moves the session.    *)
THEOREM ReroutesAreSpaced == Spec => RerouteSpacing
<1>1. [Next]_vars => [route' # route => CooledDown(rerouted)]_vars
  BY DEF Next, Evaluate, Deliver, Tick, Report, ReportLost, EndIncident, StartAssess, StartInsert,
     Cancel, ExpireDue, TakeJob, Crash, LoseLock, FindAffected, FindFails, Assess,
     UpdateCurrentRisk, Preview, ApplyRouteUpdate, Applicable, EnqueueDelivery, EvaluationError,
     FindRouteUpdate, ReadFails, Publish, MarkSent, MarkFailed, session, vars
<1>. QED
  BY <1>1, PTL DEF Spec, RerouteSpacing

(* The sessions' columns change in these steps only. *)
LEMMA WhoMoves ==
  ASSUME [Next]_vars
  PROVE  \/ UNCHANGED session
         \/ StartInsert \/ Cancel \/ ExpireDue
         \/ \E w \in Workers : UpdateCurrentRisk(w) \/ ApplyRouteUpdate(w)
<1>1. ASSUME NEW w \in Workers, Deliver(w) \/ Crash(w) \/ LoseLock(w) \/ \E j \in Jobs : TakeJob(w, j)
      PROVE  UNCHANGED session
  BY <1>1 DEF Deliver, FindRouteUpdate, ReadFails, Publish, MarkSent, MarkFailed, Crash, LoseLock,
     TakeJob
<1>2. ASSUME NEW w \in Workers, FindAffected(w) \/ FindFails(w) \/ Assess(w) \/ Preview(w)
                                 \/ EnqueueDelivery(w) \/ EvaluationError(w)
      PROVE  UNCHANGED session
  BY <1>2 DEF FindAffected, FindFails, Assess, Preview, EnqueueDelivery, EvaluationError
<1>3. ASSUME Tick \/ StartAssess \/ \E i \in Incidents : Report(i) \/ ReportLost(i) \/ EndIncident(i)
      PROVE  UNCHANGED session
  BY <1>3 DEF Tick, StartAssess, Report, ReportLost, EndIncident
<1>4. UNCHANGED vars => UNCHANGED session
  BY DEF vars
<1>. QED
  BY <1>1, <1>2, <1>3, <1>4 DEF Next, Evaluate

(* The rows of route updates change in these. *)
LEMMA WhoRecords ==
  ASSUME [Next]_vars
  PROVE  \/ UNCHANGED updates
         \/ \E w \in Workers : ApplyRouteUpdate(w) \/ MarkSent(w) \/ MarkFailed(w)
BY DEF Next, Evaluate, Deliver, Tick, Report, ReportLost, EndIncident, StartAssess, StartInsert,
   Cancel, ExpireDue, TakeJob, Crash, LoseLock, FindAffected, FindFails, Assess,
   UpdateCurrentRisk, Preview, EnqueueDelivery, EvaluationError, FindRouteUpdate, ReadFails,
   Publish, vars

-----------------------------------------------------------------------------
(* A start that has evaluated its route has not inserted its session. *)
StartOpen == starting # NULL => status = "NONE"

EndInv == TypeInv /\ StartOpen

(* Every step keeps it. *)
LEMMA EndNext == EndInv /\ [Next]_vars => EndInv'
<1> SUFFICES ASSUME EndInv, [Next]_vars PROVE StartOpen'
  BY TypeNext DEF EndInv
<1>1. \/ UNCHANGED starting \/ StartAssess \/ StartInsert
  BY DEF Next, Evaluate, Deliver, Tick, Report, ReportLost, EndIncident, Cancel, ExpireDue,
     TakeJob, Crash, LoseLock, FindAffected, FindFails, Assess, UpdateCurrentRisk, Preview,
     ApplyRouteUpdate, EnqueueDelivery, EvaluationError, FindRouteUpdate, ReadFails, Publish,
     MarkSent, MarkFailed, world, vars
<1>2. CASE StartAssess \/ StartInsert
  BY <1>2 DEF EndInv, StartOpen, StartAssess, StartInsert, session
<1>3. CASE UNCHANGED starting
  BY <1>3, WhoMoves DEF EndInv, StartOpen, StartInsert, Cancel, ExpireDue, UpdateCurrentRisk,
     ApplyRouteUpdate, session
<1>. QED
  BY <1>1, <1>2, <1>3

(* An ended session is left as it ended: each of the three statements of   *)
(* an evaluation that could write to it tests the status.                  *)
THEOREM EndedStaysUntouched == Spec => EndedUntouched
<1>1. Init => EndInv
  BY TypeInit DEF Init, EndInv, StartOpen
<1>2. EndInv /\ [Next]_vars => [status \notin {"NONE", "ACTIVE"} => session' = session]_vars
  <2> SUFFICES ASSUME EndInv, [Next]_vars, status \notin {"NONE", "ACTIVE"}
               PROVE  session' = session
    OBVIOUS
  <2>1. CASE StartInsert \/ Cancel \/ ExpireDue
    BY <2>1 DEF EndInv, StartOpen, StartInsert, Cancel, ExpireDue
  <2>2. ASSUME NEW w \in Workers, UpdateCurrentRisk(w) PROVE session' = session
    BY <2>2 DEF UpdateCurrentRisk, session
  <2>3. ASSUME NEW w \in Workers, ApplyRouteUpdate(w) PROVE session' = session
    BY <2>3 DEF ApplyRouteUpdate, Applicable, session
  <2>. QED
    BY WhoMoves, <2>1, <2>2, <2>3
<1>. QED
  BY <1>1, <1>2, EndNext, PTL DEF Spec, EndedUntouched

(* SENT is final: a second run of a delivery, after a lost lock, may fail  *)
(* but does not take it back.                                              *)
THEOREM SentStaysSent == Spec => SentIsFinal
<1> DEFINE Final == \A i \in Incidents : updates[i].status = "SENT" => updates'[i] = updates[i]
<1>1. TypeInv /\ [Next]_vars => [Final]_vars
  <2> SUFFICES ASSUME TypeInv, [Next]_vars, NEW i \in Incidents, updates[i].status = "SENT"
               PROVE  updates'[i] = updates[i]
    OBVIOUS
  <2>1. updates[i] \in RouteUpdates /\ [updates[i] EXCEPT !.status = "SENT"] = updates[i]
    BY DEF TypeInv, Typed, UpdatesOK, NoUpdate, RouteUpdates
  <2>2. ASSUME NEW w \in Workers, ApplyRouteUpdate(w) PROVE updates'[i] = updates[i]
    BY <2>2, <2>1 DEF ApplyRouteUpdate, Applicable, NoUpdate, TypeInv, Typed, UpdatesOK
  <2>3. ASSUME NEW w \in Workers, MarkSent(w) PROVE updates'[i] = updates[i]
    BY <2>3, <2>1 DEF MarkSent, TypeInv, Typed, UpdatesOK
  <2>4. ASSUME NEW w \in Workers, MarkFailed(w) PROVE updates'[i] = updates[i]
    BY <2>4, <2>1 DEF MarkFailed, FailedFrom, TypeInv, Typed, UpdatesOK
  <2>. QED
    BY WhoRecords, <2>2, <2>3, <2>4
<1>. QED
  BY TypeInit, TypeNext, <1>1, PTL DEF Spec, SentIsFinal

-----------------------------------------------------------------------------
(* An evaluation under way saw the session on the route it is on, unless   *)
(* the session was moved since: the times of two moves differ, since a     *)
(* move waits for the cooldown of the one before.                          *)
FreshView ==
  /\ rerouted <= now
  /\ \A w \in Workers : step[w] \in Evaluating =>
       /\ seen[w].rerouted <= rerouted
       /\ seen[w].rerouted = rerouted => seen[w].route = route

MoveInv == TypeInv /\ FreshView

(* A move comes after the one before. *)
LEMMA LaterMove ==
  ASSUME WorldOK, SessionOK, CooledDown(rerouted)
  PROVE  rerouted < now
BY DEF WorldOK, SessionOK, CooledDown, Times, NULL

(* Every step keeps it. *)
LEMMA MoveNext == MoveInv /\ [Next]_vars => MoveInv'
<1> SUFFICES ASSUME MoveInv, [Next]_vars PROVE FreshView'
  BY TypeNext DEF MoveInv
<1> USE DEF MoveInv, FreshView, TypeInv, Typed, WorkersOK
<1>0. now \in Int /\ rerouted \in Int /\ \A w \in Workers : seen[w].rerouted \in Int
  BY DEF WorldOK, SessionOK, Views, Times, NULL
<1>1. CASE UNCHANGED <<route, rerouted>>
  <2>0. now' \in Int /\ now <= now'
    <3>1. Tick \/ UNCHANGED now
      BY DEF Next, Evaluate, Deliver, Report, ReportLost, EndIncident, StartAssess,
       StartInsert, Cancel, ExpireDue, TakeJob, Crash, LoseLock, FindAffected, FindFails, Assess,
       UpdateCurrentRisk, Preview, ApplyRouteUpdate, EnqueueDelivery, EvaluationError,
       FindRouteUpdate, ReadFails, Publish, MarkSent, MarkFailed, world, vars
    <3>. QED
      BY <1>0, <3>1 DEF Tick
  <2> SUFFICES ASSUME NEW v \in Workers, step'[v] \in Evaluating
               PROVE  \/ step[v] \in Evaluating /\ seen'[v] = seen[v]
                      \/ seen'[v].route = route /\ seen'[v].rerouted = rerouted
    BY <1>0, <1>1, <2>0
  <2>1. ASSUME NEW w \in Workers,
               Evaluate(w) \/ Deliver(w) \/ Crash(w) \/ LoseLock(w) \/ \E j \in Jobs : TakeJob(w, j)
        PROVE  \/ step[v] \in Evaluating /\ seen'[v] = seen[v]
               \/ seen'[v].route = route /\ seen'[v].rerouted = rerouted
    <3>1. CASE w # v
      BY <2>1, <3>1 DEF Evaluate, Deliver, TakeJob, Crash, LoseLock, FindAffected, FindFails, Assess,
         UpdateCurrentRisk, Preview, ApplyRouteUpdate, EnqueueDelivery, EvaluationError,
         FindRouteUpdate, ReadFails, Publish, MarkSent, MarkFailed, Complete, Throw, Forget, Go
    <3>2. CASE w = v
      <4>1. ~Forget(v) /\ ~Complete(v) /\ ~Throw(v)
        BY DEF Forget, Complete, Throw, Evaluating
      <4>2. CASE FindAffected(v)
        BY <4>1, <4>2 DEF FindAffected
      <4>3. CASE Assess(v) \/ UpdateCurrentRisk(v) \/ Preview(v) \/ LoseLock(v)
        BY <4>1, <4>3 DEF Assess, UpdateCurrentRisk, Preview, LoseLock, Evaluating
      <4>4. ~ApplyRouteUpdate(v) /\ ~(\E j \in Jobs : TakeJob(v, j))
        BY <4>1 DEF ApplyRouteUpdate, TakeJob, Evaluating
      <4>5. ~Deliver(v)
        BY <4>1 DEF Deliver, FindRouteUpdate, ReadFails, Publish, MarkSent, MarkFailed, Go, Evaluating
      <4>. QED
        BY <2>1, <3>2, <4>1, <4>2, <4>3, <4>4, <4>5 DEF Evaluate, FindFails, EnqueueDelivery,
           EvaluationError, Crash
    <3>. QED
      BY <3>1, <3>2
  <2>2. CASE UNCHANGED workers
    BY <2>2 DEF workers
  <2>3. \/ UNCHANGED workers
        \/ \E w \in Workers : Evaluate(w) \/ Deliver(w) \/ Crash(w) \/ LoseLock(w)
                              \/ \E j \in Jobs : TakeJob(w, j)
    BY DEF Next, Tick, Report, ReportLost, EndIncident, StartAssess, StartInsert, Cancel, ExpireDue,
       vars
  <2>. QED
    BY <2>1, <2>2, <2>3
<1>2. CASE ~ UNCHANGED <<route, rerouted>>
  <2>1. PICK w \in Workers : ApplyRouteUpdate(w)
    BY <1>2, WhoMoves DEF StartInsert, Cancel, ExpireDue, UpdateCurrentRisk, session
  <2>2. /\ rerouted' = now /\ now' = now /\ CooledDown(rerouted)
        /\ \A v \in Workers : step'[v] \in Evaluating => step[v] \in Evaluating /\ seen'[v] = seen[v]
    BY <1>2, <2>1 DEF ApplyRouteUpdate, Applicable, Complete, Forget, world, Evaluating
  <2>3. rerouted < now
    BY <2>2, LaterMove
  <2>. QED
    BY <1>0, <2>2, <2>3
<1>. QED
  BY <1>1, <1>2

(* Each move is recorded, once per incident, ending at the route the       *)
(* session is on, and beginning at the one it left or at one a decision    *)
(* outlived by a cooldown was about; for any number of evaluations that    *)
(* take any time.                                                          *)
THEOREM EveryMoveIsRecorded == Spec => MovesAreRecorded
<1> DEFINE True ==
      /\ <<route, rerouted>>' # <<route, rerouted>> => \E i \in Incidents : NewUpdate(i)
      /\ \A i \in Incidents : NewUpdate(i) =>
           /\ updates'[i].to = route'
           /\ \/ updates'[i].from = route
              \/ \E w \in Workers : Overtaken(w) /\ Incident(w) = i
<1>1. Init => MoveInv
  BY TypeInit DEF Init, MoveInv, FreshView, Evaluating, NULL
<1>2. MoveInv /\ [Next]_vars => [True]_vars
  <2> SUFFICES ASSUME MoveInv, [Next]_vars PROVE True
    OBVIOUS
  <2> USE DEF MoveInv, TypeInv, Typed, UpdatesOK
  <2>1. ASSUME NEW w \in Workers, ApplyRouteUpdate(w), Applicable(Incident(w)) PROVE True
    <3> DEFINE row == Update("PENDING", seen[w].route, plan[w].route)
    <3>1. /\ updates[Incident(w)] = NoUpdate /\ updates' = [updates EXCEPT ![Incident(w)] = row]
          /\ route' = plan[w].route /\ step[w] = "apply" /\ CooledDown(rerouted)
      BY <2>1 DEF ApplyRouteUpdate, Applicable
    <3>2. Incident(w) \in Incidents
      BY <3>1 DEF JobHeld, Incident, Jobs
    <3>3. seen[w].route = route \/ Overtaken(w)
      BY <3>1 DEF FreshView, Evaluating, Overtaken
    <3>4. row # NoUpdate /\ row.from = seen[w].route /\ row.to = route'
      BY <3>1 DEF Update, NoUpdate
    <3>5. updates'[Incident(w)] = row /\ \A i \in Incidents \ {Incident(w)} : updates'[i] = updates[i]
      BY <3>1, <3>2
    <3>6. \A i \in Incidents : NewUpdate(i) => i = Incident(w)
      BY <3>5 DEF NewUpdate
    <3>7. NewUpdate(Incident(w))
      BY <3>1, <3>4, <3>5 DEF NewUpdate
    <3> HIDE DEF row
    <3>. QED
      BY <3>2, <3>3, <3>4, <3>5, <3>6, <3>7
  <2>2. ASSUME NEW w \in Workers, ApplyRouteUpdate(w), ~Applicable(Incident(w)) PROVE True
    BY <2>2 DEF ApplyRouteUpdate, NewUpdate
  <2>3. ASSUME NEW w \in Workers, MarkSent(w) \/ MarkFailed(w) PROVE True
    <3>1. /\ Incident(w) \in Incidents /\ updates[Incident(w)].status # "NONE"
          /\ UNCHANGED <<route, rerouted>>
      BY <2>3 DEF MarkSent, MarkFailed, JobHeld, Recorded, Delivering, Incident, Jobs, session
    <3>2. updates[Incident(w)] # NoUpdate
      BY <3>1 DEF NoUpdate
    <3>3. \A i \in Incidents \ {Incident(w)} : updates'[i] = updates[i]
      BY <2>3 DEF MarkSent, MarkFailed
    <3>. QED
      BY <3>1, <3>2, <3>3 DEF NewUpdate
  <2>4. CASE UNCHANGED updates
    <3>1. \A w \in Workers : ~(ApplyRouteUpdate(w) /\ Applicable(Incident(w)))
      BY <2>4 DEF ApplyRouteUpdate, Applicable, JobHeld, Incident, Jobs, Update, NoUpdate
    <3>2. UNCHANGED <<route, rerouted>>
      BY <3>1, WhoMoves DEF StartInsert, Cancel, ExpireDue, UpdateCurrentRisk, ApplyRouteUpdate,
         session
    <3>. QED
      BY <2>4, <3>2 DEF NewUpdate
  <2>. QED
    BY WhoRecords, <2>1, <2>2, <2>3, <2>4
<1>. QED
  BY <1>1, <1>2, MoveNext, PTL DEF Spec, MovesAreRecorded
=============================================================================
