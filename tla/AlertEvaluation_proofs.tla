----------------------- MODULE AlertEvaluation_proofs -----------------------
(***************************************************************************)
(* Proofs about AlertEvaluation for any users, types, severities, batch    *)
(* size, evaluators, changes and attempts.                                 *)
(***************************************************************************)
EXTENDS AlertEvaluation, WellFoundedInduction, TLAPS

USE UsersAssumption, LevelAssumption, BatchAssumption, EvaluatorsAssumption,
    ChangesAssumption, AttemptsAssumption, FaultsAssumption

(* The smallest user of a page that has one is on the page. *)
LEMMA LeastOnPage ==
  ASSUME NEW S \in SUBSET Users, S # {}
  PROVE  Least(S) \in S
<1>1. S \subseteq Nat
  OBVIOUS
<1>2. PICK u \in S : \A v \in S : ~ (<<v, u>> \in OpToRel(<, Nat))
  BY <1>1, NatLessThanWellFounded, WFMin
<1>3. \A v \in S : <<v, u>> \in Nat \X Nat /\ <<v, u>>[1] = v /\ <<v, u>>[2] = u
  BY <1>1
<1>4. \A v \in S : ~ (v < u)
  BY <1>2, <1>3, Zenon DEF OpToRel
<1>5. \A v \in S : u <= v
  BY <1>1, <1>4
<1>. QED
  BY <1>5 DEF Least

-----------------------------------------------------------------------------
(* A job that may still run has an attempt left. *)
AttemptsLeft == \A k \in Events : jobAt[k] # "failed" => jobMade[k] < MaxAttempts

(* Only a running job has an owner, and a change not yet said has no job. *)
JobsKnown ==
  /\ \A k \in Events : jobOwner[k] # NoEvaluator => jobAt[k] = "active"
  /\ \A k \in Events : k \in unsaid \/ k > changes => jobAt[k] = "absent"
  /\ \A k \in unsaid : k <= changes

TypeInv == TypeOK /\ AttemptsLeft /\ JobsKnown

(* Initially everything has its type. *)
LEMMA TypeInit == Init => TypeInv
BY DEF Init, TypeInv, TypeOK, AttemptsLeft, JobsKnown, Events, Triggers, Levels, JobStates, Steps

(* One more notification of one user keeps the type of rows. *)
LEMMA RecordType ==
  ASSUME NEW f \in [Users -> [Triggers -> Nat]], NEW u \in Users, NEW t \in Triggers
  PROVE  [f EXCEPT ![u][t] = @ + 1] \in [Users -> [Triggers -> Nat]]
<1>1. f[u] \in [Triggers -> Nat] /\ f[u][t] \in Nat
  OBVIOUS
<1>2. f[u][t] + 1 \in Nat
  BY <1>1
<1>3. [f[u] EXCEPT ![t] = @ + 1] \in [Triggers -> Nat]
  BY <1>1, <1>2
<1>. QED
  BY <1>3

(* One more trigger queued for one user keeps the type of queued. *)
LEMMA QueueType ==
  ASSUME NEW f \in [Users -> SUBSET Triggers], NEW u \in Users, NEW t \in Triggers
  PROVE  [f EXCEPT ![u] = @ \cup {t}] \in [Users -> SUBSET Triggers]
<1>1. f[u] \cup {t} \in SUBSET Triggers
  OBVIOUS
<1>. QED
  BY <1>1

(* The conjuncts of the type invariant about an evaluator's page. *)
PageOK ==
  /\ pc \in [Evaluators -> Steps]
  /\ seen \in [Evaluators -> Triggers]
  /\ page \in [Evaluators -> SUBSET Users]
  /\ \A e \in Evaluators : pc[e] \in {"check", "insert", "enqueue"} => page[e] # {}
  /\ isLast \in [Evaluators -> BOOLEAN]
  /\ cursor \in [Evaluators -> Users \cup {0}]

(* Moving on to the next target keeps them. *)
LEMMA AdvanceType ==
  ASSUME PageOK, NEW e \in Evaluators, page[e] # {}, Advance(e)
  PROVE  PageOK'
<1>1. Target(e) \in Users
  BY LeastOnPage DEF Target, PageOK
<1>. QED
  BY <1>1 DEF PageOK, Advance, Steps

(* Every step keeps every type. *)
LEMMA TypeNext == TypeInv /\ [Next]_vars => TypeInv'
<1> SUFFICES ASSUME TypeInv, [Next]_vars PROVE TypeInv'
  OBVIOUS
<1> USE DEF TypeInv, TypeOK, AttemptsLeft, JobsKnown, JobStates,
            sourceVars, jobVars, pageVars, alertVars
<1>0. PageOK
  BY DEF PageOK
<1>1. ASSUME NEW t \in Triggers, ChangeSource(t) PROVE TypeInv'
  BY <1>1 DEF ChangeSource, Events
<1>2. CASE EndSource
  BY <1>2 DEF EndSource
<1>3. ASSUME NEW k \in Events, AddEvaluation(k) PROVE TypeInv'
  BY <1>3, SMTT(30) DEF AddEvaluation, Events
<1>4. ASSUME NEW k \in Events, AddLost(k) PROVE TypeInv'
  BY <1>4 DEF AddLost
<1>5. ASSUME NEW k \in Events, Promote(k) PROVE TypeInv'
  BY <1>5 DEF Promote
<1>6. ASSUME NEW k \in Events, NEW e \in Evaluators, TakeJob(e, k) PROVE TypeInv'
  BY <1>6 DEF TakeJob, Steps
<1>7. ASSUME NEW k \in Events, NEW e \in Evaluators, Crash(e, k) PROVE TypeInv'
  BY <1>7 DEF Crash, Steps
<1>8. ASSUME NEW k \in Events, NEW e \in Evaluators, ReportReturn(e, k) PROVE TypeInv'
  BY <1>8 DEF ReportReturn, Steps
<1>9. ASSUME NEW k \in Events, NEW e \in Evaluators, ReportThrow(e, k) PROVE TypeInv'
  BY <1>9 DEF ReportThrow, Steps
<1>10. ASSUME NEW e \in Evaluators, FetchTargets(e) PROVE TypeInv'
  <2>1. FirstBatch(Targets(cursor[e])) \in SUBSET Users
    BY DEF FirstBatch, Targets
  <2>. QED
    BY <1>10, <2>1 DEF FetchTargets, Steps
<1>11. ASSUME NEW e \in Evaluators, CheckEscalation(e) PROVE TypeInv'
  <2>1. CASE Advance(e)
    <3>1. PageOK'
      BY <1>0, <1>11, <2>1, AdvanceType DEF CheckEscalation
    <3>. QED
      BY <1>11, <3>1 DEF CheckEscalation, PageOK
  <2>2. CASE pc' = [pc EXCEPT ![e] = "insert"] /\ UNCHANGED pageVars
    BY <1>11, <2>2 DEF CheckEscalation, Steps
  <2>. QED
    BY <1>11, <2>1, <2>2 DEF CheckEscalation
<1>12. ASSUME NEW e \in Evaluators, InsertNotification(e) PROVE TypeInv'
  <2>1. CASE Advance(e) /\ UNCHANGED rows
    <3>1. PageOK'
      BY <1>0, <1>12, <2>1, AdvanceType DEF InsertNotification
    <3>. QED
      BY <1>12, <2>1, <3>1 DEF InsertNotification, PageOK
  <2>2. CASE /\ rows' = [rows EXCEPT ![Target(e)][seen[e]] = @ + 1]
             /\ pc' = [pc EXCEPT ![e] = "enqueue"]
             /\ UNCHANGED pageVars
    <3>0. Target(e) \in Users /\ seen[e] \in Triggers
      BY <1>12, LeastOnPage DEF InsertNotification, Target
    <3>1. rows' \in [Users -> [Triggers -> Nat]]
      BY <2>2, <3>0, RecordType
    <3>. QED
      BY <1>12, <2>2, <3>1 DEF InsertNotification, Steps
  <2>. QED
    BY <1>12, <2>1, <2>2 DEF InsertNotification
<1>13. ASSUME NEW e \in Evaluators, EnqueueDeliveries(e) PROVE TypeInv'
  <2>0. page[e] # {} /\ Advance(e)
    BY <1>13 DEF EnqueueDeliveries
  <2>1. PageOK'
    BY <1>0, <2>0, AdvanceType
  <2>2. Target(e) \in Users /\ seen[e] \in Triggers
    BY <2>0, LeastOnPage DEF Target
  <2>3. queued' \in [Users -> SUBSET Triggers]
    BY <1>13, <2>2, QueueType DEF EnqueueDeliveries
  <2>4. UNCHANGED <<sourceVars, jobVars, rows>>
    BY <1>13 DEF EnqueueDeliveries
  <2>. QED
    BY <2>1, <2>3, <2>4 DEF PageOK
<1>13a. ASSUME NEW e \in Evaluators, EnqueueFails(e) PROVE TypeInv'
  <2>0. page[e] # {} /\ Advance(e) /\ UNCHANGED <<sourceVars, jobVars, alertVars>>
    BY <1>13a DEF EnqueueFails
  <2>1. PageOK'
    BY <1>0, <2>0, AdvanceType
  <2>. QED
    BY <2>0, <2>1 DEF PageOK
<1>14. ASSUME NEW e \in Evaluators, QueryFails(e) PROVE TypeInv'
  BY <1>14 DEF QueryFails, Steps
<1>15. CASE UNCHANGED vars
  BY <1>15 DEF vars
<1>. QED
  BY <1>1, <1>2, <1>3, <1>4, <1>5, <1>6, <1>7, <1>8, <1>9, <1>10, <1>11, <1>12, <1>13,
     <1>13a, <1>14, <1>15 DEF Next, Evaluate

(* Type correctness: sources, jobs, evaluators and notifications keep to   *)
(* their types, and no evaluator handles a target it does not have.        *)
THEOREM TypeCorrect == Spec => []TypeOK
<1>1. TypeInv => TypeOK
  BY DEF TypeInv
<1>. QED
  BY TypeInit, TypeNext, <1>1, PTL DEF Spec

-----------------------------------------------------------------------------
(* Notifications are only ever added by InsertNotification.                *)

(* A step that changes the notifications is an insert of one evaluator. *)
LEMMA OnlyInsertsRecord ==
  ASSUME [Next]_vars, rows' # rows
  PROVE  \E e \in Evaluators : InsertNotification(e)
BY DEF Next, Evaluate, ChangeSource, EndSource, AddEvaluation, AddLost, Promote, TakeJob, Crash,
       ReportReturn, ReportThrow, FetchTargets, CheckEscalation, EnqueueDeliveries, EnqueueFails,
       QueryFails, alertVars, vars

(* An insert that changes the notifications adds the first one of its key. *)
LEMMA InsertIsFirst ==
  ASSUME TypeInv, NEW e \in Evaluators, InsertNotification(e), rows' # rows
  PROVE  /\ Target(e) \in Users /\ seen[e] \in Triggers
         /\ rows[Target(e)][seen[e]] = 0
         /\ rows' = [rows EXCEPT ![Target(e)][seen[e]] = @ + 1]
<1>1. page[e] \in SUBSET Users /\ page[e] # {} /\ seen[e] \in Triggers
  BY DEF InsertNotification, TypeInv, TypeOK
<1>2. Target(e) \in Users
  BY <1>1, LeastOnPage DEF Target
<1>3. rows[Target(e)][seen[e]] \in Nat
  <2>1. rows \in [Users -> [Triggers -> Nat]]
    BY DEF TypeInv, TypeOK
  <2>2. rows[Target(e)] \in [Triggers -> Nat]
    BY <1>2, <2>1
  <2>. QED
    BY <1>1, <2>2
<1>4. ~ (rows[Target(e)][seen[e]] > 0)
  BY DEF InsertNotification
<1>5. rows' = [rows EXCEPT ![Target(e)][seen[e]] = @ + 1]
  BY <1>4 DEF InsertNotification
<1>6. rows[Target(e)][seen[e]] = 0
  BY <1>3, <1>4
<1>. QED
  BY <1>1, <1>2, <1>5, <1>6

OnceInv == TypeInv /\ OncePerTrigger

(* The unique dedupe key keeps every user at one notification per trigger. *)
LEMMA OnceNext == OnceInv /\ [Next]_vars => OnceInv'
<1> SUFFICES ASSUME OnceInv, [Next]_vars PROVE OncePerTrigger'
  BY TypeNext DEF OnceInv
<1>1. CASE rows' = rows
  BY <1>1 DEF OnceInv, OncePerTrigger
<1>2. CASE rows' # rows
  <2>1. PICK e \in Evaluators : InsertNotification(e)
    BY <1>2, OnlyInsertsRecord
  <2>2. /\ rows[Target(e)][seen[e]] = 0
        /\ rows' = [rows EXCEPT ![Target(e)][seen[e]] = @ + 1]
    BY <1>2, <2>1, InsertIsFirst DEF OnceInv
  <2>. QED
    BY <2>2 DEF OnceInv, OncePerTrigger, TypeInv, TypeOK
<1>. QED
  BY <1>1, <1>2

(* No user is notified twice of one type and severity of a source, however *)
(* many evaluators run and whatever fails.                                 *)
THEOREM NotifiedOnce == Spec => []OncePerTrigger
<1>1. Init => OnceInv
  BY TypeInit DEF Init, OnceInv, OncePerTrigger
<1>2. OnceInv => OncePerTrigger
  BY DEF OnceInv
<1>. QED
  BY OnceNext, <1>1, <1>2, PTL DEF Spec

-----------------------------------------------------------------------------
(* Escalation: with one evaluator nothing comes between the SELECT MAX and *)
(* the INSERT of createIfAbsent.                                           *)

Checked == \A e \in Evaluators : pc[e] = "insert" => ~Outranked(Target(e), seen[e])

EscalationInv == TypeInv /\ Checked

(* What the check found still holds when the only evaluator inserts. *)
LEMMA CheckedNext ==
  ASSUME \A e, f \in Evaluators : e = f
  PROVE  EscalationInv /\ [Next]_vars => EscalationInv'
<1> SUFFICES ASSUME EscalationInv, [Next]_vars PROVE Checked'
  BY TypeNext DEF EscalationInv
<1> USE DEF EscalationInv, TypeInv, TypeOK, sourceVars, jobVars, pageVars, alertVars
<1>1. ASSUME NEW e \in Evaluators, CheckEscalation(e) PROVE Checked'
  <2>1. CASE Advance(e)
    BY <2>1 DEF Advance, Checked
  <2>2. CASE ~Outranked(Target(e), seen[e]) /\ UNCHANGED pageVars
    BY <1>1, <2>2 DEF CheckEscalation, Checked, Outranked, Target
  <2>. QED
    BY <1>1, <2>1, <2>2 DEF CheckEscalation
<1>2. ASSUME NEW e \in Evaluators,
             FetchTargets(e) \/ InsertNotification(e) \/ EnqueueDeliveries(e) \/ EnqueueFails(e)
             \/ QueryFails(e)
      PROVE  Checked'
  <2>1. pc'[e] # "insert"
    BY <1>2 DEF FetchTargets, InsertNotification, EnqueueDeliveries, EnqueueFails, QueryFails,
                Advance
  <2>. QED
    BY <2>1 DEF Checked
<1>3. ASSUME NEW e \in Evaluators, NEW k \in Events,
             TakeJob(e, k) \/ Crash(e, k) \/ ReportReturn(e, k) \/ ReportThrow(e, k)
      PROVE  Checked'
  <2>1. pc'[e] # "insert"
    BY <1>3 DEF TakeJob, Crash, ReportReturn, ReportThrow
  <2>. QED
    BY <2>1 DEF Checked
<1>4. CASE UNCHANGED <<pc, pageVars, alertVars>>
  BY <1>4 DEF Checked, Outranked, Target
<1>. QED
  BY <1>1, <1>2, <1>3, <1>4 DEF Next, Evaluate, ChangeSource, EndSource, AddEvaluation, AddLost,
     Promote, vars

(* With a single evaluator nobody is notified of a severity after a higher *)
(* one; the run alert_downgrade shows that two evaluators break this.      *)
THEOREM EscalatesOnly ==
  ASSUME \A e, f \in Evaluators : e = f
  PROVE  Spec => EscalationOnly
<1>1. Init => EscalationInv
  BY TypeInit DEF Init, EscalationInv, Checked
<1>2. EscalationInv /\ [Next]_vars =>
        [\A u \in Users : \A t \in Triggers : rows'[u][t] > rows[u][t] => ~Outranked(u, t)]_vars
  <2> SUFFICES ASSUME EscalationInv, [Next]_vars, NEW u \in Users, NEW t \in Triggers,
                      rows'[u][t] > rows[u][t]
               PROVE  ~Outranked(u, t)
    OBVIOUS
  <2>1. rows[u][t] \in Nat
    BY DEF EscalationInv, TypeInv, TypeOK
  <2>2. rows' # rows
    BY <2>1
  <2>3. PICK e \in Evaluators : InsertNotification(e)
    BY <2>2, OnlyInsertsRecord
  <2>4. rows' = [rows EXCEPT ![Target(e)][seen[e]] = @ + 1]
    BY <2>2, <2>3, InsertIsFirst DEF EscalationInv
  <2>5. u = Target(e) /\ t = seen[e]
    BY <2>1, <2>4 DEF EscalationInv, TypeInv, TypeOK
  <2>6. pc[e] = "insert"
    BY <2>3 DEF InsertNotification
  <2>. QED
    BY <2>5, <2>6 DEF EscalationInv, Checked
<1>. QED
  BY <1>1, <1>2, CheckedNext, PTL DEF Spec, EscalationOnly
=============================================================================
