--------------------- MODULE NotificationDelivery_proofs ---------------------
(***************************************************************************)
(* Proofs about NotificationDelivery for any channels, processors, attempt *)
(* and stall limits.                                                       *)
(***************************************************************************)
EXTENDS NotificationDelivery, FiniteSetTheorems, TLAPS

USE ChannelsAssumption, WorkersAssumption, AttemptsAssumption, StallsAssumption,
    FaultsAssumption

(* Helper lemmas: what the pure operators return. *)

(* The state computed from any delivery rows is a state of the enum. *)
LEMMA AggregateType ==
  ASSUME NEW rows
  PROVE  Aggregate(rows) \in NotificationState
BY DEF Aggregate, NotificationState

(* A failed run of deliver() writes FAILED or DEAD_LETTER. *)
LEMMA FailureVerdictType ==
  ASSUME NEW m
  PROVE  FailureVerdict(m) \in {"FAILED", "DEAD_LETTER"}
BY DEF FailureVerdict

(* A mark statement leaves next_attempt_at cleared, set ahead or as it was. *)
LEMMA NextBackoffType ==
  ASSUME NEW v \in {"FAILED"} \cup Decided, NEW old \in {"none", "future", "due"}
  PROVE  NextBackoff(v, old) \in {"none", "future", "due"}
BY DEF NextBackoff, Decided, Fulfilled

-----------------------------------------------------------------------------
(* A processor about to mark writes a verdict, never an open status. *)
MarkVerdict ==
  \A w \in Workers : pc[w] \in {"mark", "commit"} => verdict[w] \in {"FAILED"} \cup Decided

(* A job that may still run has an attempt and a stall left. *)
JobLimits ==
  \A c \in Channels :
    jobAt[c] # "failed" => jobMade[c] < MaxAttempts /\ jobStalls[c] <= MaxStalls

(* Only a running job has an owner. *)
OwnerActive == \A c \in Channels : jobOwner[c] # NoWorker => jobAt[c] = "active"

Untouched(c) == jobAt[c] = "absent" /\ jobMade[c] = 0 /\ jobStalls[c] = 0

(* A delivery whose job is still to be added has no job yet. *)
FreshJobs ==
  /\ \A c \in toEnqueue : Untouched(c)
  /\ state = "ABSENT" => toEnqueue = {} /\ \A c \in Channels : Untouched(c)

TypeInv == TypeOK /\ MarkVerdict /\ JobLimits /\ OwnerActive /\ FreshJobs

(* Initially everything has its type. *)
LEMMA TypeInit == Init => TypeInv
BY DEF Init, TypeInv, TypeOK, MarkVerdict, JobLimits, OwnerActive, FreshJobs, Untouched, NotificationState, DeliveryStatus, Decided, Fulfilled, JobStates, Steps, Holding

(* Every step keeps every type and the limits of every job. *)
LEMMA TypeNext == TypeInv /\ [Next]_vars => TypeInv'
<1> SUFFICES ASSUME TypeInv, [Next]_vars PROVE TypeInv'
  OBVIOUS
<1> USE DEF TypeInv, TypeOK, MarkVerdict, JobLimits, OwnerActive, FreshJobs, Untouched, DeliveryStatus, Decided, Fulfilled, JobStates, Steps, Holding, dbVars, sendVars, queueVars, workerVars
<1>1. ASSUME NEW enabled \in (SUBSET Channels) \ {{}}, CreateNotification(enabled) PROVE TypeInv'
  BY <1>1 DEF CreateNotification, NotificationState
<1>2. CASE EvaluatorCrash
  BY <1>2 DEF EvaluatorCrash
<1>3. ASSUME NEW c \in Channels, EnqueueDelivery(c) PROVE TypeInv'
  BY <1>3 DEF EnqueueDelivery
<1>4. ASSUME NEW c \in Channels, EnqueueFails(c) PROVE TypeInv'
  BY <1>4 DEF EnqueueFails
<1>5. ASSUME NEW c \in Channels, PromoteDelayed(c) PROVE TypeInv'
  BY <1>5 DEF PromoteDelayed
<1>6. ASSUME NEW c \in Channels, StallCheck(c) PROVE TypeInv'
  BY <1>6 DEF StallCheck
<1>7. ASSUME NEW c \in Channels, BackoffElapses(c) PROVE TypeInv'
  BY <1>7 DEF BackoffElapses
<1>8. ASSUME NEW c \in Channels, LeaseExpires(c) PROVE TypeInv'
  BY <1>8 DEF LeaseExpires
<1>9. ASSUME NEW c \in Channels, NEW w \in Workers, TakeJob(w, c) PROVE TypeInv'
  BY <1>9 DEF TakeJob
<1>10. ASSUME NEW w \in Workers, ClaimDelivery(w) PROVE TypeInv'
  BY <1>10 DEF ClaimDelivery
<1>11. ASSUME NEW w \in Workers, ClaimRefused(w) PROVE TypeInv'
  BY <1>11 DEF ClaimRefused
<1>12. ASSUME NEW w \in Workers, FindRecipients(w) PROVE TypeInv'
  BY <1>12, FailureVerdictType DEF FindRecipients, Mark, Caught
<1>13. ASSUME NEW w \in Workers, SendMessage(w) PROVE TypeInv'
  BY <1>13, FailureVerdictType, SMTT(30) DEF SendMessage, Mark, Caught, Forget
<1>14. ASSUME NEW w \in Workers, SendFails(w) PROVE TypeInv'
  BY <1>14, FailureVerdictType DEF SendFails, Mark, Caught
<1>15. ASSUME NEW w \in Workers, UpdateRows(w) PROVE TypeInv'
  BY <1>15, AggregateType DEF UpdateRows
<1>16. ASSUME NEW w \in Workers, CommitMark(w) PROVE TypeInv'
  BY <1>16, NextBackoffType DEF CommitMark, NotificationState
<1>17. ASSUME NEW w \in Workers, ReportReturn(w) PROVE TypeInv'
  BY <1>17 DEF ReportReturn
<1>18. ASSUME NEW w \in Workers, ReportThrow(w) PROVE TypeInv'
  BY <1>18 DEF ReportThrow
<1>19. ASSUME NEW w \in Workers, ClaimFails(w) PROVE TypeInv'
  BY <1>19 DEF ClaimFails
<1>20. ASSUME NEW w \in Workers, MarkFails(w) PROVE TypeInv'
  BY <1>20, FailureVerdictType DEF MarkFails, Mark, Caught, DropMark, Forget
<1>21. ASSUME NEW w \in Workers, WorkerCrash(w) PROVE TypeInv'
  BY <1>21 DEF WorkerCrash, DropMark, Forget
<1>22. CASE UNCHANGED vars
  BY <1>22 DEF vars
<1>. QED
  BY <1>1, <1>2, <1>3, <1>4, <1>5, <1>6, <1>7, <1>8, <1>9, <1>10, <1>11, <1>12, <1>13,
     <1>14, <1>15, <1>16, <1>17, <1>18, <1>19, <1>20, <1>21, <1>22 DEF Next, Deliver

(* Type correctness: in every reachable state every row, job and processor *)
(* keeps to its type; BullMQ's counters never pass their limits.           *)
THEOREM TypeCorrect == Spec => []TypeOK
<1>1. Init => TypeInv
  BY TypeInit
<1>2. TypeInv /\ [Next]_vars => TypeInv'
  BY TypeNext
<1>3. TypeInv => TypeOK
  BY DEF TypeInv
<1>. QED
  BY <1>1, <1>2, <1>3, PTL DEF Spec

-----------------------------------------------------------------------------
(* Mutual exclusion of the processors.                                     *)

(* A held claim is DELIVERING and too young to be reclaimed. *)
ClaimHeld ==
  \A w \in Workers : \A c \in Channels :
    Holds(w, c) => status[c] = "DELIVERING" /\ lease[c] = "fresh"

NoRows == state = "ABSENT" => \A c \in Channels : status[c] = "NONE"

ClaimInv == TypeInv /\ ClaimHeld /\ ClaimExclusive /\ NoRows

(* Initially nothing is claimed. *)
LEMMA ClaimInit == Init => ClaimInv
BY TypeInit DEF Init, ClaimInv, ClaimHeld, ClaimExclusive, NoRows, Holds, Holding

(* No step lets a second processor in as long as leases outlive runs. *)
LEMMA ClaimNext ==
  ASSUME "longPause" \notin Faults
  PROVE  ClaimInv /\ [Next]_vars => ClaimInv'
<1> SUFFICES ASSUME ClaimInv, [Next]_vars PROVE (ClaimHeld /\ ClaimExclusive /\ NoRows)'
  BY TypeNext DEF ClaimInv
<1> USE DEF ClaimInv, TypeInv, TypeOK, ClaimHeld, ClaimExclusive, NoRows, Holds, Holding,
        dbVars, sendVars, queueVars, workerVars
<1>1. ASSUME NEW enabled \in (SUBSET Channels) \ {{}}, CreateNotification(enabled)
      PROVE  (ClaimHeld /\ ClaimExclusive /\ NoRows)'
  BY <1>1 DEF CreateNotification
<1>2. ASSUME NEW c \in Channels, LeaseExpires(c)
      PROVE  (ClaimHeld /\ ClaimExclusive /\ NoRows)'
  BY <1>2 DEF LeaseExpires
<1>3. ASSUME NEW c \in Channels, NEW w \in Workers, TakeJob(w, c)
      PROVE  (ClaimHeld /\ ClaimExclusive /\ NoRows)'
  BY <1>3 DEF TakeJob
<1>4. ASSUME NEW w \in Workers, ClaimDelivery(w)
      PROVE  (ClaimHeld /\ ClaimExclusive /\ NoRows)'
  <2>1. \A v \in Workers : ~Holds(v, ch[w])
    BY <1>4 DEF ClaimDelivery, Claimable
  <2>. QED
    BY <1>4, <2>1 DEF ClaimDelivery, Claimable
<1>5. ASSUME NEW w \in Workers, CommitMark(w)
      PROVE  (ClaimHeld /\ ClaimExclusive /\ NoRows)'
  <2>1. \A v \in Workers \ {w} : ~Holds(v, ch[w])
    BY <1>5 DEF CommitMark
  <2>2. seen[w] # "ABSENT"
    BY DEF NotificationState
  <2>. QED
    BY <1>5, <2>1, <2>2 DEF CommitMark, Fulfilled
<1>6. ASSUME NEW w \in Workers,
             FindRecipients(w) \/ SendMessage(w) \/ SendFails(w) \/ UpdateRows(w) \/ MarkFails(w)
      PROVE  (ClaimHeld /\ ClaimExclusive /\ NoRows)'
  BY <1>6 DEF FindRecipients, SendMessage, SendFails, UpdateRows, MarkFails, Mark, Caught
<1>7. ASSUME NEW w \in Workers,
             ClaimRefused(w) \/ ClaimFails(w) \/ ReportReturn(w) \/ ReportThrow(w) \/ WorkerCrash(w)
      PROVE  (ClaimHeld /\ ClaimExclusive /\ NoRows)'
  BY <1>7 DEF ClaimRefused, ClaimFails, ReportReturn, ReportThrow, WorkerCrash
<1>8. CASE EvaluatorCrash \/ UNCHANGED vars
  BY <1>8 DEF EvaluatorCrash, vars
<1>9. ASSUME NEW c \in Channels,
             EnqueueDelivery(c) \/ EnqueueFails(c) \/ PromoteDelayed(c) \/ StallCheck(c)
               \/ BackoffElapses(c)
      PROVE  (ClaimHeld /\ ClaimExclusive /\ NoRows)'
  BY <1>9 DEF EnqueueDelivery, EnqueueFails, PromoteDelayed, StallCheck, BackoffElapses
<1>. QED
  BY <1>1, <1>2, <1>3, <1>4, <1>5, <1>6, <1>7, <1>8, <1>9 DEF Next, Deliver

(* At most one processor is between claiming a delivery and recording its  *)
(* outcome, for any number of processors, crashes, stalls and lost locks,  *)
(* as long as none of them outlives its 15 minutes.                        *)
THEOREM ClaimsExclude ==
  ASSUME "longPause" \notin Faults
  PROVE  Spec => []ClaimExclusive
<1>1. ClaimInv /\ [Next]_vars => ClaimInv'
  BY ClaimNext
<1>2. ClaimInv => ClaimExclusive
  BY DEF ClaimInv
<1>. QED
  BY ClaimInit, <1>1, <1>2, PTL DEF Spec

(* SENT, SKIPPED and DEAD_LETTER are final, although no mark statement     *)
(* tests the status it overwrites: only the claim's holder can run one.    *)
THEOREM DecisionsAreFinal ==
  ASSUME "longPause" \notin Faults
  PROVE  Spec => DecidedIsFinal
<1> DEFINE Final == \A c \in Channels : status[c] \in Decided => status'[c] = status[c]
<1>1. ClaimInv /\ [Next]_vars => ClaimInv'
  BY ClaimNext
<1>2. ClaimInv /\ [Next]_vars => [Final]_vars
  <2> SUFFICES ASSUME ClaimInv, Next PROVE Final
    OBVIOUS
  <2> USE DEF ClaimInv, TypeInv, TypeOK, Decided, Fulfilled, dbVars
  <2>1. ASSUME NEW enabled \in SUBSET Channels, CreateNotification(enabled) PROVE Final
    BY <2>1 DEF CreateNotification, NoRows
  <2>2. ASSUME NEW w \in Workers, ClaimDelivery(w) PROVE Final
    BY <2>2 DEF ClaimDelivery, Claimable
  <2>3. ASSUME NEW w \in Workers, CommitMark(w) PROVE Final
    <3>1. status[ch[w]] = "DELIVERING"
      BY <2>3 DEF CommitMark, ClaimHeld, Holds, Holding
    <3>. QED
      BY <2>3, <3>1 DEF CommitMark
  <2>4. CASE status' = status
    BY <2>4
  <2>. QED
    BY <2>1, <2>2, <2>3, <2>4 DEF Next, Deliver, EvaluatorCrash, EnqueueDelivery,
       EnqueueFails, PromoteDelayed, StallCheck, BackoffElapses, LeaseExpires, TakeJob,
       ClaimRefused, FindRecipients, SendMessage, SendFails, UpdateRows, ReportReturn,
       ReportThrow, ClaimFails, MarkFails, WorkerCrash
<1>. QED
  BY ClaimInit, <1>1, <1>2, PTL DEF Spec, DecidedIsFinal

-----------------------------------------------------------------------------
(* The state of the notification.                                          *)

(* SENT is computed only from rows that are all sent, skipped or absent. *)
LEMMA AggregateSent ==
  ASSUME NEW rows, Aggregate(rows) = "SENT"
  PROVE  \A c \in Channels : rows[c] \in Fulfilled \cup {"NONE"}
BY DEF Aggregate

\* A transaction about to announce SENT saw every other delivery fulfilled,
\* and they still are.
AnnouncesTruly ==
  \A w \in Workers : pc[w] = "commit" /\ seen[w] = "SENT" =>
    /\ verdict[w] \in Fulfilled
    /\ \A c \in Channels \ {ch[w]} : status[c] \in Fulfilled \cup {"NONE"}

StateInv == ClaimInv /\ StateSound /\ AnnouncesTruly

(* Initially nothing is announced. *)
LEMMA StateInit == Init => StateInv
BY ClaimInit DEF Init, StateInv, StateSound, AnnouncesTruly

(* Neither marks nor commits of overlapping transactions announce SENT falsely. *)
LEMMA StateNext ==
  ASSUME "longPause" \notin Faults
  PROVE  StateInv /\ [Next]_vars => StateInv'
<1> SUFFICES ASSUME StateInv, [Next]_vars PROVE (StateSound /\ AnnouncesTruly)'
  BY ClaimNext DEF StateInv
<1> USE DEF StateInv, ClaimInv, TypeInv, TypeOK, StateSound, AnnouncesTruly, Fulfilled,
        dbVars, sendVars, workerVars
<1>1. ASSUME NEW enabled \in (SUBSET Channels) \ {{}}, CreateNotification(enabled)
      PROVE  (StateSound /\ AnnouncesTruly)'
  <2>1. \A w \in Workers : pc[w] # "commit"
    BY <1>1 DEF CreateNotification, NoRows, ClaimHeld, Holds, Holding
  <2>. QED
    BY <1>1, <2>1 DEF CreateNotification
<1>2. ASSUME NEW w \in Workers, ClaimDelivery(w)
      PROVE  (StateSound /\ AnnouncesTruly)'
  <2>1. status[ch[w]] \notin Fulfilled \cup {"NONE"}
    BY <1>2 DEF ClaimDelivery, Claimable
  <2>2. \A v \in Workers : pc[v] = "commit" => ch[v] # ch[w]
    BY <1>2 DEF ClaimDelivery, RowLocked
  <2>. QED
    BY <1>2, <2>1, <2>2 DEF ClaimDelivery
<1>3. ASSUME NEW w \in Workers, UpdateRows(w)
      PROVE  (StateSound /\ AnnouncesTruly)'
  <2> DEFINE rows == [status EXCEPT ![ch[w]] = verdict[w]]
  <2>1. Aggregate(rows) = "SENT" =>
          /\ verdict[w] \in Fulfilled
          /\ \A c \in Channels \ {ch[w]} : status[c] \in Fulfilled \cup {"NONE"}
    <3> SUFFICES ASSUME Aggregate(rows) = "SENT"
                 PROVE  /\ verdict[w] \in Fulfilled
                        /\ \A c \in Channels \ {ch[w]} : status[c] \in Fulfilled \cup {"NONE"}
      OBVIOUS
    <3>1. \A c \in Channels : rows[c] \in Fulfilled \cup {"NONE"}
      BY AggregateSent
    <3>2. verdict[w] # "NONE"
      BY DEF Decided
    <3>. QED
      BY <3>1, <3>2
  <2>2. seen' = [seen EXCEPT ![w] = Aggregate(rows)] /\ pc' = [pc EXCEPT ![w] = "commit"]
        /\ UNCHANGED <<state, status, ch, verdict>>
    BY <1>3 DEF UpdateRows
  <2> HIDE DEF rows
  <2>. QED
    BY <2>1, <2>2
<1>4. ASSUME NEW w \in Workers, CommitMark(w)
      PROVE  (StateSound /\ AnnouncesTruly)'
  <2>1. status[ch[w]] = "DELIVERING"
    BY <1>4 DEF CommitMark, ClaimHeld, Holds, Holding
  <2>2. \A v \in Workers \ {w} : pc[v] = "commit" => ch[v] # ch[w]
    BY <1>4 DEF CommitMark, ClaimExclusive, Holds, Holding
  <2>3. \A v \in Workers \ {w} : pc[v] = "commit" => seen[v] # "SENT"
    BY <2>1, <2>2
  <2>. QED
    BY <1>4, <2>3 DEF CommitMark
<1>5. CASE UNCHANGED <<state, status>> /\ \A w \in Workers : pc'[w] = "commit" =>
             pc[w] = "commit" /\ seen'[w] = seen[w] /\ verdict'[w] = verdict[w] /\ ch'[w] = ch[w]
  BY <1>5
<1>6. ASSUME NEW w \in Workers,
             \/ ClaimRefused(w) \/ FindRecipients(w) \/ SendMessage(w) \/ SendFails(w)
             \/ ReportReturn(w) \/ ReportThrow(w) \/ ClaimFails(w) \/ MarkFails(w)
             \/ WorkerCrash(w) \/ \E c \in Channels : TakeJob(w, c)
      PROVE  (StateSound /\ AnnouncesTruly)'
  BY <1>5, <1>6 DEF ClaimRefused, FindRecipients, SendMessage, SendFails, ReportReturn,
     ReportThrow, ClaimFails, MarkFails, WorkerCrash, TakeJob, Mark, Caught
<1>. QED
  BY <1>1, <1>2, <1>3, <1>4, <1>5, <1>6 DEF Next, Deliver, EvaluatorCrash, EnqueueDelivery,
     EnqueueFails, PromoteDelayed, StallCheck, BackoffElapses, LeaseExpires, vars

(* The notification never claims SENT for a delivery that is not, although *)
(* overlapping mark transactions compute it from stale snapshots.          *)
THEOREM StateIsSound ==
  ASSUME "longPause" \notin Faults
  PROVE  Spec => []StateSound
<1>1. StateInv /\ [Next]_vars => StateInv'
  BY StateNext
<1>2. StateInv => StateSound
  BY DEF StateInv
<1>. QED
  BY StateInit, <1>1, <1>2, PTL DEF Spec

-----------------------------------------------------------------------------
(* Refinement of NotificationOutcome.                                      *)

outcomeBar == [c \in Channels |->
                IF status[c] \in Decided THEN status[c]
                ELSE IF status[c] = "NONE" THEN "absent" ELSE "open"]
announcedBar == state = "SENT"

\* A step that leaves the rows and the announcement alone is a stutter.
(* A step that changes neither a delivery nor the notification is a stutter. *)
LEMMA QuietStep ==
  ASSUME UNCHANGED <<state, status>>
  PROVE  UNCHANGED <<outcomeBar, announcedBar>>
BY DEF outcomeBar, announcedBar

(* The initial state is one of NotificationOutcome. *)
LEMMA RefineInit == Init => Outcome!Init
BY DEF Init, Outcome!Init, Decided, Fulfilled

(* Every step is a step of NotificationOutcome or a stutter. *)
LEMMA RefineNext ==
  ASSUME "longPause" \notin Faults, StateInv, StateInv', Next
  PROVE  Outcome!Next \/ UNCHANGED <<outcomeBar, announcedBar>>
<1> USE DEF StateInv, ClaimInv, TypeInv, TypeOK, dbVars
<1>1. ASSUME NEW enabled \in (SUBSET Channels) \ {{}}, CreateNotification(enabled)
      PROVE  Outcome!Open(enabled)
  BY <1>1 DEF CreateNotification, NoRows, Outcome!Open, Decided, Fulfilled
<1>2. ASSUME NEW w \in Workers, ClaimDelivery(w)
      PROVE  UNCHANGED <<outcomeBar, announcedBar>>
  <2>1. status[ch[w]] \notin Decided \cup {"NONE"}
    BY <1>2 DEF ClaimDelivery, Claimable, Decided, Fulfilled
  <2>2. "DELIVERING" \notin Decided \cup {"NONE"}
    BY DEF Decided, Fulfilled
  <2>. QED
    BY <1>2, <2>1, <2>2 DEF ClaimDelivery, outcomeBar, announcedBar
<1>3. ASSUME NEW w \in Workers, CommitMark(w)
      PROVE  Outcome!Next \/ UNCHANGED <<outcomeBar, announcedBar>>
  <2> DEFINE c == ch[w]
  <2>1. /\ status[c] = "DELIVERING"
        /\ c \in Channels
        /\ status' = [status EXCEPT ![c] = verdict[w]]
        /\ state' = seen[w]
        /\ verdict[w] \in {"FAILED"} \cup Decided
    BY <1>3 DEF CommitMark, ClaimHeld, Holds, Holding, MarkVerdict
  <2>2. state # "SENT"
    BY <2>1 DEF StateSound, Fulfilled
  <2>3. CASE verdict[w] = "FAILED"
    <3>1. UNCHANGED outcomeBar
      BY <2>1, <2>3 DEF outcomeBar, Decided, Fulfilled
    <3>2. state' # "SENT"
      BY <1>3, <2>3 DEF CommitMark, AnnouncesTruly, Fulfilled
    <3>. QED
      BY <2>2, <3>1, <3>2 DEF announcedBar
  <2>4. CASE verdict[w] \in Decided
    <3>1. outcomeBar[c] = "open"
      BY <2>1 DEF outcomeBar, Decided, Fulfilled
    <3>5. outcomeBar' = [outcomeBar EXCEPT ![c] = verdict[w]]
      BY <2>1, <2>4 DEF outcomeBar
    <3>2. announcedBar' => \A d \in Channels : outcomeBar'[d] \in Outcome!Positive
      BY DEF announcedBar, outcomeBar, StateSound, Outcome!Positive, Decided, Fulfilled
    <3>3. ~announcedBar /\ announcedBar' \in BOOLEAN
      BY <2>2 DEF announcedBar
    <3>4. verdict[w] \in {"SENT", "SKIPPED", "DEAD_LETTER"}
      BY <2>4 DEF Decided, Fulfilled
    <3>6. PICK d \in Channels, v \in {"SENT", "SKIPPED", "DEAD_LETTER"} :
            d = c /\ v = verdict[w]
      BY <2>1, <3>4
    <3>7. Outcome!Decide(d, v)
      BY <3>1, <3>2, <3>3, <3>5, <3>6 DEF Outcome!Decide, outcomeBar, announcedBar
    <3>. QED
      BY <3>7 DEF Outcome!Next
  <2>. QED
    BY <2>1, <2>3, <2>4
<1>4. CASE UNCHANGED <<state, status>>
  BY <1>4, QuietStep
<1>. QED
  BY <1>1, <1>2, <1>3, <1>4 DEF Next, Deliver, EvaluatorCrash, EnqueueDelivery,
     EnqueueFails, PromoteDelayed, StallCheck, BackoffElapses, LeaseExpires, TakeJob,
     ClaimRefused, FindRecipients, SendMessage, SendFails, UpdateRows, ReportReturn,
     ReportThrow, ClaimFails, MarkFails, WorkerCrash, Outcome!Next

(* Claims, retries, reclaims and overlapping transactions implement the    *)
(* promise of NotificationOutcome for every number of channels, processors *)
(* and attempts.                                                           *)
THEOREM DeliveryImplementsOutcome ==
  ASSUME "longPause" \notin Faults
  PROVE  Spec => ImplementsOutcome
<1>1. StateInv /\ [Next]_vars => StateInv'
  BY StateNext
<1>2. StateInv /\ StateInv' /\ [Next]_vars =>
        [Outcome!Next]_<<outcomeBar, announcedBar>>
  <2>1. CASE Next
    BY <2>1, RefineNext
  <2>2. CASE UNCHANGED vars
    BY <2>2, QuietStep DEF vars, dbVars
  <2>. QED
    BY <2>1, <2>2
<1>. QED
  BY StateInit, RefineInit, <1>1, <1>2, PTL
     DEF Spec, ImplementsOutcome, Outcome!Spec, outcomeBar, announcedBar

-----------------------------------------------------------------------------
(* Giving up.                                                              *)

\* What deliver() was told of earlier failures is never more than the job
\* has; a DEAD_LETTER verdict was reached with the last attempt.
AttemptsKnown ==
  \A w \in Workers :
    /\ pc[w] # "idle" => made[w] <= jobMade[ch[w]]
    /\ pc[w] \in {"mark", "commit"} /\ verdict[w] = "DEAD_LETTER" => made[w] >= MaxAttempts - 1

GiveUpInv == TypeInv /\ AttemptsKnown /\ NoPrematureDeadLetter

(* DEAD_LETTER is written only by a run that was the last attempt. *)
LEMMA DeadLetterVerdict ==
  ASSUME NEW m \in Nat, FailureVerdict(m) = "DEAD_LETTER"
  PROVE  m >= MaxAttempts - 1
BY DEF FailureVerdict

(* Initially no delivery is given up. *)
LEMMA GiveUpInit == Init => GiveUpInv
BY TypeInit DEF Init, GiveUpInv, AttemptsKnown, NoPrematureDeadLetter

(* No step gives a delivery up early or forgets a job's failed runs. *)
LEMMA GiveUpNext == GiveUpInv /\ [Next]_vars => GiveUpInv'
<1> SUFFICES ASSUME GiveUpInv, [Next]_vars PROVE (AttemptsKnown /\ NoPrematureDeadLetter)'
  BY TypeNext DEF GiveUpInv
<1> USE DEF GiveUpInv, TypeInv, TypeOK, AttemptsKnown, NoPrematureDeadLetter,
        dbVars, sendVars, queueVars, workerVars
<1>1. ASSUME NEW w \in Workers, FindRecipients(w) \/ SendMessage(w) \/ SendFails(w) \/ MarkFails(w)
      PROVE  (AttemptsKnown /\ NoPrematureDeadLetter)'
  <2>1. made[w] \in Nat /\ jobMade' = jobMade /\ status' = status
    BY <1>1 DEF FindRecipients, SendMessage, SendFails, MarkFails
  <2>. QED
    BY <1>1, <2>1, DeadLetterVerdict
       DEF FindRecipients, SendMessage, SendFails, MarkFails, Mark, Caught, Fulfilled
<1>2. ASSUME NEW w \in Workers, CommitMark(w)
      PROVE  (AttemptsKnown /\ NoPrematureDeadLetter)'
  BY <1>2 DEF CommitMark
<1>3. ASSUME NEW w \in Workers, ReportThrow(w)
      PROVE  (AttemptsKnown /\ NoPrematureDeadLetter)'
  <2>1. \A c \in Channels : jobMade[c] \in Nat /\ jobMade'[c] \in Nat /\ jobMade'[c] >= jobMade[c]
    BY <1>3 DEF ReportThrow
  <2>2. \A v \in Workers : made[v] \in Nat
    OBVIOUS
  <2>. QED
    BY <1>3, <2>1, <2>2 DEF ReportThrow
<1>4. ASSUME NEW w \in Workers, NEW c \in Channels, TakeJob(w, c)
      PROVE  (AttemptsKnown /\ NoPrematureDeadLetter)'
  BY <1>4 DEF TakeJob
<1>5. ASSUME NEW w \in Workers, ClaimDelivery(w)
      PROVE  (AttemptsKnown /\ NoPrematureDeadLetter)'
  BY <1>5 DEF ClaimDelivery
<1>6. ASSUME NEW enabled \in SUBSET Channels, CreateNotification(enabled)
      PROVE  (AttemptsKnown /\ NoPrematureDeadLetter)'
  BY <1>6 DEF CreateNotification
<1>7. ASSUME NEW w \in Workers,
             ClaimRefused(w) \/ UpdateRows(w) \/ ReportReturn(w) \/ ClaimFails(w) \/ WorkerCrash(w)
      PROVE  (AttemptsKnown /\ NoPrematureDeadLetter)'
  BY <1>7 DEF ClaimRefused, UpdateRows, ReportReturn, ClaimFails, WorkerCrash
<1>8. CASE UNCHANGED <<status, jobMade, workerVars>>
  BY <1>8
<1>. QED
  BY <1>1, <1>2, <1>3, <1>4, <1>5, <1>6, <1>7, <1>8 DEF Next, Deliver, EvaluatorCrash,
     EnqueueDelivery, EnqueueFails, PromoteDelayed, StallCheck, BackoffElapses, LeaseExpires, vars

(* Whatever goes wrong, a delivery is not given up before its job has      *)
(* failed MaxAttempts - 1 times.                                           *)
THEOREM NotGivenUpEarly == Spec => []NoPrematureDeadLetter
<1>1. GiveUpInv => NoPrematureDeadLetter
  BY DEF GiveUpInv
<1>. QED
  BY GiveUpInit, GiveUpNext, <1>1, PTL DEF Spec

-----------------------------------------------------------------------------
(* Messages sent.                                                          *)

\* A processor about to record that its message went out.
Recording(w, c) == pc[w] \in {"mark", "commit"} /\ ch[w] = c /\ verdict[w] = "SENT"

\* Of the messages that went out all are lost but at most one, and that one
\* is recorded as SENT, or is about to be.
SendRecorded ==
  \A c \in Channels :
    \/ /\ accepted[c] = forgotten[c]
       /\ \A w \in Workers : ~Recording(w, c)
    \/ /\ accepted[c] = forgotten[c] + 1
       /\ \/ status[c] = "SENT"
          \/ \E w \in Workers : Recording(w, c)

SendInv == ClaimInv /\ SendRecorded

(* Initially nothing was sent. *)
LEMMA SendInit == Init => SendInv
BY ClaimInit DEF Init, SendInv, SendRecorded, Recording

(* A run that sends holds the only claim, and no earlier run has sent a    *)
(* message that may still be recorded.                                     *)
LEMMA SendNext ==
  ASSUME "longPause" \notin Faults
  PROVE  SendInv /\ [Next]_vars => SendInv'
<1> SUFFICES ASSUME SendInv, [Next]_vars PROVE SendRecorded'
  BY ClaimNext DEF SendInv
<1> USE DEF SendInv, SendRecorded, Recording, ClaimInv, TypeInv, TypeOK, dbVars, sendVars, queueVars, workerVars
<1>1. ASSUME NEW w \in Workers, SendMessage(w) PROVE SendRecorded'
  <2>0. PICK d \in Channels : d = ch[w]
    OBVIOUS
  <2>1. /\ pc[w] = "send" /\ status[d] = "DELIVERING"
        /\ \A v \in Workers : ~Recording(v, d)
    BY <1>1, <2>0 DEF SendMessage, ClaimHeld, ClaimExclusive, Holds, Holding
  <2>2. accepted[d] = forgotten[d]
    BY <2>1
  <2>3. /\ accepted[d] \in Nat /\ forgotten[d] \in Nat /\ status' = status /\ ch' = ch
        /\ pc' = [pc EXCEPT ![w] = "mark"]
        /\ \A c \in Channels \ {d} : accepted'[c] = accepted[c] /\ forgotten'[c] = forgotten[c]
        /\ \A v \in Workers \ {w} : verdict'[v] = verdict[v]
        /\ \/ /\ verdict'[w] = "SENT" /\ accepted'[d] = accepted[d] + 1
              /\ forgotten'[d] = forgotten[d]
           \/ /\ verdict'[w] # "SENT" /\ accepted'[d] = accepted[d] + 1
              /\ forgotten'[d] = forgotten[d] + 1
    BY <1>1, <2>0, FailureVerdictType DEF SendMessage, Mark, Caught, Forget
  <2>4. ASSUME NEW c \in Channels \ {d} PROVE \A v \in Workers : Recording(v, c) <=> Recording(v, c)'
    BY <2>0, <2>1, <2>3, <2>4
  <2>5. ASSUME NEW c \in Channels \ {d}
        PROVE  accepted'[c] = accepted[c] /\ forgotten'[c] = forgotten[c] /\ status'[c] = status[c]
    BY <2>3
  <2>6. CASE verdict'[w] = "SENT"
    <3>1. Recording(w, d)' /\ accepted'[d] = forgotten'[d] + 1
      BY <2>0, <2>2, <2>3, <2>6
    <3>. QED
      BY <2>4, <2>5, <3>1
  <2>7. CASE verdict'[w] # "SENT"
    <3>1. (\A v \in Workers : ~Recording(v, d)') /\ accepted'[d] = forgotten'[d]
      BY <2>0, <2>1, <2>2, <2>3, <2>7
    <3>. QED
      BY <2>4, <2>5, <3>1
  <2>. QED
    BY <2>6, <2>7
<1>2. ASSUME NEW w \in Workers, CommitMark(w) PROVE SendRecorded'
  <2>1. \A v \in Workers \ {w} : pc[v] \in {"mark", "commit"} => ch[v] # ch[w]
    BY <1>2 DEF CommitMark, ClaimExclusive, Holds, Holding
  <2>2. status[ch[w]] # "SENT"
    BY <1>2 DEF CommitMark, ClaimHeld, Holds, Holding
  <2>. QED
    BY <1>2, <2>1, <2>2 DEF CommitMark
<1>3. ASSUME NEW w \in Workers, ClaimDelivery(w) PROVE SendRecorded'
  BY <1>3 DEF ClaimDelivery, Claimable
<1>4. ASSUME NEW w \in Workers, UpdateRows(w) PROVE SendRecorded'
  BY <1>4 DEF UpdateRows
<1>5. ASSUME NEW enabled \in SUBSET Channels, CreateNotification(enabled) PROVE SendRecorded'
  BY <1>5 DEF CreateNotification, NoRows
<1>6. ASSUME NEW w \in Workers, NEW c \in Channels, TakeJob(w, c) PROVE SendRecorded'
  BY <1>6 DEF TakeJob
<1>7. ASSUME NEW w \in Workers,
             FindRecipients(w) \/ SendFails(w) \/ ClaimRefused(w) \/ ReportReturn(w)
               \/ ReportThrow(w) \/ ClaimFails(w)
      PROVE  SendRecorded'
  <2>1. /\ UNCHANGED <<status, accepted, forgotten, ch>>
        /\ \A v \in Workers \ {w} : pc'[v] = pc[v] /\ verdict'[v] = verdict[v]
        /\ pc[w] \notin {"mark", "commit"}
    BY <1>7 DEF FindRecipients, SendFails, ClaimRefused, ReportReturn, ReportThrow, ClaimFails,
       Mark, Caught
  <2>2. pc'[w] \in {"mark", "commit"} => verdict'[w] # "SENT"
    BY <1>7, FailureVerdictType DEF FindRecipients, SendFails, ClaimRefused, ReportReturn,
       ReportThrow, ClaimFails, Mark, Caught
  <2>3. \A v \in Workers : \A c \in Channels : Recording(v, c) <=> Recording(v, c)'
    BY <2>1, <2>2
  <2> HIDE DEF Recording
  <2>. QED
    BY <2>1, <2>3
<1>8. CASE UNCHANGED <<status, accepted, forgotten, pc, ch, verdict>>
  BY <1>8
<1>9. ASSUME NEW w \in Workers, MarkFails(w) \/ WorkerCrash(w) PROVE SendRecorded'
  <2>0. PICK d \in Channels : d = ch[w]
    OBVIOUS
  <2>1. /\ status' = status /\ ch' = ch
        /\ \A v \in Workers \ {w} : pc'[v] = pc[v] /\ verdict'[v] = verdict[v]
        /\ accepted' = accepted /\ DropMark(w)
    BY <1>9 DEF MarkFails, WorkerCrash, Mark, Caught
  <2>2. \A v \in Workers \ {w} : \A c \in Channels : Recording(v, c) <=> Recording(v, c)'
    BY <2>1
  <2>5. ~Recording(w, d)'
    BY <1>9 DEF MarkFails, WorkerCrash, Mark, Caught, FailureVerdict, Fulfilled
  <2>3. CASE Recording(w, d)
    <3>1. \A v \in Workers \ {w} : ~Recording(v, d)
      BY <2>3 DEF ClaimExclusive, Holds, Holding
    <3>2. status[d] # "SENT"
      BY <2>3 DEF ClaimHeld, Holds, Holding
    <3>3. /\ accepted[d] \in Nat /\ forgotten[d] \in Nat
          /\ forgotten'[d] = forgotten[d] + 1
          /\ \A c \in Channels \ {d} : accepted'[c] = accepted[c] /\ forgotten'[c] = forgotten[c]
      BY <2>0, <2>1, <2>3 DEF DropMark, Forget
    <3>5. accepted[d] = forgotten[d] + 1
      BY <2>3
    <3>6. \A c \in Channels \ {d} : ~Recording(w, c) /\ ~Recording(w, c)'
      BY <2>0, <2>1
    <3>7. accepted'[d] = forgotten'[d]
      BY <2>1, <3>3, <3>5
    <3>. QED
      BY <2>1, <2>2, <2>5, <3>1, <3>3, <3>6, <3>7
  <2>4. CASE ~Recording(w, d)
    <3>1. forgotten' = forgotten /\ \A c \in Channels : ~Recording(w, c) /\ ~Recording(w, c)'
      BY <2>0, <2>1, <2>4, <2>5 DEF DropMark
    <3>. QED
      BY <2>1, <2>2, <3>1
  <2>. QED
    BY <2>3, <2>4
<1>10. ~EvaluatorCrash \/ UNCHANGED <<status, accepted, forgotten, pc, ch, verdict>>
  BY DEF EvaluatorCrash
<1>. QED
  BY <1>1, <1>2, <1>3, <1>4, <1>5, <1>6, <1>7, <1>8, <1>9, <1>10 DEF Next, Deliver,
     EnqueueDelivery, EnqueueFails, PromoteDelayed, StallCheck, BackoffElapses, LeaseExpires, vars

(* A message is repeated only after an acceptance that could not be        *)
(* recorded, however often BullMQ runs the job again, for any number of    *)
(* processors, as long as none of them outlives its claim.                 *)
THEOREM SentOnce ==
  ASSUME "longPause" \notin Faults
  PROVE  Spec => []NoDuplicateSend
<1>1. SendInv /\ [Next]_vars => SendInv'
  BY SendNext
<1>2. SendInv => NoDuplicateSend
  <2> SUFFICES ASSUME SendInv, NEW c \in Channels
               PROVE  accepted[c] <= forgotten[c] + 1
    BY DEF NoDuplicateSend
  <2>1. accepted[c] \in Nat /\ forgotten[c] \in Nat
    BY DEF SendInv, ClaimInv, TypeInv, TypeOK
  <2>. QED
    BY <2>1 DEF SendInv, SendRecorded
<1>. QED
  BY SendInit, <1>1, <1>2, PTL DEF Spec

-----------------------------------------------------------------------------
(* The notification's state with one processor.                            *)

\* Nothing is held before the rows exist, and what a transaction has
\* computed is what its rows will add up to.
Computed ==
  \A w \in Workers :
    /\ pc[w] \in Holding => state # "ABSENT"
    /\ pc[w] = "commit" => seen[w] = Aggregate([status EXCEPT ![ch[w]] = verdict[w]])

ExactInv == TypeInv /\ NoRows /\ Computed /\ StateExact

(* Initially there are no rows. *)
LEMMA ExactInit == Init => ExactInv
BY TypeInit DEF Init, ExactInv, NoRows, Computed, StateExact, Holding

(* Rows that differ in open deliveries only add up to the same state. *)
LEMMA OpenAlike ==
  ASSUME NEW rows, NEW rows2,
         \A c \in Channels :
           rows[c] = rows2[c] \/ {rows[c], rows2[c]} \cap (Decided \cup {"NONE"}) = {}
  PROVE  Aggregate(rows) = Aggregate(rows2)
BY DEF Aggregate, Decided, Fulfilled

(* Between computing the state and writing it nobody writes a row. *)
LEMMA ExactNext ==
  ASSUME \A v, w \in Workers : v = w
  PROVE  ExactInv /\ [Next]_vars => ExactInv'
<1> SUFFICES ASSUME ExactInv, [Next]_vars PROVE (NoRows /\ Computed /\ StateExact)'
  BY TypeNext DEF ExactInv
<1> USE DEF ExactInv, TypeInv, TypeOK, NoRows, Computed, StateExact, Holding,
        dbVars, sendVars, queueVars, workerVars
<1>1. ASSUME NEW w \in Workers, ClaimDelivery(w) PROVE (NoRows /\ Computed /\ StateExact)'
  <2>1. /\ status' = [status EXCEPT ![ch[w]] = "DELIVERING"] /\ pc'[w] = "route"
        /\ status[ch[w]] \in {"PENDING", "FAILED", "DELIVERING"} /\ state' = state
    BY <1>1 DEF ClaimDelivery, Claimable
  <2>2. Aggregate(status) = Aggregate(status')
    <3>1. \A c \in Channels :
            \/ status[c] = status'[c]
            \/ {status[c], status'[c]} \cap (Decided \cup {"NONE"}) = {}
      BY <2>1 DEF Decided, Fulfilled
    <3>. QED
      BY <3>1, OpenAlike
  <2>3. state # "ABSENT"
    BY <2>1
  <2>. QED
    BY <2>1, <2>2, <2>3
<1>2. ASSUME NEW w \in Workers, UpdateRows(w) PROVE (NoRows /\ Computed /\ StateExact)'
  <2>1. UNCHANGED <<state, status, ch, verdict>> /\ pc[w] \in Holding /\ w \in DOMAIN seen
    BY <1>2 DEF UpdateRows
  <2>2. \A v \in Workers : v = w
    OBVIOUS
  <2>3. seen'[w] = Aggregate([status EXCEPT ![ch[w]] = verdict[w]])
    BY <1>2, <2>1 DEF UpdateRows
  <2>. QED
    BY <2>1, <2>2, <2>3
<1>3. ASSUME NEW w \in Workers, CommitMark(w) PROVE (NoRows /\ Computed /\ StateExact)'
  <2>1. /\ state' = Aggregate(status') /\ pc'[w] \in {"return", "throw"}
    BY <1>3 DEF CommitMark
  <2>2. state' # "ABSENT"
    BY <2>1, AggregateType DEF NotificationState
  <2>. QED
    BY <2>1, <2>2
<1>4. ASSUME NEW enabled \in (SUBSET Channels) \ {{}}, CreateNotification(enabled)
      PROVE  (NoRows /\ Computed /\ StateExact)'
  <2>0. enabled # {}
    BY <1>4
  <2>1. state = "ABSENT" /\ state' = "PENDING" /\ pc' = pc
    BY <1>4, <2>0, Zenon DEF CreateNotification
  <2>2. \A w \in Workers : pc[w] \notin Holding
    BY <2>1
  <2>. QED
    BY <2>1, <2>2
<1>5. ASSUME NEW w \in Workers,
             FindRecipients(w) \/ SendMessage(w) \/ SendFails(w) \/ ClaimRefused(w)
               \/ ReportReturn(w) \/ ReportThrow(w) \/ ClaimFails(w) \/ MarkFails(w) \/ WorkerCrash(w)
      PROVE  (NoRows /\ Computed /\ StateExact)'
  <2>1. UNCHANGED <<state, status>>
    BY <1>5 DEF FindRecipients, SendMessage, SendFails, ClaimRefused, ReportReturn, ReportThrow,
       ClaimFails, MarkFails, WorkerCrash, Mark, Caught
  <2>2. /\ \A v \in Workers \ {w} : pc'[v] = pc[v]
        /\ pc'[w] # "commit"
        /\ pc'[w] \in Holding => pc[w] \in Holding
    <3>1. CASE FindRecipients(w) \/ SendMessage(w) \/ SendFails(w)
      BY <3>1 DEF FindRecipients, SendMessage, SendFails, Mark, Caught, Holding
    <3>2. CASE ClaimRefused(w) \/ ReportReturn(w) \/ ReportThrow(w) \/ ClaimFails(w)
      BY <3>2 DEF ClaimRefused, ReportReturn, ReportThrow, ClaimFails, Mark, Caught, Holding
    <3>3. CASE MarkFails(w) \/ WorkerCrash(w)
      BY <3>3 DEF MarkFails, WorkerCrash, Mark, Caught, Holding
    <3>. QED
      BY <1>5, <3>1, <3>2, <3>3
  <2>. QED
    BY <2>1, <2>2
<1>6. ASSUME NEW w \in Workers, NEW c \in Channels, TakeJob(w, c)
      PROVE  (NoRows /\ Computed /\ StateExact)'
  BY <1>6 DEF TakeJob
<1>7. CASE UNCHANGED <<state, status, pc, ch, verdict, seen>>
  BY <1>7
<1>. QED
  BY <1>1, <1>2, <1>3, <1>4, <1>5, <1>6, <1>7 DEF Next, Deliver, EvaluatorCrash,
     EnqueueDelivery, EnqueueFails, PromoteDelayed, StallCheck, BackoffElapses, LeaseExpires, vars

(* With one processor the notification's state is the aggregate of its     *)
(* deliveries, under every fault.                                          *)
THEOREM StateIsExact ==
  ASSUME \A v, w \in Workers : v = w
  PROVE  Spec => []StateExact
<1>1. ExactInv /\ [Next]_vars => ExactInv'
  BY ExactNext
<1>2. ExactInv => StateExact
  BY DEF ExactInv
<1>. QED
  BY ExactInit, <1>1, <1>2, PTL DEF Spec

-----------------------------------------------------------------------------
(* Attempts.                                                               *)

Claiming(c) == {w \in Workers : pc[w] = "claim" /\ ch[w] = c}

\* Runs of the job that BullMQ has begun; the last one is not counted yet.
Runs(c) == jobMade[c] + jobStalls[c] + (IF jobAt[c] \in {"active", "completed"} THEN 1 ELSE 0)

\* Every run claims once, or has still to claim.
ClaimsCounted ==
  \A c \in Channels :
    IsFiniteSet(Claiming(c)) /\ attempts[c] + Cardinality(Claiming(c)) <= Runs(c)

\* A job that fails has used up its attempts or its stalls, not both.
RunsBounded == \A c \in Channels : Runs(c) <= MaxAttempts + MaxStalls

AttemptInv == TypeInv /\ ClaimsCounted /\ RunsBounded

(* Initially no job has run. *)
LEMMA AttemptInit == Init => AttemptInv
<1> SUFFICES ASSUME Init PROVE ClaimsCounted /\ RunsBounded
  BY TypeInit DEF AttemptInv
<1>1. \A c \in Channels : Claiming(c) = {}
  BY DEF Init, Claiming
<1>2. \A c \in Channels : Runs(c) = 0 /\ attempts[c] = 0
  BY DEF Init, Runs
<1>. QED
  BY <1>1, <1>2, FS_EmptySet DEF ClaimsCounted, RunsBounded

(* A step that begins no run and takes none back keeps the count. *)
LEMMA CountKept ==
  ASSUME AttemptInv, TypeInv', attempts' = attempts,
         \A c \in Channels : Claiming(c)' \subseteq Claiming(c),
         \A c \in Channels : Runs(c)' >= Runs(c)
  PROVE  ClaimsCounted'
<1> SUFFICES ASSUME NEW c \in Channels
             PROVE  IsFiniteSet(Claiming(c)') /\ attempts'[c] + Cardinality(Claiming(c)') <= Runs(c)'
  BY DEF ClaimsCounted
<1>1. /\ IsFiniteSet(Claiming(c)') /\ Cardinality(Claiming(c)') <= Cardinality(Claiming(c))
      /\ Cardinality(Claiming(c)') \in Nat /\ Cardinality(Claiming(c)) \in Nat
  BY FS_Subset, FS_CardinalityType DEF AttemptInv, ClaimsCounted
<1>2. attempts[c] \in Nat /\ Runs(c) \in Int /\ Runs(c)' \in Int
  BY DEF AttemptInv, TypeInv, TypeOK, Runs
<1>. QED
  BY <1>1, <1>2 DEF AttemptInv, ClaimsCounted

(* A run that is over was the last one allowed, or had failures to spare. *)
LEMMA RunsNext == AttemptInv /\ [Next]_vars => RunsBounded'
<1> SUFFICES ASSUME AttemptInv, [Next]_vars, NEW c \in Channels
             PROVE  Runs(c)' <= MaxAttempts + MaxStalls
  BY DEF RunsBounded
<1>1. TypeInv /\ TypeInv'
  BY TypeNext DEF AttemptInv
<1>2. CASE jobAt'[c] # "failed"
  BY <1>1, <1>2 DEF TypeInv, TypeOK, JobLimits, Runs
<1>3. CASE /\ jobAt'[c] = "failed" /\ jobAt[c] = "active"
          /\ \/ jobMade'[c] = jobMade[c] + 1 /\ jobStalls'[c] = jobStalls[c]
             \/ jobMade'[c] = jobMade[c] /\ jobStalls'[c] = jobStalls[c] + 1
  <2>1. jobMade[c] < MaxAttempts /\ jobStalls[c] <= MaxStalls
    BY <1>1, <1>3 DEF TypeInv, JobLimits
  <2>. QED
    BY <1>1, <1>3, <2>1 DEF TypeInv, TypeOK, Runs
<1>4. CASE /\ jobAt'[c] = "failed" /\ jobAt[c] = "failed"
          /\ jobMade'[c] = jobMade[c] /\ jobStalls'[c] = jobStalls[c]
  BY <1>4 DEF AttemptInv, RunsBounded, Runs
<1> USE DEF TypeInv, TypeOK, queueVars
<1>5. ASSUME NEW d \in Channels, StallCheck(d) PROVE Runs(c)' <= MaxAttempts + MaxStalls
  BY <1>1, <1>2, <1>3, <1>4, <1>5 DEF StallCheck, JobStates
<1>6. ASSUME NEW w \in Workers, ReportThrow(w) PROVE Runs(c)' <= MaxAttempts + MaxStalls
  BY <1>1, <1>2, <1>3, <1>4, <1>6 DEF ReportThrow, OwnerActive, JobStates
<1>7. CASE UNCHANGED <<jobMade, jobStalls>> /\ (jobAt'[c] = "failed" => jobAt[c] = "failed")
  BY <1>2, <1>4, <1>7
<1>8. ASSUME NEW w \in Workers,
             ReportReturn(w) \/ WorkerCrash(w) \/ \E d \in Channels : TakeJob(w, d)
      PROVE  Runs(c)' <= MaxAttempts + MaxStalls
  BY <1>1, <1>7, <1>8 DEF ReportReturn, WorkerCrash, TakeJob
<1>9. ASSUME NEW d \in Channels, EnqueueDelivery(d) \/ PromoteDelayed(d)
      PROVE  Runs(c)' <= MaxAttempts + MaxStalls
  BY <1>1, <1>7, <1>9 DEF EnqueueDelivery, PromoteDelayed
<1>10. CASE UNCHANGED queueVars
  BY <1>7, <1>10
<1>. QED
  BY <1>5, <1>6, <1>8, <1>9, <1>10 DEF Next, Deliver, CreateNotification, EvaluatorCrash,
     EnqueueFails, BackoffElapses, LeaseExpires, ClaimDelivery, ClaimRefused, FindRecipients,
     SendMessage, SendFails, UpdateRows, CommitMark, ClaimFails, MarkFails, vars

(* Every step keeps the count of claims. *)
LEMMA AttemptNext == AttemptInv /\ [Next]_vars => AttemptInv'
<1> SUFFICES ASSUME AttemptInv, [Next]_vars PROVE ClaimsCounted'
  BY TypeNext, RunsNext DEF AttemptInv
<1>0. TypeInv'
  BY TypeNext DEF AttemptInv
<1> USE DEF TypeInv, TypeOK, dbVars, sendVars, queueVars, workerVars
<1>1. ASSUME NEW w \in Workers, ClaimDelivery(w) PROVE ClaimsCounted'
  <2>0. PICK d \in Channels : d = ch[w]
    BY DEF AttemptInv
  <2>1. \A c \in Channels : Runs(c)' = Runs(c) /\ Runs(c) \in Int
    BY <1>1, <2>0 DEF ClaimDelivery, Runs, AttemptInv
  <2>2. /\ w \in Claiming(d) /\ Claiming(d)' = Claiming(d) \ {w}
        /\ \A c \in Channels \ {d} : Claiming(c)' = Claiming(c)
    BY <1>1, <2>0 DEF ClaimDelivery, Claiming, AttemptInv
  <2>3. /\ attempts'[d] = attempts[d] + 1
        /\ \A c \in Channels : attempts[c] \in Nat
        /\ \A c \in Channels \ {d} : attempts'[c] = attempts[c]
    BY <1>1, <2>0 DEF ClaimDelivery, AttemptInv
  <2>4. \A c \in Channels : IsFiniteSet(Claiming(c)) /\ Cardinality(Claiming(c)) \in Nat
    BY FS_CardinalityType DEF AttemptInv, ClaimsCounted
  <2>5. /\ IsFiniteSet(Claiming(d) \ {w})
        /\ Cardinality(Claiming(d) \ {w}) = Cardinality(Claiming(d)) - 1
    BY <2>2, <2>3, <2>4, FS_RemoveElement
  <2>. SUFFICES ASSUME NEW c \in Channels
               PROVE  IsFiniteSet(Claiming(c)') /\ attempts'[c] + Cardinality(Claiming(c)') <= Runs(c)'
    BY DEF ClaimsCounted
  <2>6. attempts[c] + Cardinality(Claiming(c)) <= Runs(c)
    BY DEF AttemptInv, ClaimsCounted
  <2> HIDE DEF TypeInv, TypeOK
  <2>7. CASE c = d
    <3>1. IsFiniteSet(Claiming(d)') /\ Cardinality(Claiming(d)') = Cardinality(Claiming(d)) - 1
      BY <2>2, <2>5
    <3>2. attempts[d] + Cardinality(Claiming(d)) <= Runs(d)
      BY <2>6, <2>7
    <3>3. attempts'[d] + Cardinality(Claiming(d)') <= Runs(d)'
      BY <2>1, <2>3, <2>4, <3>1, <3>2
    <3>. QED
      BY <2>7, <3>1, <3>3
  <2>8. CASE c # d
    BY <2>1, <2>2, <2>3, <2>4, <2>6, <2>8
  <2>. QED
    BY <2>7, <2>8
<1>2. ASSUME NEW w \in Workers, NEW d \in Channels, TakeJob(w, d) PROVE ClaimsCounted'
  <2>1. /\ Runs(d)' = Runs(d) + 1 /\ \A c \in Channels \ {d} : Runs(c)' = Runs(c)
        /\ \A c \in Channels : Runs(c) \in Int
    BY <1>2 DEF TakeJob, Runs, AttemptInv
  <2>2. /\ w \notin Claiming(d) /\ Claiming(d)' = Claiming(d) \cup {w}
        /\ \A c \in Channels \ {d} : Claiming(c)' = Claiming(c)
    BY <1>2 DEF TakeJob, Claiming, AttemptInv
  <2>3. attempts' = attempts /\ \A c \in Channels : attempts[c] \in Nat
    BY <1>2 DEF TakeJob, AttemptInv
  <2>4. \A c \in Channels : IsFiniteSet(Claiming(c)) /\ Cardinality(Claiming(c)) \in Nat
    BY FS_CardinalityType DEF AttemptInv, ClaimsCounted
  <2>5. /\ IsFiniteSet(Claiming(d) \cup {w})
        /\ Cardinality(Claiming(d) \cup {w}) = Cardinality(Claiming(d)) + 1
    BY <2>2, <2>4, FS_AddElement
  <2>. SUFFICES ASSUME NEW c \in Channels
               PROVE  IsFiniteSet(Claiming(c)') /\ attempts'[c] + Cardinality(Claiming(c)') <= Runs(c)'
    BY DEF ClaimsCounted
  <2>6. attempts[c] + Cardinality(Claiming(c)) <= Runs(c)
    BY DEF AttemptInv, ClaimsCounted
  <2> HIDE DEF TypeInv, TypeOK
  <2>7. CASE c = d
    BY <2>1, <2>2, <2>3, <2>4, <2>5, <2>6, <2>7
  <2>8. CASE c # d
    BY <2>1, <2>2, <2>3, <2>4, <2>6, <2>8
  <2>. QED
    BY <2>7, <2>8
<1>3. ASSUME NEW c \in Channels, StallCheck(c) PROVE ClaimsCounted'
  <2>1. \A d \in Channels : Claiming(d)' = Claiming(d) /\ Runs(d)' >= Runs(d)
    BY <1>3 DEF StallCheck, Claiming, Runs, AttemptInv
  <2>. QED
    BY <1>0, <1>3, <2>1, CountKept DEF StallCheck
<1>4. ASSUME NEW w \in Workers, ReportThrow(w) \/ ReportReturn(w) PROVE ClaimsCounted'
  <2>1. \A d \in Channels : Claiming(d)' = Claiming(d)
    BY <1>4 DEF ReportThrow, ReportReturn, Claiming, AttemptInv
  <2>2. jobOwner[ch[w]] = w => jobAt[ch[w]] = "active"
    BY DEF AttemptInv, OwnerActive
  <2>3. \A d \in Channels : Runs(d)' >= Runs(d)
    BY <1>4, <2>2 DEF ReportThrow, ReportReturn, Runs, AttemptInv
  <2>. QED
    BY <1>0, <1>4, <2>1, <2>3, CountKept DEF ReportThrow, ReportReturn
<1>5. ASSUME NEW c \in Channels, EnqueueDelivery(c) \/ PromoteDelayed(c) PROVE ClaimsCounted'
  <2>1. \A d \in Channels : Claiming(d)' = Claiming(d)
    BY <1>5 DEF EnqueueDelivery, PromoteDelayed, Claiming
  <2>2. \A d \in Channels : Runs(d)' >= Runs(d)
    BY <1>5 DEF EnqueueDelivery, PromoteDelayed, Runs, AttemptInv, FreshJobs, Untouched
  <2>. QED
    BY <1>0, <1>5, <2>1, <2>2, CountKept DEF EnqueueDelivery, PromoteDelayed
<1>6. ASSUME NEW w \in Workers,
             \/ ClaimRefused(w) \/ ClaimFails(w) \/ FindRecipients(w) \/ SendMessage(w)
             \/ SendFails(w) \/ UpdateRows(w) \/ CommitMark(w) \/ MarkFails(w) \/ WorkerCrash(w)
      PROVE  ClaimsCounted'
  <2>1. /\ attempts' = attempts /\ UNCHANGED <<jobAt, jobMade, jobStalls, ch>>
        /\ \A v \in Workers : pc'[v] = "claim" => pc[v] = "claim"
    BY <1>6 DEF ClaimRefused, ClaimFails, FindRecipients, SendMessage, SendFails, UpdateRows,
       CommitMark, MarkFails, WorkerCrash, Mark, Caught, AttemptInv
  <2>2. \A d \in Channels : Claiming(d)' \subseteq Claiming(d) /\ Runs(d)' >= Runs(d)
    BY <2>1 DEF Claiming, Runs, AttemptInv
  <2>. QED
    BY <1>0, <2>1, <2>2, CountKept
<1>7. CASE UNCHANGED <<attempts, jobAt, jobMade, jobStalls, pc, ch>>
  BY <1>7 DEF ClaimsCounted, Claiming, Runs, AttemptInv
<1>. QED
  BY <1>1, <1>2, <1>3, <1>4, <1>5, <1>6, <1>7 DEF Next, Deliver, CreateNotification,
     EvaluatorCrash, EnqueueFails, BackoffElapses, LeaseExpires, vars

(* A delivery is attempted at most MaxAttempts + MaxStalls times, whatever *)
(* dies, stalls or loses its lock, for any number of processors.           *)
THEOREM AttemptsAreBounded == Spec => []AttemptsBounded
<1>1. AttemptInv => AttemptsBounded
  <2> SUFFICES ASSUME AttemptInv, NEW c \in Channels PROVE attempts[c] <= MaxAttempts + MaxStalls
    BY DEF AttemptsBounded
  <2>1. attempts[c] \in Nat /\ Runs(c) \in Int
    BY DEF AttemptInv, TypeInv, TypeOK, Runs
  <2>2. Runs(c) <= MaxAttempts + MaxStalls
    BY DEF AttemptInv, RunsBounded
  <2>3. Cardinality(Claiming(c)) \in Nat /\ attempts[c] + Cardinality(Claiming(c)) <= Runs(c)
    BY FS_CardinalityType DEF AttemptInv, ClaimsCounted
  <2>. QED
    BY <2>1, <2>2, <2>3
<1>. QED
  BY AttemptInit, AttemptNext, <1>1, PTL DEF Spec
=============================================================================
