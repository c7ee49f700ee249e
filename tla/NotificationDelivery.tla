------------------------ MODULE NotificationDelivery ------------------------
(***************************************************************************)
(* One alert notification and its per-channel deliveries: the rows         *)
(* "notifications" and "notification_deliveries" of PostgreSQL, one BullMQ *)
(* job per delivery, and the job processors that claim a delivery, call    *)
(* the channel's provider and record the outcome.                          *)
(*                                                                         *)
(* Every statement of the code is keyed by one delivery or by its          *)
(* notification, so one notification with all its channels is the whole    *)
(* interaction.  Time is kept as the two comparisons the code makes:       *)
(* whether updated_at is older than 15 minutes (lease) and whether         *)
(* next_attempt_at lies in the database's future (backoff).                *)
(***************************************************************************)
EXTENDS Integers, FiniteSets

CONSTANTS
  Channels,     \* notification channels a user can enable
  Workers,      \* concurrently running job processors
  NoWorker,     \* the owner of a job nobody holds
  MaxAttempts,  \* "attempts" of the delivery job (5 in the code)
  MaxStalls,    \* BullMQ's maxStalledCount (1 by default)
  Faults        \* what may go wrong in the environment

FaultKinds ==
  { "provider",    \* a provider refuses a message
    "answerLost",  \* a provider accepts a message, the caller sees an error
    "database",    \* a statement or transaction fails and is rolled back
    "enqueue",     \* Queue.add fails
    "crash",       \* a process dies
    "lockLoss",    \* a live processor loses its BullMQ job lock
    "longPause",   \* a live processor holds a claim for 15 minutes
    "clockLag" }   \* the database clock runs behind the processors' clock

ASSUME ChannelsAssumption == Channels # {}
ASSUME WorkersAssumption == NoWorker \notin Workers
ASSUME AttemptsAssumption == MaxAttempts \in Nat \ {0}
ASSUME StallsAssumption == MaxStalls \in Nat
ASSUME FaultsAssumption == Faults \subseteq FaultKinds

VARIABLES
  state,      \* notifications.state, "ABSENT" before the insert
  status,     \* notification_deliveries.status, "NONE" where there is no row
  lease,      \* is updated_at at least 15 minutes old?
  backoff,    \* next_attempt_at against the database clock
  attempts,   \* notification_deliveries.attempt_count
  accepted,   \* messages the provider has accepted (what the user receives),
  forgotten,  \* those of them whose acceptance was lost before its row said so
  toEnqueue,  \* deliveries whose job the evaluator has still to add
  jobAt,      \* where the delivery's job is in BullMQ
  jobMade,    \* job.attemptsMade
  jobStalls,  \* the job's stalled counter
  jobOwner,   \* the processor holding the job's lock
  pc,         \* where each processor is in deliver()
  ch,         \* the delivery it works on
  made,       \* the attemptsMade deliver() was called with
  verdict,    \* the status its mark transaction writes
  seen        \* the notification state its UPDATE computed from its snapshot

sendVars   == <<accepted, forgotten>>
dbVars     == <<state, status, lease, backoff, attempts>>
queueVars  == <<jobAt, jobMade, jobStalls, jobOwner>>
workerVars == <<pc, ch, made, verdict, seen>>
vars == <<dbVars, sendVars, toEnqueue, queueVars, workerVars>>

-----------------------------------------------------------------------------
(* The values of the Prisma enums, and the groups the code distinguishes. *)

NotificationState == {"PENDING", "DELIVERING", "SENT", "PARTIAL", "FAILED", "SKIPPED"}
Fulfilled == {"SENT", "SKIPPED"}
Decided == Fulfilled \cup {"DEAD_LETTER"}
DeliveryStatus == {"PENDING", "DELIVERING", "FAILED"} \cup Decided

JobStates == {"absent", "waiting", "active", "delayed", "completed", "failed"}

\* Between a successful claim and the end of the mark transaction.
Holding == {"route", "send", "mark", "commit"}
Steps == {"idle", "claim", "return", "throw"} \cup Holding

Holds(w, c) == pc[w] \in Holding /\ ch[w] = c

\* An uncommitted UPDATE keeps the delivery's row locked.
RowLocked(c) == \E w \in Workers : pc[w] = "commit" /\ ch[w] = c

\* Bug: deliveries still under way count as done.
AggregateIgnoresOpen(rows) ==
  IF \A c \in Channels : rows[c] \notin {"FAILED", "DEAD_LETTER"} THEN "SENT"
  ELSE IF \E c \in Channels : rows[c] = "SENT" THEN "PARTIAL" ELSE "FAILED"

\* The CASE of updateNotificationState over the delivery rows.
Aggregate(rows) ==
  IF \A c \in Channels : rows[c] \in Fulfilled \cup {"NONE"} THEN "SENT"
  ELSE IF \E c \in Channels : rows[c] = "SENT" THEN "PARTIAL"
  ELSE IF \E c \in Channels : rows[c] = "DEAD_LETTER" THEN "FAILED"
  ELSE "DELIVERING"

\* Bug: counts the running attempt twice.
FailureVerdictEarly(m) == IF m + 2 >= MaxAttempts THEN "DEAD_LETTER" ELSE "FAILED"

\* deadLetter = attemptsMade + 1 >= maxAttempts
FailureVerdict(m) == IF m + 1 >= MaxAttempts THEN "DEAD_LETTER" ELSE "FAILED"

\* next_attempt_at after a mark: cleared, untouched, or set ahead.
NextBackoff(v, old) ==
  CASE v \in {"SENT", "DEAD_LETTER"} -> "none"
    [] v = "SKIPPED" -> old
    [] v = "FAILED" -> "future"

-----------------------------------------------------------------------------
Init ==
  /\ state = "ABSENT"
  /\ status = [c \in Channels |-> "NONE"]
  /\ lease = [c \in Channels |-> "fresh"]
  /\ backoff = [c \in Channels |-> "none"]
  /\ attempts = [c \in Channels |-> 0]
  /\ accepted = [c \in Channels |-> 0]
  /\ forgotten = [c \in Channels |-> 0]
  /\ toEnqueue = {}
  /\ jobAt = [c \in Channels |-> "absent"]
  /\ jobMade = [c \in Channels |-> 0]
  /\ jobStalls = [c \in Channels |-> 0]
  /\ jobOwner = [c \in Channels |-> NoWorker]
  /\ pc = [w \in Workers |-> "idle"]
  /\ ch \in [Workers -> Channels]
  /\ made = [w \in Workers |-> 0]
  /\ verdict = [w \in Workers |-> "PENDING"]
  /\ seen = [w \in Workers |-> "PENDING"]

(***************************************************************************)
(* The evaluator: one transaction writes the notification and its          *)
(* deliveries, and only then is a job added per delivery.  A failed add is *)
(* logged and dropped; a crash drops the rest, and the retried evaluation  *)
(* finds the dedupe key taken and adds nothing.                            *)
(***************************************************************************)
CreateNotification(enabled) ==
  /\ state = "ABSENT"
  /\ state' = IF enabled = {} THEN "SKIPPED" ELSE "PENDING"
  /\ status' = [c \in Channels |-> IF c \in enabled THEN "PENDING" ELSE "NONE"]
  /\ toEnqueue' = enabled
  /\ UNCHANGED <<lease, backoff, attempts, sendVars, queueVars, workerVars>>

EnqueueDelivery(c) ==
  /\ c \in toEnqueue
  /\ toEnqueue' = toEnqueue \ {c}
  /\ jobAt' = [jobAt EXCEPT ![c] = "waiting"]
  /\ UNCHANGED <<dbVars, sendVars, jobMade, jobStalls, jobOwner, workerVars>>

EnqueueFails(c) ==
  /\ "enqueue" \in Faults
  /\ c \in toEnqueue
  /\ toEnqueue' = toEnqueue \ {c}
  /\ UNCHANGED <<dbVars, sendVars, queueVars, workerVars>>

EvaluatorCrash ==
  /\ "crash" \in Faults
  /\ toEnqueue # {}
  /\ toEnqueue' = {}
  /\ UNCHANGED <<dbVars, sendVars, queueVars, workerVars>>

(***************************************************************************)
(* BullMQ, as the processor uses it (external).                            *)
(***************************************************************************)
TakeJob(w, c) ==
  /\ pc[w] = "idle"
  /\ jobAt[c] = "waiting"
  /\ jobAt' = [jobAt EXCEPT ![c] = "active"]
  /\ jobOwner' = [jobOwner EXCEPT ![c] = w]
  /\ pc' = [pc EXCEPT ![w] = "claim"]
  /\ ch' = [ch EXCEPT ![w] = c]
  /\ made' = [made EXCEPT ![w] = jobMade[c]]
  /\ UNCHANGED <<dbVars, sendVars, toEnqueue, jobMade, jobStalls, verdict, seen>>

\* The exponential delay, 5000 * 2^attemptsMade ms, is the one deliver() puts
\* into next_attempt_at a moment earlier, so the retry comes due no sooner,
\* provided one clock measures both and the failing run still owned the job.
PromoteDelayed(c) ==
  /\ jobAt[c] = "delayed"
  /\ \/ backoff[c] # "future"
     \/ Faults \cap {"clockLag", "lockLoss"} # {}
  /\ jobAt' = [jobAt EXCEPT ![c] = "waiting"]
  /\ UNCHANGED <<dbVars, sendVars, toEnqueue, jobMade, jobStalls, jobOwner, workerVars>>

\* Bug: a stalled job is put back however often it stalled.
StallCheckUnlimited(c) ==
  /\ jobAt[c] = "active"
  /\ jobOwner[c] = NoWorker \/ "lockLoss" \in Faults
  /\ jobStalls' = [jobStalls EXCEPT ![c] = @ + 1]
  /\ jobAt' = [jobAt EXCEPT ![c] = "waiting"]
  /\ jobOwner' = [jobOwner EXCEPT ![c] = NoWorker]
  /\ UNCHANGED <<dbVars, sendVars, toEnqueue, jobMade, workerVars>>

\* A job whose lock ran out: its processor died, or lives and lost the lock.
StallCheck(c) ==
  /\ jobAt[c] = "active"
  /\ jobOwner[c] = NoWorker \/ "lockLoss" \in Faults
  /\ jobStalls' = [jobStalls EXCEPT ![c] = @ + 1]
  /\ jobAt' = [jobAt EXCEPT ![c] = IF jobStalls[c] >= MaxStalls THEN "failed" ELSE "waiting"]
  /\ jobOwner' = [jobOwner EXCEPT ![c] = NoWorker]
  /\ UNCHANGED <<dbVars, sendVars, toEnqueue, jobMade, workerVars>>

\* deliver() returned or threw; only the lock's owner can move the job.
ReportReturn(w) ==
  LET c == ch[w] IN
  /\ pc[w] = "return"
  /\ pc' = [pc EXCEPT ![w] = "idle"]
  /\ IF jobOwner[c] = w
     THEN /\ jobAt' = [jobAt EXCEPT ![c] = "completed"]
          /\ jobOwner' = [jobOwner EXCEPT ![c] = NoWorker]
     ELSE UNCHANGED <<jobAt, jobOwner>>
  /\ UNCHANGED <<dbVars, sendVars, toEnqueue, jobMade, jobStalls, ch, made, verdict, seen>>

\* Bug: one retry too many.
ReportThrowOffByOne(w) ==
  LET c == ch[w] IN
  /\ pc[w] = "throw"
  /\ pc' = [pc EXCEPT ![w] = "idle"]
  /\ IF jobOwner[c] = w
     THEN /\ jobMade' = [jobMade EXCEPT ![c] = @ + 1]
          /\ jobAt' = [jobAt EXCEPT ![c] =
                         IF jobMade[c] >= MaxAttempts THEN "failed" ELSE "delayed"]
          /\ jobOwner' = [jobOwner EXCEPT ![c] = NoWorker]
     ELSE UNCHANGED <<jobMade, jobAt, jobOwner>>
  /\ UNCHANGED <<dbVars, sendVars, toEnqueue, jobStalls, ch, made, verdict, seen>>

ReportThrow(w) ==
  LET c == ch[w] IN
  /\ pc[w] = "throw"
  /\ pc' = [pc EXCEPT ![w] = "idle"]
  /\ IF jobOwner[c] = w
     THEN /\ jobMade' = [jobMade EXCEPT ![c] = @ + 1]
          /\ jobAt' = [jobAt EXCEPT ![c] =
                         IF jobMade[c] + 1 >= MaxAttempts THEN "failed" ELSE "delayed"]
          /\ jobOwner' = [jobOwner EXCEPT ![c] = NoWorker]
     ELSE UNCHANGED <<jobMade, jobAt, jobOwner>>
  /\ UNCHANGED <<dbVars, sendVars, toEnqueue, jobStalls, ch, made, verdict, seen>>

(***************************************************************************)
(* deliver(deliveryId, attemptsMade, maxAttempts)                          *)
(***************************************************************************)
\* Bug: a delivery under way is claimed without looking at updated_at.
ClaimableFresh(c) ==
  /\ status[c] \in {"PENDING", "FAILED", "DELIVERING"}
  /\ backoff[c] # "future"

\* Bug: only the failed outcomes are excluded, a sent delivery is claimed again.
ClaimableSent(c) ==
  /\ \/ status[c] \in {"PENDING", "FAILED", "SENT"}
     \/ status[c] = "DELIVERING" /\ lease[c] = "stale"
  /\ backoff[c] # "future"

Claimable(c) ==
  /\ \/ status[c] \in {"PENDING", "FAILED"}
     \/ status[c] = "DELIVERING" /\ lease[c] = "stale"
  /\ backoff[c] # "future"

ClaimDelivery(w) ==
  LET c == ch[w] IN
  /\ pc[w] = "claim"
  /\ ~RowLocked(c)
  /\ Claimable(c)
  /\ status' = [status EXCEPT ![c] = "DELIVERING"]
  /\ attempts' = [attempts EXCEPT ![c] = @ + 1]
  /\ lease' = [lease EXCEPT ![c] = "fresh"]
  /\ pc' = [pc EXCEPT ![w] = "route"]
  /\ UNCHANGED <<state, backoff, sendVars, toEnqueue, queueVars, ch, made, verdict, seen>>

\* The UPDATE matched no row: deliver() returns, the job counts as done.
ClaimRefused(w) ==
  /\ pc[w] = "claim"
  /\ ~RowLocked(ch[w])
  /\ ~Claimable(ch[w])
  /\ pc' = [pc EXCEPT ![w] = "return"]
  /\ UNCHANGED <<dbVars, sendVars, toEnqueue, queueVars, ch, made, verdict, seen>>

\* The claim is outside the try block: its error goes straight to BullMQ.
ClaimFails(w) ==
  /\ "database" \in Faults
  /\ pc[w] = "claim"
  /\ pc' = [pc EXCEPT ![w] = "throw"]
  /\ UNCHANGED <<dbVars, sendVars, toEnqueue, queueVars, ch, made, verdict, seen>>

\* The next mark transaction of w writes v.
Mark(w, v) ==
  /\ pc' = [pc EXCEPT ![w] = "mark"]
  /\ verdict' = [verdict EXCEPT ![w] = v]
  /\ UNCHANGED <<ch, made, seen>>

\* The catch block of deliver().
Caught(w) == Mark(w, FailureVerdict(made[w]))

FindRecipients(w) ==
  /\ pc[w] = "route"
  /\ \/ /\ pc' = [pc EXCEPT ![w] = "send"]
        /\ UNCHANGED <<ch, made, verdict, seen>>
     \/ Mark(w, "SKIPPED")
     \/ "database" \in Faults /\ Caught(w)
  /\ UNCHANGED <<dbVars, sendVars, toEnqueue, queueVars>>

\* An acceptance of c's message that no row will tell of.
Forget(c) == forgotten' = [forgotten EXCEPT ![c] = @ + 1]

SendMessage(w) ==
  /\ pc[w] = "send"
  /\ accepted' = [accepted EXCEPT ![ch[w]] = @ + 1]
  /\ \/ Mark(w, "SENT") /\ forgotten' = forgotten
     \/ "answerLost" \in Faults /\ Caught(w) /\ Forget(ch[w])
  /\ UNCHANGED <<dbVars, toEnqueue, queueVars>>

SendFails(w) ==
  /\ "provider" \in Faults
  /\ pc[w] = "send"
  /\ Caught(w)
  /\ UNCHANGED <<dbVars, sendVars, toEnqueue, queueVars>>

(***************************************************************************)
(* markSent, markFailed, markSkipped: one READ COMMITTED transaction.  Its *)
(* first UPDATE locks the delivery's row; its second computes the state of *)
(* the notification from the snapshot of that statement plus its own       *)
(* write.  Waiting for the notification's row does not renew the snapshot  *)
(* the subqueries read, so the state written at the commit is the one seen *)
(* when the statement began.                                               *)
(***************************************************************************)
UpdateRows(w) ==
  /\ pc[w] = "mark"
  /\ ~RowLocked(ch[w])
  /\ seen' = [seen EXCEPT ![w] = Aggregate([status EXCEPT ![ch[w]] = verdict[w]])]
  /\ pc' = [pc EXCEPT ![w] = "commit"]
  /\ UNCHANGED <<dbVars, sendVars, toEnqueue, queueVars, ch, made, verdict>>

\* Bug: deliver() records the failure and does not rethrow it.
CommitSwallows(w) ==
  LET c == ch[w] IN
  /\ pc[w] = "commit"
  /\ status' = [status EXCEPT ![c] = verdict[w]]
  /\ backoff' = [backoff EXCEPT ![c] = NextBackoff(verdict[w], @)]
  /\ lease' = [lease EXCEPT ![c] = "fresh"]
  /\ state' = seen[w]
  /\ pc' = [pc EXCEPT ![w] = "return"]
  /\ UNCHANGED <<attempts, sendVars, toEnqueue, queueVars, ch, made, verdict, seen>>

CommitMark(w) ==
  LET c == ch[w] IN
  /\ pc[w] = "commit"
  /\ status' = [status EXCEPT ![c] = verdict[w]]
  /\ backoff' = [backoff EXCEPT ![c] = NextBackoff(verdict[w], @)]
  /\ lease' = [lease EXCEPT ![c] = "fresh"]
  /\ state' = seen[w]
  /\ pc' = [pc EXCEPT ![w] = IF verdict[w] \in Fulfilled THEN "return" ELSE "throw"]
  /\ UNCHANGED <<attempts, sendVars, toEnqueue, queueVars, ch, made, verdict, seen>>

\* The mark of w is not going to happen: what it had to record is lost.
DropMark(w) ==
  IF pc[w] \in {"mark", "commit"} /\ verdict[w] = "SENT"
  THEN Forget(ch[w])
  ELSE forgotten' = forgotten

\* A rolled-back markSent or markSkipped is caught and marked failed; the
\* error of a rolled-back markFailed leaves deliver().
MarkFails(w) ==
  /\ "database" \in Faults
  /\ pc[w] \in {"mark", "commit"}
  /\ IF verdict[w] \in Fulfilled
     THEN Caught(w)
     ELSE /\ pc' = [pc EXCEPT ![w] = "throw"]
          /\ UNCHANGED <<ch, made, verdict, seen>>
  /\ DropMark(w)
  /\ UNCHANGED <<dbVars, accepted, toEnqueue, queueVars>>

WorkerCrash(w) ==
  /\ "crash" \in Faults
  /\ pc[w] # "idle"
  /\ pc' = [pc EXCEPT ![w] = "idle"]
  /\ jobOwner' = [c \in Channels |-> IF jobOwner[c] = w THEN NoWorker ELSE jobOwner[c]]
  /\ DropMark(w)
  /\ UNCHANGED <<dbVars, accepted, toEnqueue, jobAt, jobMade, jobStalls, ch, made, verdict, seen>>

(***************************************************************************)
(* Time.                                                                   *)
(***************************************************************************)
BackoffElapses(c) ==
  /\ backoff[c] = "future"
  /\ backoff' = [backoff EXCEPT ![c] = "due"]
  /\ UNCHANGED <<state, status, lease, attempts, sendVars, toEnqueue, queueVars, workerVars>>

LeaseExpires(c) ==
  /\ status[c] = "DELIVERING"
  /\ lease[c] = "fresh"
  /\ "longPause" \in Faults \/ \A w \in Workers : ~Holds(w, c)
  /\ lease' = [lease EXCEPT ![c] = "stale"]
  /\ UNCHANGED <<state, status, backoff, attempts, sendVars, toEnqueue, queueVars, workerVars>>

-----------------------------------------------------------------------------
Deliver(w) ==
  \/ ClaimDelivery(w) \/ ClaimRefused(w) \/ FindRecipients(w)
  \/ SendMessage(w) \/ SendFails(w) \/ UpdateRows(w) \/ CommitMark(w)
  \/ ReportReturn(w) \/ ReportThrow(w)

Next ==
  \/ \E enabled \in (SUBSET Channels) \ {{}} : CreateNotification(enabled)
  \/ EvaluatorCrash
  \/ \E c \in Channels :
       \/ EnqueueDelivery(c) \/ EnqueueFails(c)
       \/ PromoteDelayed(c) \/ StallCheck(c)
       \/ BackoffElapses(c) \/ LeaseExpires(c)
       \/ \E w \in Workers : TakeJob(w, c)
  \/ \E w \in Workers :
       \/ Deliver(w) \/ ClaimFails(w) \/ MarkFails(w) \/ WorkerCrash(w)

Spec == Init /\ [][Next]_vars

\* Processors run what they took, BullMQ hands out, promotes and recovers
\* jobs, and time passes.  Nothing makes a provider ever accept a message.
Fairness ==
  /\ \A w \in Workers : WF_vars(Deliver(w))
  /\ \A c \in Channels :
       /\ WF_vars(EnqueueDelivery(c))
       /\ WF_vars(\E w \in Workers : TakeJob(w, c))
       /\ WF_vars(PromoteDelayed(c))
       /\ WF_vars(StallCheck(c))
       /\ WF_vars(BackoffElapses(c))

FairSpec == Spec /\ Fairness

-----------------------------------------------------------------------------
(* Every row, job and processor keeps to the values its type allows; in    *)
(* particular the counters of BullMQ stay within their limits.             *)
TypeOK ==
  /\ state \in NotificationState \cup {"ABSENT"}
  /\ status \in [Channels -> DeliveryStatus \cup {"NONE"}]
  /\ lease \in [Channels -> {"fresh", "stale"}]
  /\ backoff \in [Channels -> {"none", "future", "due"}]
  /\ attempts \in [Channels -> Nat]
  /\ accepted \in [Channels -> Nat]
  /\ forgotten \in [Channels -> Nat]
  /\ toEnqueue \subseteq Channels
  /\ jobAt \in [Channels -> JobStates]
  /\ jobMade \in [Channels -> 0 .. MaxAttempts]
  /\ jobStalls \in [Channels -> 0 .. MaxStalls + 1]
  /\ jobOwner \in [Channels -> Workers \cup {NoWorker}]
  /\ pc \in [Workers -> Steps]
  /\ ch \in [Workers -> Channels]
  /\ made \in [Workers -> 0 .. MaxAttempts]
  /\ verdict \in [Workers -> {"PENDING", "FAILED"} \cup Decided]
  /\ seen \in [Workers -> NotificationState]

(* At most one processor is between claiming a delivery and recording its  *)
(* outcome, whatever BullMQ re-runs: the conditional UPDATE of             *)
(* claimDelivery is the only mutual exclusion there is, and the mark       *)
(* statements, which test no status, rely on it.                           *)
ClaimExclusive ==
  \A w1, w2 \in Workers : \A c \in Channels :
    Holds(w1, c) /\ Holds(w2, c) => w1 = w2

(* A message the provider has accepted is given to it again only when the  *)
(* acceptance was lost before its row said so: the answer did not arrive,  *)
(* markSent was rolled back, or the process died in between.  Stalls, lost *)
(* job locks, lagging clocks and overlapping processors add no copy.       *)
NoDuplicateSend == \A c \in Channels : accepted[c] <= forgotten[c] + 1

(* The notification says SENT only when every delivery was sent or         *)
(* skipped, even though concurrent mark transactions compute that state    *)
(* from snapshots that miss each other's writes.                           *)
StateSound ==
  state = "SENT" => \A c \in Channels : status[c] \in Fulfilled \cup {"NONE"}

(* With one processor no two mark transactions overlap, and from the first *)
(* recorded outcome on the notification's state is the aggregate of its    *)
(* deliveries, claims and crashes in between included.                     *)
StateExact == state \in {"ABSENT", "PENDING"} \/ state = Aggregate(status)

(* The delivery machinery implements NotificationOutcome: claims, retries, *)
(* reclaims and overlapping transactions only ever open deliveries, decide *)
(* each of them once, and announce success when it is true.                *)
Outcome == INSTANCE NotificationOutcome WITH
  outcome <- [c \in Channels |->
               IF status[c] \in Decided THEN status[c]
               ELSE IF status[c] = "NONE" THEN "absent" ELSE "open"],
  announced <- state = "SENT"

ImplementsOutcome == Outcome!Spec

(* A delivery is given up as DEAD_LETTER only after MaxAttempts - 1 failed *)
(* runs of its job, stalls not counted.                                    *)
NoPrematureDeadLetter ==
  \A c \in Channels : status[c] = "DEAD_LETTER" => jobMade[c] >= MaxAttempts - 1

(* A delivery is attempted at most once per run of its job, and the job    *)
(* runs at most MaxAttempts + MaxStalls times.                             *)
AttemptsBounded == \A c \in Channels : attempts[c] <= MaxAttempts + MaxStalls

(* The statuses the code treats as final are final: no late mark           *)
(* transaction of another processor overwrites them.                       *)
DecidedIsFinal ==
  [][\A c \in Channels : status[c] \in Decided => status'[c] = status[c]]_vars

(* A delivery once recorded ends SENT, SKIPPED or DEAD_LETTER: retries of  *)
(* BullMQ carry it to a verdict when only providers fail.                  *)
EveryDeliverySettles ==
  \A c \in Channels : status[c] = "PENDING" ~> status[c] \in Decided

(* README.md:186 says final failures are marked DEAD_LETTER: a job out of  *)
(* attempts leaves no delivery in another status.                          *)
FinalFailureIsDeadLettered ==
  \A c \in Channels : jobAt[c] = "failed" => status[c] = "DEAD_LETTER"

=============================================================================
