# FloodLine: TLA+ verification project

FloodLine collects community flood reports and official warnings, keeps a live
picture of incidents, alerts users near their saved places, and re-routes
people who are driving towards a hazard.  This directory holds the TLA+ model of
its backend (`src/backend`) and of the stateful parts of its client
(`src/frontend`), the TLC configurations that check it and the proofs that TLAPS
checks.

The backend is a NestJS application in two roles, an HTTP API and a worker, over
PostgreSQL with PostGIS, and Redis with BullMQ.  Almost everything that is hard
about it follows from four facts:

1. every transaction runs at PostgreSQL's READ COMMITTED level, so statements of
   one transaction see the commits of others in between;
2. a job is added to BullMQ *after* the commit that makes it necessary, and an
   error of `Queue.add` is logged and swallowed;
3. BullMQ runs a job at least once: a job that throws is delayed and run again,
   and one whose lock was not renewed (a dead or a blocked processor) is run
   again while the first run may still be alive;
4. periodic sweeps update rows in bulk next to all of that.

## 1. Inventory

Paths are below `src/backend/src/modules/` unless they begin with `src/`.

| Part | State it keeps | Operations | Talks to | What makes it correct |
|---|---|---|---|---|
| Incidents (`incidents/`) | `incidents`: status, expiry, counters, confidence | create, update, extend the window, recalculate the confidence, sweep | reports, confirmations, warnings; queues alert and navigation evaluations | an active window that every sign of life extends; official expiry honoured; a finished incident stays finished; confidence of the evidence |
| Flood reports (`flood-reports/`) | `flood_reports`; touches the incident | submit: association, duplicate check, insert | queues `flood-report.created` | associated with an active incident; no duplicates by one user |
| Report confirmations (`report-confirmations/`) | `incident_confirmations`, the incident's aggregate | confirm | locks the incident's row; queues `incident.confirmation-added` | aggregate exact; nothing confirmed after the end |
| Alert evaluation (`notifications/alert-evaluation*`) | `notifications` under a dedupe key | evaluate a source page by page | reads incidents, places, preferences; queues deliveries | every concerned user alerted; once per trigger; repeats only escalate |
| Notification delivery (`notifications/notification-delivery*`) | `notification_deliveries`, the notification's state | claim, send, mark sent / failed / skipped | push, SMS and WhatsApp providers | one claimant; a decision per delivery, final; SENT announced only when true |
| Navigation (`navigation/`) | `active_navigation_sessions`, `route_updates` | start, cancel, expire, evaluate an incident's impact, deliver an update | routing provider, event stream; evaluations and deliveries are jobs | moves spaced by the cooldown, once per incident, recorded truthfully, never after the end |
| Background jobs (`jobs/`, `infrastructure/queue`) | BullMQ jobs and repeatable schedules | dispatch by name, validate payload, schedule sweeps | all of the above | every event gets its job, every job its handler |
| Official warnings (`official-warnings/`) | `official_warnings` | ingest, sweep | queues evaluations | a change is alerted once, an unchanged warning not at all |
| Media (`media/`) | `media`, the incident's photo count, S3 objects | authorise, complete, fail an upload | S3, advisory lock per report | attachment limit; a verdict is final |
| Messaging destinations (`notifications/notification-destinations*`) | verified numbers, devices, codes | request and verify a code, register a device | Twilio, FCM | a code used once; a verification goes with its number; a revoked device is silent |
| Authentication (`auth/`) | sessions, refresh-token hashes | login, refresh, logout | users | a token rotates once |
| Routing (`routing/`) | preview cache | preview, risk, recommendation | routing provider, incidents | deterministic, monotone recommendation |
| Contributor status (`profiles/`) | status and history | replace | incident confidence | history complete |
| Rate limiting (`src/backend/src/infrastructure/redis`) | hit and block keys | one Lua script | Redis | limit respected; blocks end |
| Demo controls (`demo/`) | demo rows | reset, trigger a hazard | jobs | the trigger has its hazard evaluated |
| Saved places and preferences (`saved-places/`, `alert-preferences/`) | one row per place, a default preference | create, merge an update, delete; insert the default | alert evaluation | valid rows; defaults never overwrite a choice |
| Map feed and lists (`map/`, the paged lists of four modules) | none | incremental feed with a cursor, pages by offset | incidents, warnings, alerts, places | a reader misses no row that stays |
| Geocoding and provider adapters (`geocoding/`, `integrations/`) | caches, FCM's access token | look up, validate, send | Mapbox, Firebase, Twilio | only usable answers cached; no expired token; sent means accepted by all |
| Client (`src/frontend/src`) | tokens in the session storage, screens' state, timers | call, refresh, log in and out; search; follow a navigation; the home map | the API, the map library | newest tokens kept; what is drawn belongs to what is chosen or shown |
| HTTP shell, configuration, health, metrics; users and profiles; community impact; other screens, demo video | single rows, or none | reads, forms, rendering | | no property of this project is about them |

How the pieces meet: a **report** or **confirmation** commits, then queues a job;
that job extends the incident's window, recalculates its confidence, and is to queue an
**alert evaluation** and a **navigation evaluation**; BullMQ refuses the identifier it
gives the first, so that both stay out (`jobs_evaluation`).  The change of an official
warning queues an event, whose job queues an alert evaluation, and the demo trigger a
navigation evaluation.  An alert evaluation pages through
the concerned users, writes a notification each, and queues a **delivery** per
channel; a navigation evaluation pages through the sessions whose corridor contains the
incident, may move each to another route, and queues the delivery of that route
update.  **Sweeps** expire incidents, warnings and sessions all the while.

The hazards of this code (interleavings, lost or late jobs, retries, stale reads,
boundaries), each at its line and with the properties that look for it, are listed
in `PROJECT.json`.

## 2. Plan

Ordered by what matters most to a user of the system.  All of it is done.

| # | Module | Composes / implements | Checked | Proved |
|---|---|---|---|---|
| 1 | `NotificationDelivery`, `NotificationOutcome` | the first implements the second | two runs, one disagreement | all safety, refinement |
| 2 | `AlertEvaluation` | hands over to 1 | two runs, one disagreement | all safety |
| 3 | `IncidentLifecycle` | incidents, confirmations, the attaching of reports, their jobs | two runs, one disagreement | all safety |
| 4 | `NavigationSession` | sessions, evaluation, update delivery | one run | all safety |
| 5 | `ReportAssociation` | association locks per cell, duplicate check | `services` | all safety |
| 6 | `AuthSession`, `OfficialWarning` | one per component | `services` | all safety |
| 7 | `MessagingDestination`, `MediaUpload`, `UserSettings` | one per component | `services` | all safety |
| 8 | `JobPipeline` | the jobs between the modules above: identifiers, payloads, retries | `services`, one disagreement | all safety |
| 9 | `RoutePlanning`, `Geocoding`, `ProviderAdapters` | cached answers of providers, the recommendation, sending | `services` | all safety |
| 10 | `IncidentConfidence`, `RateLimit` | the score as a function of the evidence; the Lua script | `services` | all safety |
| 11 | `MapFeed`, `PagedLists` | a reader against writers | `services` | all safety |
| 12 | `ClientSession`, `RouteSearch`, `LiveNavigation`, `HomeMap` | the client's parts that are concurrent | `services` | all safety |
| 13 | `Services` | composes modules 5 to 12 | `services` | every property of that run |

`Requests` is what modules 5 to 12 have in common, `Services` their composition,
and `MCServices` its instance for TLC.  What no theorem states are the three liveness
properties.

## 3. The modules and the code

Every definition that models code is listed with its lines under `map` in
`PROJECT.json`.  Definitions below a comment that starts with "Bug:" are the
plausible slips against which the properties are tested (`mutants`); no
specification uses them.

### NotificationDelivery

One notification, its deliveries, one BullMQ job per delivery and the processors.
Every statement of the code is keyed by one delivery or by its notification, so
one notification is the whole interaction.

| Model | Code |
|---|---|
| `state`, `status`, `attempts` | columns of `notifications` and `notification_deliveries` |
| `lease`, `backoff` | the two comparisons with time in `claimDelivery`: `updated_at` older than 15 minutes, `next_attempt_at` ahead |
| `jobAt`, `jobMade`, `jobStalls`, `jobOwner` | the job in BullMQ: place, `attemptsMade`, stalled counter, lock |
| `pc`, `ch`, `made`, `verdict`, `seen` | a processor inside `deliver()` |
| `CreateNotification`, `EnqueueDelivery`, `EnqueueFails`, `EvaluatorCrash` | the transaction of `createIfAbsent` and the loop that adds jobs after it |
| `ClaimDelivery`, `ClaimRefused`, `ClaimFails` | the conditional UPDATE of `claimDelivery`, outside the `try` |
| `FindRecipients`, `SendMessage`, `SendFails` | the channel's recipients and its provider |
| `accepted`, `forgotten` (`Forget`, `DropMark`) | history: messages a provider accepted, and those whose acceptance no mark will record, since its answer or the mark was lost |
| `UpdateRows`, `CommitMark`, `MarkFails` | `markSent`, `markFailed`, `markSkipped`: a transaction whose second UPDATE aggregates over a snapshot |
| `TakeJob`, `ReportReturn`, `ReportThrow`, `PromoteDelayed`, `StallCheck` | BullMQ (external) |
| `BackoffElapses`, `LeaseExpires` | time |

What may go wrong is chosen by the constant `Faults`: a provider refuses, or
accepts and the answer is lost; a statement fails; `Queue.add` fails; a process
dies; a live processor loses its job lock; it holds a claim for 15 minutes; the
database's clock lags behind the processors'.

### NotificationOutcome

What the pipeline promises: the deliveries of a notification are opened together,
each is decided at most once, and success is announced only when every one was
sent or needed no sending.  `NotificationDelivery!Outcome` is the refinement
mapping: an undecided row is "open", `state = "SENT"` is the announcement.

### AlertEvaluation

One source (an incident or a warning), its changes, one evaluation job per change,
the evaluators.  `FetchTargets` is a page of the target query: the next
`BatchSize` concerned users by id, the last page being recognised by its length.
`CheckEscalation` is the `SELECT MAX(escalation_level)` of `createIfAbsent`,
`InsertNotification` its `INSERT ... ON CONFLICT DO NOTHING`: two statements and
therefore two actions.  `EnqueueDeliveries` follows the commit.  Who is concerned
(distance, preferences, quiet hours) is a set of users fixed per behaviour.

### IncidentLifecycle

One incident.  A confirmation is a transaction in three actions, from the
`SELECT ... FOR UPDATE` (`ConfirmLock`) over the aggregate (`ConfirmAggregate`) to
the commit; every UPDATE of the row waits while it holds the lock (`RowFree`).
A report is found compatible and attached in two statements
(`FindCompatible`, `AttachReport`).  Its jobs run `ExtendWindow`, `GetEvidence`,
`UpdateConfidence`, and then add the evaluation of alerts, which BullMQ refuses: every run
ends in `NotifyThrows`, the job starts over while it has attempts left, and fails after
it has done its work.  `Sweep` is
`expireStaleIncidents`; `CheckUpdate` and `WriteUpdate` are `updateIncident`, whose first
read is `findById`: it reports an incident past its expiry as EXPIRED, swept or not
(`EffectiveStatus`).  The
confidence is represented by the evidence it was computed from: the score is a
function of that evidence.  `updateIncident` and the request for a
recalculation have no caller in production code yet; they are documented entry
points and are modelled as such.

### NavigationSession

One session.  `StartAssess` and `StartInsert` are the two awaits of `start`;
`FindAffected`, `Assess`, `UpdateCurrentRisk`, `Preview`, `ApplyRouteUpdate`,
`EnqueueDelivery` are the steps of `evaluateIncidentImpact`, each a statement or a
call of the provider; `EvaluationError` is its catch block, which logs and lets
the job complete.  `FindRouteUpdate`, `Publish`, `MarkSent`, `MarkFailed` are
`deliverRouteUpdate`.  The risk of a route is the number of active incidents in
its corridor, standing for the product over severity, confidence and recency; which
alternatives the provider offers and which one is ranked first is left open.  Time may
pass at every step: an evaluation takes a page of up to 100 sessions one by one, each with
calls that may take 8 s, and may well outlast the cooldown (`Overtaken`).

### Requests, and the components built on it

A handler is a request (or a job) that runs its component's statements one by one:
`at` is the statement it is at, `mem` what it has read.  `Request` counts the
requests made, `PassTime` moves the clock.  `Services` composes the components and
states the properties that several of them make up.  A transaction whose statements are
under one row lock is one action; statements that are not are actions of
their own.

| Module | State | Where the actions are cut, and what is abstracted |
|---|---|---|
| `AuthSession` | `auth`: a row of `auth_sessions` per identifier; `issued`, `parent`: the refresh tokens | `refresh` finds the session by its hash, then `updateMany` exchanges it where that hash still stands; login reads the user before it creates a session. Tokens are numbers |
| `MessagingDestination` | device and endpoint rows, phone number, `code` per purpose, `enabled` channels | two statements each to register and to revoke a device; start of a verification: destination, cooldown test and insert, sending; confirmation: find, then a transaction under the row's lock. A code belongs to the destination, and confirms the number which that has when the code is entered. A wrong code changes nothing: the counted attempt is rolled back by the exception. `confirmed` is the number at the last confirmation of each purpose |
| `UserSettings` | `place`, `preference`, `contributor`, `audit`, `read` | updates read, merge, then write by a statement whose constraints may refuse it |
| `OfficialWarning` | `warning`, the `events` under way and those the queue has `known`, the row last `evaluated` | read by identity, conditional upsert under the row lock, event after the commit; the sweep is one statement and an event. An event is its job's identifier, the kind of change and `updated_at`, and the queue ignores one it has had. The event's job and the evaluation it adds are one step, which succeeds (`Evaluate`) or has failed on all its attempts (`GiveUp`) |
| `MediaUpload` | `media` status, `signed` URLs, `stored` objects | count and insert under the advisory lock; signing; a completion is a read, an inspection of the object and a conditional update (its write to the incident's photo count, which nothing modelled reads, is left out) |
| `ReportAssociation` | `incidents` and `floodReports` in the order of their commits | the transaction with two advisory locks: duplicate check, nearest compatible incident, insert or touch. Points on a line, cells given by a constant; `CURRENT_TIMESTAMP` is the transaction's start |
| `IncidentConfidence` | rows of reports, confirmations, photos, contributors | `getEvidence` and `calculate` as operators of the state; signals are fractions of `Scale`, and their weighted sum is written out as in the code, weights that are all 0 counting as 1 |
| `RoutePlanning` | `reported` risk, the cached `preview` | cache read, provider's answer, one query per candidate, cache write; `Recommend` is the policy in integers |
| `Geocoding` | `lookups` cached | cache read, provider's answer, cache write, three operations |
| `ProviderAdapters` | the token `cache`, `outcome` and `accepted` recipients of each message | asking for the token, and each post of the fan-out; `stray` posts go on after the first error |
| `JobPipeline` | `jobs` by id; `struck`, the events of jobs a fault has hit | adding after a commit, the rule of BullMQ for identifiers with a colon (`IdAccepted`), the dispatcher with its payload check, the two jobs it adds, an exception, a stalled processor |
| `RateLimit` | `hits`, `blocked` with their expiries; `passed`, the times of the requests let through | one script, one action |
| `MapFeed` | `markers` with `updated_at`; what a client has `shown`, its `cursor` | a write begins (its time) and commits (its visibility); a read and its answer. The history variables `late`, `cut` and `unseen` name the three ways in which a change may be missed |
| `PagedLists` | `rows` and the client's `page` | the count and the query of a page are two statements |
| `ClientSession` | `tokens` in the storage, `newest` on the server | a call, its 401, the refresh, the granted pair, its storing; login and logout between them |
| `RouteSearch` | what is typed, chosen, sent, answered | React's events; an effect runs before the next event |
| `LiveNavigation` | the screen's session and hazards, two timers, calls in flight, the geometry `watched` by the effect | the timers do not wait for answers; a call ends within its timeout, but a refresh has none; an effect runs in a step after the update that causes it (`MonitoringEffect`), and answers may come in between |
| `HomeMap` | the camera, the incidents kept and drawn, feeds in flight; which of them the map `viewed` asked for last | effects copy state to the map once it has loaded; answers are kept in the order they come in |

A history variable records what no program variable holds, for a property's
sake: `wanted`, `confirmed`, `chosen`, `passed`, `missed`, `extended`, `struck`, `forgotten`,
`dropped`, `late`, `cut`, `unseen`, `moved`, `lost`, `refreshed`, `viewed`.  Those that excuse
a difference (`missed`, `struck`, `forgotten`, `dropped`, `late`, `cut`, `unseen`, `moved`,
`lost`, `refreshed`) are named in the
property they weaken, and each stands for a loss the code really admits (see 8).

## 4. Runs

| Run | Question | Instance | Distinct states |
|---|---|---|---|
| `delivery_claims` | Do two processors exclude each other and stay within the limits, is a message sent twice only when its acceptance was lost, under every fault but a 15-minute pause? | 1 channel, 2 processors, 3 attempts, 1 stall | 26.7 k |
| `delivery_liveness` | Does every delivery settle, is the announced state exact while mark transactions overlap, is `NotificationOutcome` implemented? | 2 channels, 2 processors, 2 attempts, providers fail | 30.6 k |
| `delivery_dead_letter` | Are final failures marked `DEAD_LETTER`? (no) | 1 channel, 1 processor, failing database | |
| `alert_dedupe` | Is a user notified of one trigger twice? | 1 user, 2 evaluators, 2 changes, 2 levels, all faults | 111 k |
| `alert_liveness` | Is every concerned user alerted? | 3 users, batches of 2, 2 evaluators, 2 changes, no faults | 25 k |
| `alert_downgrade` | Do repeats only escalate? (no) | 2 users, 2 evaluators, 3 changes | |
| `lifecycle_window` | Are the aggregate, the window, official expiry and the confidence right while the sweep runs? | 2 users, 1 processor, 2 reports, 3 units of time | 1.6 M |
| `lifecycle_expiry` | Does a neglected incident end, even with lost jobs and an editor? | 1 user, 1 processor, all faults | 483 k |
| `lifecycle_update` | Can a terminal incident be reactivated? (yes) | 1 editor | |
| `services` | Do the request-driven components keep their promises when two requests overlap, fail or are repeated? | 2 handlers, see below | 866 k |
| `jobs_evaluation` | Does every change of an incident get its evaluation of alerts? (no) | 2 handlers, 2 changes | |
| `navigation_session` | Are moves spaced, recorded, and over when the session is? | 2 incidents, 3 routes, 2 processors, all faults | 1.3 M |

**Why the bounds are enough.**  A delivery interacts with others only through the
aggregate, where two channels already miss each other's write; the claim is a
contest between two.  Two or three attempts have a first, a middle and a last one;
one stall is BullMQ's default.  Three users in batches of two need a full and a
short page, and two a full last page followed by an empty one.  Three units of time
cover a window that was extended (1), a stale period (2) and the instant after it.
In `navigation_session` one incident lies on the planned route and the other on it
and on one of two alternatives, so an evaluation can move to a route that the other
condemns; two units of time, with a cooldown of one and a lifetime of two, contain
two moves and the session's end.  Two failures are enough for a lost lock
followed by an error of the second run.

**The run `services`.**  Its components share the handlers and no table, so they
cannot disturb each other: `part`, chosen at the start, says which of them a
behaviour exercises, and the others stand still.  The run is therefore the union
of 18 small ones, each of which two handlers suffice for: the contests are for one row,
between a statement that has read it and one that writes it.  Its bounds:

- 4 requests (`MaxRequests`): two that meet, one before and one after them; with
  `MaxTokens = 4`, a session is created and its token exchanged three times.
- 3 units of time (`MaxTime`), windows of 1 or 2: something is still valid, just
  expired, and expired for a while.
- 2 of each row (`x1`, `x2`) with limits of 1 (`MaxAttachments`, `MaxLocations`,
  `Limit`, `PageSize`): the limit is met, and passed by the second row.
- `Offers` are a set of routes in which the overhead excludes the shortest and risk
  decides between the others, and one with an invalid candidate.  The weights, the
  overhead and the thresholds are the code's defaults, scaled to integers; windows,
  risks and the numbers at which a signal saturates are small.
- `Points` 1 and 2 are neighbours in one cell, with `AssociationRadius = 1` and
  `DuplicateRadius = 0`; reports of different cells never meet in the code's locks
  and are left out of the property for that reason (see 8).
- `MaxDeliveries = 3` items of a provider's feed, beside the sweep: one that creates the warning,
  one that changes it and one whose event meets an identifier the queue has had.
- `MaxEvents = 1` change for `JobPipeline`, whose jobs of different changes have
  different identifiers, with 3 attempts; `MaxSends = 3` so that a failed send is
  repeated; two logins, two openings of the active route, one update, four inputs, two areas
  and two taps on the client.

Properties that belong together are one conjunction, named for what they say, in
`Services` or, when one component has them all, in its module:
`SettingsKept` (`PlacesWellFormed`, `ChoiceKept`), `MessagingSound` (`CodeUsedOnce`,
`VerifiedNumber`, `RevokedDeviceSilent`, `CodesAreSpaced`), `FinalStaysFinal` (`RevokedIsFinal`,
`VerdictFinal`), `PlanningSound` (`RecommendationSound`, `PreviewUsable`,
`LookupsUsable`), `LimitsHeld` (`AttachmentCap`, `RateHeld`), `ScreensCurrent`
(`AnswersAreLatest`, `LiveRouteCurrent`, `HomeMapCurrent`), `PushesSound`
(`BearerValid`, `SentReachesAll`), `ListsComplete` (`FeedComplete`, `WalkComplete`).

`VIEW` and `SYMMETRY`.  `LiveState` drops from the fingerprint only those local
variables of a processor that its program counter says will be written before they
are read, and the counter of accepted messages, which no property of that run
mentions (`LiveSends` keeps it): states with different futures stay apart.
Processors are interchangeable in `navigation_session`,
handlers and the rows `x1`, `x2` in `services`; no property of these runs is a
liveness property.

`CHECK_DEADLOCK FALSE` is set everywhere because all these systems may come to
rest: no jobs left, the clock at its bound.

**Disagreements shown.**  Four runs expect a violation; each checks one sentence
of the repository's documentation or one error message of the code.

- `delivery_dead_letter`: "final failures are marked `DEAD_LETTER`"
  (`src/backend/README.md:185-186`).  An error of the claim, or of `markFailed`, on the last attempt
  leaves the delivery as it was and no job to move it.
- `alert_downgrade`: "escalation-only repeats" (`src/backend/SECURITY.md:46`).  Two
  evaluations that read different severities both pass the check before either inserts.
- `lifecycle_update`: "A terminal incident cannot be reactivated"
  (`incidents/incidents.service.ts:153`).  The sweep may run between the read that
  checks this and the write.
- `jobs_evaluation`: "A validated internal job triggers confidence/lifecycle, alert, and
  navigation evaluation asynchronously" (`src/backend/SECURITY.md:58`).  The job of a report or a
  confirmation adds the evaluation under `alert-evaluation-incident-<id>-<job>:<correlation>`
  (`jobs/system-jobs.processor.ts:243`, `notifications/alert-evaluation.service.ts:65`).
  BullMQ throws for a custom identifier with a colon that does not split into three parts
  at it, so this add fails on every attempt, and neither evaluation is queued.  The
  identifiers of `createIncident`, `updateIncident` and of a warning's events are in order,
  but nothing in `src/backend/src` calls these two or `ingest` yet, and the demo's alert job
  fails on its payload (section 8): what these entry points promise is checked all the same.

## 5. Fairness

- *Delivery, alerts*: weak fairness of a processor's own steps (a running process
  goes on), of taking, promoting and recovering jobs (BullMQ's worker loop and
  timers), and of the passing of the back-off.  No fairness makes a provider accept,
  or a fault occur or stay away: `delivery_liveness` admits a provider that never
  answers.
- *Incident*: weak fairness of the clock, of the end of open transactions and of
  running jobs; **strong** fairness of the sweep.  The sweep is a repeatable job
  whose UPDATE, when it finds the row locked, joins PostgreSQL's queue for it and is
  next when the lock is released; weak fairness would let ever new confirmations
  pass it by.  That the job was scheduled at boot is assumed; the scheduler only logs an
  error when it was not.
- Attaching a report is fair although nothing is said of `FindCompatible`: a request
  that has begun ends.

## 6. Proofs

The four components with runs of their own have a `_proofs` module each.  The
components of `Services` are proved about in a chain of four modules, each of which
extends the one before: `Accounts_proofs` (sessions, messaging, settings),
`Evidence_proofs` (warnings, photos, report association, confidence),
`Clients_proofs` (the client's parts, the map feed, the paged lists) and
`Services_proofs` (routes, lookups, jobs, provider adapters, rate limits, and the
composition).  Every safety property that a run checks, invariant or action
property, is a theorem.

Assumptions are the named `ASSUME`s on the constants only, all evaluated by TLC on
every run; where a theorem needs more (a fault left out, a single processor) it is a
hypothesis of that theorem.

**NotificationDelivery.**  Four inductive invariants, each on top of the type.

- `TypeInv` adds to `TypeOK` what the types need: a processor about to mark has a
  verdict (`MarkVerdict`); a job that will run again is below its limits
  (`JobLimits`); a job with an owner is active (`OwnerActive`); a job not yet added
  has not been touched (`FreshJobs`).  `TypeCorrect` holds under every fault.
- `ClaimInv` adds `ClaimHeld`: whoever is between claim and mark has its row
  DELIVERING with a fresh lease.  `ClaimExclusive` alone is not inductive: without
  `ClaimHeld` nothing says that a second claim is refused.  From it follow
  `ClaimsExclude` and `DecisionsAreFinal`.
- `StateInv` adds `StateSound` and `AnnouncesTruly`: a transaction that computed SENT
  from its snapshot did so over rows that were all positive then, and by
  `DecisionsAreFinal` they still are when it commits.  From it follow `StateIsSound` and
  `DeliveryImplementsOutcome` (initial states, and every step a step or a stutter of
  `NotificationOutcome`).
- `GiveUpInv` adds `AttemptsKnown`, that the `attemptsMade` a run was called with is not
  above the job's; `NotGivenUpEarly` follows, under every fault.

- `SendInv` adds to `ClaimInv` that an accepted message belongs to a row
  that is SENT, to a processor that is about to mark it so (`Recording`), or to those
  whose acceptance was forgotten.  `SentOnce` follows: every further copy of a message is
  one whose acceptance was lost in an answer, a rolled-back mark or a dead process.
  The code is at-least-once by design; stalls and overlaps alone add no copy.
- `ExactInv` adds `Computed`: what the only processor has aggregated is what the rows
  say.  `StateIsExact` needs no more than the single processor.
- `AttemptInv` adds `ClaimsCounted` and `RunsBounded`: `attempt_count` is at most the runs of
  the job that have claimed, and a job is run `MaxAttempts + MaxStalls` times.
  `AttemptsAreBounded` holds under every fault.

The theorems that rest on the claim assume `"longPause" \notin Faults`: no
processor outlives its 15-minute lease.  The code relies on the same: the mark
statements do not test the status.

**AlertEvaluation.**  `TypeCorrect` includes that an evaluator never handles a target
it does not have, which needs that `Least` of a non-empty set of users exists (well-foundedness of
`<` on the naturals).  `NotifiedOnce` proves `OncePerTrigger` for any number of
evaluators under any faults.  `EscalatesOnly` proves `EscalationOnly` for a single
evaluator, from the invariant that whoever passed the check is not outranked until
it inserts; `alert_downgrade` shows that the hypothesis is needed.

**IncidentLifecycle.**  `TypeCorrect` must show that the newest confirmation, a
`CHOOSE`, exists: the least upper bound of the confirmations is attained
(`NewestIsBound`).

- `LockInv`: the holder of the row lock is alone and the incident is active while it
  holds it.  `ConfirmedWhileActive` follows, under every fault and with editors.
- `CountInv` adds `TallyExact`, that the aggregate about to be written counts
  everybody and the writer; `CountExact` alone says nothing of that.
  `AggregateIsExact` follows, under every fault.
- `OfficialKept` assumes that no editor writes to the incident: an authority that
  changes its warning may move the window, of course.
- `WindowInv` adds `Covered`: the window reaches beyond each sign, or a job that
  will extend it is still queued or running.  `WindowIsKept` assumes no faults and no
  editors; a job lost by an error of `Queue.add` does shorten the window.
- `ConfidenceInv` adds `Settling`: the confidence is of the present evidence, or a job
  waits, or a processor has not read yet, or it holds the present evidence.
  `ConfidenceSettles` assumes no faults and one processor; with two, the older
  evidence may be written last (see the hazards).

**NavigationSession.**

- `TypeInv` adds `JobHeld` and `Recorded` (what is to be delivered has a row), without
  which a mark statement could miss its row, and `PlanMoves`.
- `ReroutesAreSpaced` follows from the steps alone; `SentStaysSent` from the type.
- `EndedStaysUntouched` needs `StartOpen`: a start under way has not inserted.
- `EveryMoveIsRecorded` needs `FreshView`: an evaluation under way saw the session on the
  route it is on, or the session was moved since.  The update records the route *seen*.
  That it is the one really left rests on the second test of the cooldown, not on a
  comparison of routes: an evaluation that outlasts a move and the cooldown after it passes
  that test with a stale route (`Overtaken`, which the property names), and then the
  record begins at a route the session had left before.

The rest are the components of `Services`.  Each has an inductive invariant over
types of its handlers' memory, and lemmas `...Starts` and `...Step` that say so.

**Accounts_proofs.**

- `AuthSession`: `SpendInv` adds `Unspent` to the types: the token a session's row
  holds is nobody's parent, and no two sessions hold the same one.  `TokenIsSpentOnce`
  follows for any number of overlapping requests; `RevokedStaysRevoked` needs only the
  types.
- `MessagingDestination`: `CodeLocked` (who holds the lock of a code's row is alone and
  the code is unused), `ActiveIsWanted` (an active endpoint has a registration or a
  handler that is at it) and `Numbered`.  The last needs `NoNumber \notin Numbers`.
  `VerifiedNumber` is inductive itself.  `MessagingIsSound` is all four promises.
- `UserSettings`: `PlacesWellFormed` and `ChoiceKept` are inductive over the typed
  memory: what a handler has merged is well formed by itself, and the constraints of
  the table decide about the rest.

**Evidence_proofs.**

- `OfficialWarning`: `FoundIsPresent`: what a transaction found under its row lock is
  still there when it writes.  With it `EveryChangeIsEvaluated` is inductive, for any
  feed and any number of deliveries, evaluations that fail for good included.
- `MediaUpload`: `SlotReserved`: who is about to create a row holds the report's lock
  and was counted with room for one more.  The count is a cardinality, of any size.
- `ReportAssociation`: `ReportDates` orders the times of rows, transactions and the
  clock; `ReportLocks` says who holds which advisory lock at which statement;
  `StaysAbsent` keeps what a transaction did *not* find absent until it commits.  The
  nearest incident is a `CHOOSE`, which exists by `LeastExists` (well-foundedness of
  `<`).  `AssociatedOnce` holds for all radii, windows and cells that meet the
  assumptions, in particular that a transaction ends before the lookback and the
  lookback before the active window: the defaults are 15 seconds, two hours and at
  least six.
- `IncidentConfidence`: `EvidenceStep` compares the score before and after a step, so
  the invariant is little more than types and the proof is about the operators: a
  quotient and a saturated fraction grow with what is counted (`QuotientGrows`,
  `NormalizeGrows`), one verified user more lowers no share (`ShareGrows`,
  `ShareKept`: `g/u <= (g+1)/(u+1)`, rounded down), the weighted sum grows with each
  signal (`SumGrows`), and clamping and the official floor keep the order
  (`TotalGrows`).  `CountsGrow` and `CountsFade` say which counts a row and an hour
  move.  It holds for all weights, among them weights that are all 0.

**Clients_proofs.**

- `ClientSession`: `AllGiven` (every pair anywhere in the client was issued by the
  server), `UnsavedIsNewest` (a pair granted and not yet stored is the newest of its
  session or has been replaced by one that is not stored either) and `TokensCurrent`,
  the property with the calls still running counted in.
- `RouteSearch`: `LatestIsCurrent`: a search in flight whose number is the newest is for
  what is on the screen.
- `LiveNavigation`: `PollsInOrder`: until a poll refreshes its tokens there is at most
  one, it ends before the next begins, and has read nothing older than the screen
  shows.  This is where the timeout of a call being shorter than the interval of the
  polls is needed.  `MonitorsCurrent`: what an active run of the effect asks for is
  around the route shown.
- `HomeMap`: `FeedsNumbered`, `KeptNumbered`, `LoadedDraws`: once the map has loaded, what it
  draws is what is kept, or nothing while no answer has come; and the feed that the map
  itself asked for last is one of the area it shows.
- `MapFeed`: `ReadHolds`: an answer under way is right but for what was written after
  its read, committed late, or cut off.
- `PagedLists`: `ReadUpTo` (the rows before the next page that stayed where they were
  have been read) and `CountCovers` (a count that ends the walk covers them).  Both
  rest on lemmas about ranks, which are cardinalities.

**Services_proofs.**

- `RoutePlanning`: that the order of the five sort keys has a first route
  (`FirstExists`), that the cost grows with risk, duration and distance (`CostGrows`,
  products of naturals), and hence `SelectedIsBest`, for any routes, weights and limits.
- `Geocoding`: the memory of a lookup holds acceptable places only.
- `JobPipeline`: `Separate` (a change is queued by one of three origins),
  `JobsEnd` (what a job that is over has left behind), and of each handler `HandlerSound`: its run has done what the
  rows show, and nobody else has its job.  `JobsEvaluateOnce` counts jobs through
  their identifiers.
- `ProviderAdapters`: `TokensTimed` (the cache is ahead of the token by no more than an
  answer takes, which is below the margin) and `PostsWait`.
- `RateLimit`: the requests let through are in order (`PassedInOrder`); those of the
  present counter are the last ones, and the first of them is at least a window after
  the one that lies a limit before it (`WindowsFollow`); a counter above the limit
  goes with a block that outlasts it (`BlockOutlasts`).  So `2 * HitLimit` requests
  span a window.

*The composition.*  A step of `Services` is a step of the component that is exercised
and leaves the variables of the others alone (`AccountRuns` to `ClientsRuns`).  `Sound`
is the invariant of the exercised component, with the bounds its type has in the run
(`AssociationBounds`, `ClientBounds`, ...), and what the property says of those that
stand still.  `EveryPartIsSound` proves it inductive; from it follow, one theorem each,
all fifteen properties of the run `services`, for every value of its constants.

**Only model-checked.**  Liveness (`EveryDeliverySettles`, `ConcernedAreAlerted`,
`CommunityExpires`): proofs from fairness need ENABLED, which this prover does not
treat.  The four disagreements are counterexamples of TLC.

## 7. What is left out of the modelled parts

- A commit whose acknowledgement is lost: a transaction either commits and returns
  or rolls back and throws.
- Spatial predicates, texts, payloads, metrics and logs.  Where a
  choice depends on them (who is concerned, which incident a report is near, which
  route comes first) the model leaves it open or fixes a set per behaviour.
- The ageing of evidence: `ConfidenceCurrent` compares counts, not the decay of
  old reports' weight, which is not recomputed until the next event anyway.
- In `IncidentLifecycle`, an unfinished transaction never lasts a unit of time: a
  unit stands for hours.
- BullMQ's own code: what `add`, a worker, a delayed and a stalled job do is modelled
  from how the code configures and uses them, and its rule for colons in custom
  identifiers from the version the code is built with (`validateOptions` of 5.81.5).
- Locks are held to the end of their transaction and waited for without a bound;
  the 15 seconds after which Prisma rolls an interactive transaction back
  (`src/backend/src/config/configuration.ts:17`) are part of
  `ReportAssociation` only, where the length of a transaction matters.

**Not modelled**, each a component or a part of one in `PROJECT.json`:

- *HTTP shell, configuration, health and metrics*: validation, wiring, headers, counters
  and logs are functions of one request or of the start of a process.
- *Users and profiles* but for the contributor's status: reads and single-row
  updates of one's own row, without a rule that relates two of them.
- *Community impact*: one aggregate query over committed rows.
- *The S3 adapter*: it is the object store of `MediaUpload`; signing a URL is a
  computation of the SDK.
- *The seed of the demo*, a script that writes fixed rows once, and the
  registration of the repeatable sweeps at boot, done once and in one place; that it
  has happened is an assumption of the fairness above.
- *The other screens* (reporting, alerts, profile, settings, onboarding): each renders
  one answer or sends one form.
- *The demo video*: generated from a script, no part of the system.

## 8. Observations about the code

What modelling showed, where no run can call it a disagreement with a sentence of the
repository.  A property that excuses one of these names it by its history
variable; the others are outside the properties or leave them true.

Jobs and deliveries:

- A process that dies after a claim leaves the row DELIVERING for 15 minutes; if the job's
  attempts end before that, the row stays so
  (`notifications/notification-delivery.repository.ts`).  Likewise one that dies
  after the commit of a notification and before its deliveries are queued
  leaves them without jobs: a replay finds the dedupe key taken.
- `next_attempt_at` is set by the processor's clock and compared with the database's: with a
  lagging database a retry is refused, and counts as done.
- An alert evaluation skips a warning whose `effective_at` is still ahead, and nothing
  evaluates it when that time comes (`notifications/alert-evaluation.repository.ts:187`).
- `emitEvent` swallows an error of the queue, an event's job has three attempts, and two changes
  of one kind in one millisecond have the same job: such a change is not evaluated until the
  next one (`official-warnings/official-warnings.service.ts:195`; `missed`).
- The demo adds an alert evaluation whose payload has `incidentId`, where the
  dispatcher demands `sourceId` (`demo/demo.service.ts:74`): the job fails.
  `clearRouteCache` builds its key with the configured name `local`
  (`demo/demo.service.ts:91`), the cache with the provider's,
  `local-development` (`routing/local-routing.provider.ts:17`).

Incidents and evidence:

- The share of verified contributors falls when a newcomer confirms, so that a
  confirmation may lower the score; `EvidenceStep` excepts that case.
- The recount after a completed upload compares `incident_id` with a `report_id`
  (`media/media.repository.ts:133`), so that it sets the incident's `photo_count` to 0 and its
  `updated_at` to the present whatever photos there are; and a completion requests no
  recalculation: photos count only at the next event.
- An incident found active may be expired before it is touched and the report
  inserted (`flood-reports/flood-reports.repository.ts:57`).  A touch writes the time at
  which its transaction began, which may set `updated_at` back.
- Reports at the edge of an association cell take different locks and may create
  two incidents side by side (`flood-reports/flood-reports.repository.ts:25`).

Navigation:

- The recorded risk is raised before the preview and stays so when it fails
  (`navigation/navigation.service.ts:196`); `updateCurrentRisk` of a slow evaluation
  overwrites the risk of a newer route (`navigation/navigation.repository.ts:122`).
- An incident reported between the evaluation of `start` and the insert of the
  session is evaluated against sessions without it (`:64`), and one
  within the cooldown is dropped, not postponed (`:186`).
- The update is committed before its delivery job is added (`:223`), and an older
  update may be delivered after a newer one (`:156`).
- `applyRouteUpdate` compares no route: an evaluation slower than the cooldown moves the session
  from a route it is no longer on and records that one
  (`navigation/navigation.repository.ts:172`; `Overtaken`).

Routing, lists, accounts:

- `FASTEST_AVAILABLE_ROUTE` is given whenever no route has an incident, also for one
  that is chosen for its distance and is slower.
- The map feed misses a row committed after a cursor past its `updated_at`, rows its limit has
  cut off, and what is written while a first, empty answer is under way.  Pages by
  offset skip a row when another leaves the list.  (The order by distance, which a request
  with a `center` asks for, `incidents/incidents.repository.ts:50`, is not modelled.)
- The counter of wrong codes is incremented and then rolled back by the exception of the same
  transaction (`notifications/notification-destinations.service.ts:173`): codes are not
  attempt-limited, as `src/backend/README.md:173` and `src/backend/SECURITY.md:45` have it.
- A code confirms the destination's number of the moment, not the number it was sent to: when a
  start with another number is refused its code by the cooldown, or is for the other purpose,
  the code sent before verifies the number entered after it
  (`notifications/notification-destinations.repository.ts:310`).
- The request for an access token of FCM has no timeout
  (`notifications/fcm-push.provider.ts:81`); `BearerValid` assumes that it is answered
  within the margin by which tokens are renewed early.

Client (`src/frontend/src`):

- A refresh has no timeout (`api/client.ts:13`), so that polls may overlap and answer
  out of order (`refreshed`); a failed login, or a refresh refused for its rate, clears
  the stored session.
- Choosing a destination whose address is what is already typed leaves
  `skipNextSearch` set, and the next text is not searched; the name of a position found late
  overwrites the label of the demo trip.
- The active route has no way back once it is left, and starting again
  creates a second session; one failed poll replaces the screen for good.
- `loadFeed` has no guard against an older request (`components/map/HomeScreen.tsx:64`): the answer
  to an earlier feed, or to one around the user's position, may come last, and then the list and the
  circles are of another area than the map's until the next feed (`HomeMapCurrent` is about the
  other case).
- A position found before the map has loaded moves neither the camera nor the user's dot; the
  locate button with an unchanged position replaces the feed without moving the
  map; a confirmation reloads the feed of the user's position, not of the view;
  the warning markers keep the content they were created with
  (`components/map/LiveMap.tsx:376`).
- A report that is stored and whose photo fails cannot be submitted again: the
  duplicate check refuses it (`components/report/ReportFlowScreen.tsx`).
