----------------------------- MODULE LiveNavigation -----------------------------
(***************************************************************************)
(* The screens of a navigation: the route results start one, and the       *)
(* active route polls its session and monitors the incidents around the    *)
(* geometry it shows.  The two timers do not wait for the answers; a call  *)
(* is aborted after its timeout, except while it refreshes its tokens.     *)
(*                                                                         *)
(* Geometry n is that of the session's n-th update that was sent, 0 that   *)
(* of the route it was started with.                                       *)
(***************************************************************************)
EXTENDS Requests

CONSTANTS
  MaxOpenings,     \* bound on the times the screen is opened
  MaxUpdates,      \* bound on the route updates sent
  PollInterval,    \* fifteen seconds
  MonitorInterval, \* ten seconds
  CallTimeout      \* twelve seconds

ASSUME TimersAssumption ==
  /\ {MaxOpenings, MaxUpdates, PollInterval, MonitorInterval, CallTimeout} \subseteq Nat \ {0}
  /\ MonitorInterval <= CallTimeout /\ CallTimeout < PollInterval

VARIABLES
  screen,
  updates,   \* the newest update of the session that was sent
  session,   \* the update the screen has of its session, NULL before the first answer
  suggested, \* the route navigated is the one the plan recommends
  broken,    \* the error that replaces the screen
  refreshed, \* a poll of this screen has had to refresh its tokens
  polls,     \* calls in flight
  monitors,  \* likewise, each with the run of the effect that made it
  effect,    \* number of that effect's last run
  watched,   \* geometry its last run was for
  monitored, \* geometry around which the incidents shown were asked for
  timers     \* when the two timers fire next

liveState == <<screen, updates, session, suggested, broken, refreshed, polls, monitors, effect,
               watched, monitored, timers>>
calls == <<polls, monitors>>

LiveInit ==
  /\ screen = "results"
  /\ updates = 0 /\ session = NULL /\ suggested = TRUE /\ broken = FALSE /\ refreshed = FALSE
  /\ polls = {} /\ monitors = {} /\ effect = 0 /\ watched = NULL /\ monitored = NULL
  /\ timers = [poll |-> 0, monitor |-> 0]

\* Until the session is known the plan's recommended route is drawn.
Recommended == -2
Geometry(s) == IF s # NULL THEN s ELSE IF suggested THEN 0 ELSE Recommended

\* start: one at a time; the server creates a session, whatever session the
\* browser had before.  An error leaves the results.  A reload of the screen
\* opens it for the session it had.
StartNavigation(recommended) ==
  /\ screen = "results"
  /\ begun < MaxOpenings /\ Single
  /\ screen' = "active" /\ updates' \in {0, updates}
  /\ session' = NULL /\ suggested' = recommended /\ broken' = FALSE /\ refreshed' = FALSE
  /\ monitored' = NULL /\ effect' = effect + 1
  /\ watched' = IF recommended THEN 0 ELSE Recommended
  /\ timers' = [poll |-> now, monitor |-> now]
  /\ UNCHANGED calls

\* The server's evaluation of the session.
SendUpdate ==
  /\ updates < MaxUpdates
  /\ updates' = updates + 1
  /\ UNCHANGED <<screen, session, suggested, broken, refreshed, calls, effect, watched, monitored,
                 timers, environment>>

Poll ==
  /\ screen = "active" /\ timers.poll = now
  /\ polls' = polls \cup {[began |-> now, read |-> NULL, renewed |-> FALSE]}
  /\ timers' = [timers EXCEPT !.poll = now + PollInterval]
  /\ UNCHANGED <<screen, updates, session, suggested, broken, refreshed, monitors, effect,
                 watched, monitored, environment>>

\* The server answers, or the tokens are refreshed first, without a limit in time.
PollProceeds(p) ==
  /\ p.read = NULL
  /\ \/ polls' = (polls \ {p}) \cup {[p EXCEPT !.read = updates]} /\ UNCHANGED refreshed
     \/ polls' = (polls \ {p}) \cup {[p EXCEPT !.renewed = TRUE]} /\ refreshed' = TRUE
  /\ UNCHANGED <<screen, updates, session, suggested, broken, monitors, effect, watched,
                 monitored, timers, environment>>

\* setSession, and the rendering: React first runs the effects that are due
\* of the rendering before.
PollArrives(p) ==
  /\ p.read # NULL
  /\ watched = Geometry(session)
  /\ polls' = polls \ {p}
  /\ session' = p.read
  /\ UNCHANGED <<screen, updates, suggested, broken, refreshed, monitors, effect, watched,
                 monitored, timers, environment>>

\* The effects of a rendering that changed the geometry run some time after
\* it, as its update came from a promise: the cleanup of the run before, and
\* the monitoring of the new geometry, at once.
MonitoringEffect ==
  /\ screen = "active" /\ watched # Geometry(session)
  /\ watched' = Geometry(session)
  /\ effect' = effect + 1
  /\ timers' = [timers EXCEPT !.monitor = now]
  /\ UNCHANGED <<screen, updates, session, suggested, broken, refreshed, calls, monitored,
                 environment>>

\* Any error of one poll is taken for the end of the session, and stays on
\* the screen, while the timers go on.
PollFails(p) ==
  /\ polls' = polls \ {p}
  /\ broken' = TRUE
  /\ UNCHANGED <<screen, updates, session, suggested, refreshed, monitors, effect, watched,
                 monitored, timers, environment>>

Monitor ==
  /\ screen = "active" /\ timers.monitor = now
  /\ monitors' = monitors \cup {[began |-> now, around |-> watched, run |-> effect]}
  /\ timers' = [timers EXCEPT !.monitor = now + MonitorInterval]
  /\ UNCHANGED <<screen, updates, session, suggested, broken, refreshed, polls, effect, watched,
                 monitored, environment>>

\* Bug: the effect's cleanup does not reset `active`.
ActiveAlways(m) == TRUE

Active(m) == m.run = effect

\* An error, or one of either of the two calls, leaves what is shown.
MonitorEnds(m) ==
  /\ monitors' = monitors \ {m}
  /\ monitored' \in {monitored} \cup (IF Active(m) THEN {m.around} ELSE {})
  /\ UNCHANGED <<screen, updates, session, suggested, broken, refreshed, polls, effect, watched,
                 timers, environment>>

\* To the hazards, to a report, or home after stopping: no button leads back,
\* and what is in flight is answered to nobody.
LeaveScreen ==
  /\ screen = "active"
  /\ screen' = "results" /\ polls' = {} /\ monitors' = {}
  /\ UNCHANGED <<updates, session, suggested, broken, refreshed, effect, watched, monitored,
                 timers, environment>>

LiveTick ==
  /\ screen = "active" => timers.poll > now /\ timers.monitor > now
  /\ \A p \in polls : p.renewed \/ now - p.began < CallTimeout
  /\ \A m \in monitors : now - m.began < CallTimeout
  /\ PassTime
  /\ UNCHANGED liveState

LiveNext ==
  \/ \E recommended \in BOOLEAN : StartNavigation(recommended)
  \/ SendUpdate \/ Poll \/ MonitoringEffect \/ Monitor \/ LeaveScreen \/ LiveTick
  \/ \E p \in polls : PollProceeds(p) \/ PollArrives(p) \/ PollFails(p)
  \/ \E m \in monitors : MonitorEnds(m)

-----------------------------------------------------------------------------
LiveTypeOK ==
  /\ screen \in {"results", "active"}
  /\ updates \in 0 .. MaxUpdates
  /\ session # NULL => session <= updates
  /\ {broken, suggested, refreshed} \subseteq BOOLEAN
  /\ \A m \in monitors : m.run <= effect

(* The screen never goes back to a route its session has left: a poll ends *)
(* before the next begins, until one has had to refresh its tokens.  And   *)
(* the incidents that come are those around the route the effect has last  *)
(* run for, never those of a run it has cleaned up.  That is the route on  *)
(* the screen, except between a rendering and its effects, when an answer  *)
(* for the route before is still taken.                                    *)
LiveRouteCurrent ==
  [][/\ session # NULL /\ session' # NULL /\ session' < session => refreshed
     /\ monitored' \notin {monitored, NULL} => monitored' = watched]_liveState
=============================================================================
