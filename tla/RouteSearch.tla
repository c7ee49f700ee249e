------------------------------- MODULE RouteSearch -------------------------------
(***************************************************************************)
(* The route search screen: a search follows what is typed after a pause,  *)
(* its answers come in any order, and choosing a place, finding one's      *)
(* position or the demo trip change what is typed or where from.           *)
(*                                                                         *)
(* A search is what it is for: the text and the origin.  The effect that   *)
(* reacts to a change of either runs before the next event.                *)
(***************************************************************************)
EXTENDS Requests

CONSTANTS
  Inputs,  \* what may be typed, "" for less than two characters
  Address, \* the formatted address of the first result of each
  MaxInput \* bound on the changes of text and origin

ASSUME InputsAssumption == "" \in Inputs /\ Address \in [Inputs -> Inputs \ {""}]
ASSUME MaxInputAssumption == MaxInput \in Nat \ {0}

Origins == {"unset", "found", "demo"}
NoResults == [text |-> "", origin |-> "none"]

VARIABLES
  typed,       \* destinationQuery
  origin,
  label,       \* what the starting point is called
  locating,    \* waits for the position, or for its name
  destination, \* the address chosen
  skip,        \* skipNextSearch
  request,     \* searchRequest
  pending,     \* the timer of the effect that ran last
  sent,        \* searches in flight, with the request each is
  results,     \* the search whose results are kept
  failed,      \* an error is shown
  planning,    \* the preview in flight, for which origin and destination
  plan         \* the route plan saved

choice == <<typed, origin, destination>>
finding == <<label, locating>>
searching == <<skip, request, pending, sent, results>>
searchState == <<choice, finding, searching, failed, planning, plan>>

NoPlan == [from |-> "unset", to |-> "none"]

SearchInit ==
  /\ typed = "" /\ origin = "unset" /\ destination = "none"
  /\ label = "unset" /\ locating = "no"
  /\ skip = FALSE /\ request = 1 /\ pending = FALSE /\ sent = {}
  /\ results = NoResults /\ failed = FALSE
  /\ planning = NoPlan /\ plan = NoPlan

\* The effect on [destinationQuery, origin]: the timer before is cleared, and
\* an answer still on its way is not the latest any more.  When neither has
\* changed it does not run, and leaves a skip for the next change.
Effect(changed, text, skipping, shown) ==
  IF ~changed
  THEN skip' = skipping /\ results' = shown /\ UNCHANGED <<request, pending, sent>>
  ELSE /\ request' = request + 1
       /\ skip' = FALSE
       /\ pending' = (~skipping /\ text # "")
       /\ results' = IF ~skipping /\ text = "" THEN NoResults ELSE shown
       /\ UNCHANGED sent

Edit == request < MaxInput /\ UNCHANGED <<planning, plan, environment>>

Type(text) ==
  /\ Edit
  /\ text # typed
  /\ typed' = text /\ destination' = "none" /\ failed' = FALSE
  /\ Effect(TRUE, text, skip, results)
  /\ UNCHANGED <<origin, finding>>

\* A result is taken by a click, or by Enter while another search goes on; a
\* saved place is offered where nothing is typed.
Select(address) ==
  /\ Edit
  /\ typed' = address /\ destination' = address /\ failed' = FALSE
  /\ Effect(typed # address, address, TRUE, NoResults)
  /\ UNCHANGED <<origin, finding>>

SelectDestination ==
  \/ results # NoResults /\ Select(Address[results.text])
  \/ typed = "" /\ \E text \in Inputs \ {""} : Select(text)

UseCurrentLocation ==
  /\ locating = "no"
  /\ \/ locating' = "asking" /\ failed' = FALSE
     \/ failed' = TRUE /\ UNCHANGED locating
  /\ UNCHANGED <<choice, label, searching, planning, plan, environment>>

\* Each position is a new object, and the effect runs even for the same place.
PositionFound ==
  /\ locating = "asking"
  /\ Edit
  /\ origin' = "found" /\ locating' = "naming"
  /\ Effect(TRUE, typed, skip, results)
  /\ UNCHANGED <<typed, destination, label, failed>>

PositionRefused ==
  /\ locating = "asking"
  /\ locating' = "no" /\ failed' = TRUE
  /\ UNCHANGED <<choice, label, searching, planning, plan, environment>>

\* The name is set for whatever the starting point has become.
PositionNamed ==
  /\ locating = "naming"
  /\ locating' = "no" /\ label' = "found"
  /\ UNCHANGED <<choice, searching, failed, planning, plan, environment>>

UseDemoTrip(address) ==
  /\ Edit
  /\ typed' = address /\ destination' = address /\ origin' = "demo" /\ failed' = FALSE
  /\ label' = "demo"
  /\ Effect(<<typed, origin>> # <<address, "demo">>, address, skip, NoResults)
  /\ UNCHANGED locating

TimerFires ==
  /\ pending
  /\ pending' = FALSE
  /\ sent' = sent \cup {[request |-> request, text |-> typed, origin |-> origin]}
  /\ UNCHANGED <<choice, finding, skip, request, results, failed, planning, plan, environment>>

\* Bug: any answer is shown.
LatestAny(s) == TRUE

Latest(s) == s.request = request

SearchAnswers(s) ==
  /\ sent' = sent \ {s}
  /\ results' = IF Latest(s) THEN [text |-> s.text, origin |-> s.origin] ELSE results
  /\ UNCHANGED <<choice, finding, skip, request, pending, failed, planning, plan, environment>>

SearchFails(s) ==
  /\ sent' = sent \ {s}
  /\ failed' = (failed \/ Latest(s))
  /\ UNCHANGED <<choice, finding, skip, request, pending, results, planning, plan, environment>>

\* submit; the button is disabled until the preview, or the position, is there.
SubmitSearch ==
  /\ planning = NoPlan /\ locating = "no"
  /\ IF origin = "unset" \/ destination = "none"
     THEN failed' = TRUE /\ UNCHANGED planning
     ELSE failed' = FALSE /\ planning' = [from |-> origin, to |-> destination]
  /\ UNCHANGED <<choice, finding, searching, plan, environment>>

\* The plan is for what was chosen at the submit, and opens whatever has been
\* typed since; an empty preview or an error leaves the screen as it is.
PreviewArrives ==
  /\ planning # NoPlan
  /\ planning' = NoPlan
  /\ \/ plan' = planning /\ UNCHANGED failed
     \/ failed' = TRUE /\ UNCHANGED plan
  /\ UNCHANGED <<choice, finding, searching, environment>>

SearchNext ==
  \/ \E text \in Inputs : Type(text) \/ (text # "" /\ UseDemoTrip(text))
  \/ SelectDestination
  \/ UseCurrentLocation \/ PositionFound \/ PositionRefused \/ PositionNamed
  \/ TimerFires
  \/ \E s \in sent : SearchAnswers(s) \/ SearchFails(s)
  \/ SubmitSearch \/ PreviewArrives

-----------------------------------------------------------------------------
SearchTypeOK ==
  /\ typed \in Inputs /\ origin \in Origins /\ skip \in BOOLEAN
  /\ label \in Origins /\ locating \in {"no", "asking", "naming"}
  /\ request \in 1 .. MaxInput
  /\ \A s \in sent : s.request <= request
  /\ results = NoResults \/ results.text # ""

(* Answers come late and out of order: what one brings to the screen is    *)
(* for the text and the starting point as they are then.                   *)
AnswersAreLatest ==
  [][results' \notin {results, NoResults}
     => results' = [text |-> typed, origin |-> origin]]_searchState
=============================================================================
