-------------------------------- MODULE HomeMap --------------------------------
(***************************************************************************)
(* The home screen and its map: React's state, and what the map library    *)
(* draws, which effects copy from it once the map has loaded.  An effect   *)
(* runs when what it depends on changes, so that what changes before is    *)
(* not drawn by it; and what the load itself draws is what the first       *)
(* render had, which is nothing.                                           *)
(*                                                                         *)
(* An area stands for a viewport, the incidents of a feed for that of the  *)
(* request; a feed is asked for by the map, when its view has changed, by  *)
(* a position that was found, or by a confirmation.                        *)
(***************************************************************************)
EXTENDS Requests, Sequences

CONSTANTS
  Areas,   \* what the map may show, by number
  Start,   \* defaultCenter
  MaxTaps  \* bound on what the user does

ASSUME AreasAssumption == Areas \subseteq Nat /\ Start \in Areas /\ MaxTaps \in Nat

VARIABLES
  loaded,    \* loadedRef
  camera,    \* the area the map shows
  target,    \* where it is moving to, NULL when it stands still
  mapCenter, \* the user's position, NULL until it is known
  awaited,   \* positions asked for
  held,      \* the area of the incidents kept, NULL before the first answer
  kept,      \* number of the feed that brought them
  drawn,     \* the area of the incidents on the map
  feeds,     \* feeds in flight
  last,      \* the number of feeds asked for
  viewed,    \* the number of the feed the map asked for last, 0 before the load
  focus,     \* warningFocus
  confirming \* confirmations in flight, with the center at the time

view == <<loaded, camera, target>>
position == <<mapCenter, awaited>>
shownFeed == <<held, kept, drawn>>
homeState == <<view, position, shownFeed, feeds, last, viewed, focus, confirming>>

\* With the demo mode the default area is asked for, else a position.
HomeInit ==
  /\ loaded = FALSE /\ camera = Start /\ target = NULL
  /\ mapCenter = NULL /\ held = NULL /\ drawn = NULL /\ kept = 0
  /\ focus = NULL /\ confirming = {} /\ viewed = 0
  /\ \/ awaited = 1 /\ last = 0 /\ feeds = {}
     \/ awaited = 0 /\ last = 1 /\ feeds = {[n |-> 1, area |-> Start]}

Center == IF mapCenter = NULL THEN Start ELSE mapCenter
Tap == begun < MaxTaps /\ Single

\* loadFeed, for each of a sequence of areas: no request waits for the one
\* before, and none is dropped when another is asked for.
LoadFeed(areas) ==
  /\ feeds' = feeds \cup {[n |-> last + k, area |-> areas[k]] : k \in DOMAIN areas}
  /\ last' = last + Len(areas)

\* handleViewport: the map asks, for what it shows, after any other area.
LoadView(areas) == LoadFeed(areas) /\ viewed' = last'
LoadOther(areas) == LoadFeed(areas) /\ UNCHANGED viewed

\* A move of the map ends the one before, and its end asks for a feed.
EaseTo(area, areas) ==
  /\ target' = area
  /\ IF target = NULL THEN LoadOther(areas) ELSE LoadView(Append(areas, camera))

\* Nothing is drawn, and notifyViewport asks for what the map shows.
MapLoads ==
  /\ ~loaded
  /\ loaded' = TRUE
  /\ LoadView(<<camera>>)
  /\ UNCHANGED <<camera, target, position, shownFeed, focus, confirming, environment>>

\* The user drags the map.
Drag(area) ==
  /\ Tap
  /\ camera' = area /\ target' = NULL
  /\ IF loaded
     THEN LoadView(IF target = NULL THEN <<area>> ELSE <<camera, area>>)
     ELSE UNCHANGED <<feeds, last, viewed>>
  /\ UNCHANGED <<loaded, position, shownFeed, focus, confirming>>

\* Bug: nothing is asked for when a move ends.
MoveEndsSilently ==
  /\ target # NULL
  /\ camera' = target /\ target' = NULL
  /\ UNCHANGED <<loaded, position, shownFeed, feeds, last, viewed, focus, confirming, environment>>

MoveEnds ==
  /\ target # NULL
  /\ camera' = target /\ target' = NULL
  /\ LoadView(<<target>>)
  /\ UNCHANGED <<loaded, position, shownFeed, focus, confirming, environment>>

\* The button asks again, whether or not an answer is due.
Locate ==
  /\ Tap
  /\ awaited' = awaited + 1
  /\ UNCHANGED <<view, mapCenter, shownFeed, feeds, last, viewed, focus, confirming>>

\* The map follows a center that has changed, when it has loaded.
CenterFound(area) ==
  /\ awaited > 0
  /\ awaited' = awaited - 1
  /\ mapCenter' = area
  /\ IF loaded /\ area # Center THEN EaseTo(area, <<area>>)
     ELSE LoadOther(<<area>>) /\ UNCHANGED target
  /\ UNCHANGED <<loaded, camera, shownFeed, focus, confirming, environment>>

CenterRefused ==
  /\ awaited > 0
  /\ awaited' = awaited - 1
  /\ UNCHANGED <<view, mapCenter, shownFeed, feeds, last, viewed, focus, confirming, environment>>

\* The effects on the incidents: the circles and the warning markers.
DrawIncidents(area) == drawn' = IF loaded THEN area ELSE drawn

\* setIncidents, whatever was asked for since: loadFeed compares no request
\* with another, so the answer that comes last is the one kept.
LoadArrives(f) ==
  /\ feeds' = feeds \ {f}
  /\ held' = f.area /\ kept' = f.n
  /\ DrawIncidents(f.area)
  /\ UNCHANGED <<view, position, last, viewed, focus, confirming, environment>>

\* Of the incidents or of the warnings: what is kept stays.
LoadFails(f) ==
  /\ feeds' = feeds \ {f}
  /\ UNCHANGED <<view, position, shownFeed, last, viewed, focus, confirming, environment>>

\* The effect compares coordinates: a second tap on the same warning moves
\* nothing, nor does any tap once the first came before the load.
FocusEffect(area) ==
  IF loaded /\ focus # area THEN EaseTo(area, <<>>) ELSE UNCHANGED <<target, feeds, last, viewed>>

\* A warning came with a feed.
FocusWarning(area) ==
  /\ held # NULL
  /\ Tap
  /\ focus' = area
  /\ FocusEffect(area)
  /\ UNCHANGED <<loaded, camera, position, shownFeed, confirming>>

\* An incident is opened from the map and confirmed.
Confirm ==
  /\ drawn # NULL
  /\ Tap
  /\ confirming' = confirming \cup {Center}
  /\ UNCHANGED <<view, position, shownFeed, feeds, last, viewed, focus>>

\* The feed asked for is that of the user's position, whatever the map shows.
Confirmed(center) ==
  /\ confirming' = confirming \ {center}
  /\ LoadOther(<<center>>)
  /\ UNCHANGED <<view, position, shownFeed, focus, environment>>

ConfirmFails(center) ==
  /\ confirming' = confirming \ {center}
  /\ UNCHANGED <<view, position, shownFeed, feeds, last, viewed, focus, environment>>

HomeNext ==
  \/ MapLoads \/ MoveEnds \/ Locate \/ CenterRefused \/ Confirm
  \/ \E area \in Areas : Drag(area) \/ CenterFound(area) \/ FocusWarning(area)
  \/ \E f \in feeds : LoadArrives(f) \/ LoadFails(f)
  \/ \E center \in confirming : Confirmed(center) \/ ConfirmFails(center)

-----------------------------------------------------------------------------
HomeTypeOK ==
  /\ loaded \in BOOLEAN
  /\ {camera} \cup confirming \subseteq Areas
  /\ {target, mapCenter, held, drawn, focus} \subseteq Areas \cup {NULL}
  /\ awaited \in Nat /\ {kept, viewed} \subseteq 0 .. last
  /\ \A f \in feeds : f.n \in 1 .. last

(* Whatever came before the map had loaded, and in whatever order: the     *)
(* circles on the map are those of the incidents kept, or none as long as  *)
(* no answer came since the load; and when the incidents kept are the      *)
(* answer to the feed the map itself asked for last, they are drawn and    *)
(* are those of the area it shows.  Nothing is promised of any other       *)
(* answer: loadFeed has no guard, so that an answer to an earlier feed, or *)
(* to one about the user's position, replaces the incidents of the area on *)
(* the map when it comes later, and they stay until the next feed.         *)
HomeMapCurrent ==
  /\ drawn \in {NULL, held}
  /\ loaded /\ kept = viewed => drawn = camera
=============================================================================
