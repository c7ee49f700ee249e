-------------------------------- MODULE MapFeed --------------------------------
(***************************************************************************)
(* The incremental map feed and a client that follows it: its first        *)
(* request asks for the active incidents of a viewport, each later one for *)
(* what has changed since the cursor of the answer before, ended incidents *)
(* included, so that it can remove their markers.                          *)
(*                                                                         *)
(* The home screen (HomeMap) sends no cursor yet; the client is the one     *)
(* nextUpdatedSince and the ended incidents of an answer are meant for.    *)
(*                                                                         *)
(* updated_at is the time at which the writing transaction began, and the  *)
(* row can be read from its commit on.                                     *)
(***************************************************************************)
EXTENDS Requests, FiniteSetsExt

CONSTANTS
  Incidents,
  Limit,   \* the query's limit
  Lifetime \* how long after a write an incident expires, when it does

ASSUME MarkersAssumption == Limit \in Nat \ {0} /\ Lifetime \in Nat \ {0}

VARIABLES
  markers, \* incidents rows in the viewport; the version stands for the content
  shown,   \* the version of each marker the client shows, 0 for none
  cursor,  \* nextUpdatedSince of the last answer
  late,    \* rows whose last write was committed after the clock had gone on
  cut,     \* rows the limit has cut off, and not returned since
  unseen   \* times between the read and the answer of a first, empty feed

feedState == <<markers, shown, cursor, late, cut, unseen>>
NoMarkers == [i \in Incidents |-> 0]

FeedInit ==
  /\ markers = [i \in Incidents |->
       [status |-> "NONE", version |-> 0, updated |-> 0, expires |-> NULL]]
  /\ shown = NoMarkers
  /\ cursor = NULL
  /\ late = {} /\ cut = {} /\ unseen = {}

\* A transaction that creates, updates, touches, rescores or ends an incident.
WriteIncident(h, i) ==
  /\ markers[i].status # "ENDED"
  /\ Begin(h, "writing", [id |-> i, start |-> now])
  /\ UNCHANGED feedState

\* The expiry of an ended incident matters no more.
Written(i, start) ==
  LET row(status, expires) ==
        [status |-> status, version |-> markers[i].version + 1,
         updated |-> start, expires |-> expires] IN
  {row("ACTIVE", NULL), row("ACTIVE", start + Lifetime)}
    \cup (IF markers[i].status = "ACTIVE" THEN {row("ENDED", NULL)} ELSE {})

CommitIncident(h) ==
  LET i == mem[h].id
      start == mem[h].start IN
  /\ at[h] = "writing"
  /\ IF markers[i].status = "ENDED" THEN UNCHANGED <<markers, late>>
     ELSE /\ \E written \in Written(i, start) : markers' = [markers EXCEPT ![i] = written]
          /\ late' = IF start = now THEN late \ {i} ELSE late \cup {i}
  /\ Finish(h)
  /\ UNCHANGED <<shown, cursor, cut, unseen>>

Visible(i) ==
  /\ markers[i].status = "ACTIVE"
  /\ markers[i].expires = NULL \/ markers[i].expires > now

ChangedSince(i, since) == markers[i].updated >= since

Matching(since) ==
  IF since = NULL THEN {i \in Incidents : Visible(i)}
  ELSE {i \in Incidents :
          ChangedSince(i, since) /\ (Visible(i) \/ markers[i].status = "ENDED")}

\* ORDER BY updated_at DESC, id DESC LIMIT.
Newest(rows) ==
  {kept \in SUBSET rows :
     /\ Cardinality(kept) <= Limit
     /\ kept = rows \/ Cardinality(kept) = Limit
     /\ \A i \in kept, j \in rows \ kept : markers[i].updated >= markers[j].updated}

\* findMarkers; a client follows one feed, with one request at a time.
FindMarkers(h) ==
  /\ \A g \in Handlers : at[g] # "read"
  /\ \E kept \in Newest(Matching(cursor)) :
       Begin(h, "read", [rows |-> [i \in kept |-> markers[i]],
                         cut |-> Matching(cursor) \ kept, start |-> now])
  /\ UNCHANGED feedState

NextCursor(rows) ==
  IF cursor = NULL /\ DOMAIN rows = {} THEN now
  ELSE Max({cursor} \cup {rows[i].updated : i \in DOMAIN rows})

\* The client replaces its markers by those of a first answer, and merges those
\* of a later one.
GetFeed(h) ==
  LET rows == mem[h].rows IN
  /\ at[h] = "read"
  /\ cursor' = NextCursor(rows)
  /\ shown' = [i \in Incidents |->
       IF i \notin DOMAIN rows THEN shown[i]
       ELSE IF rows[i].status = "ENDED" THEN 0 ELSE rows[i].version]
  /\ cut' = (cut \ DOMAIN rows) \cup mem[h].cut
  /\ unseen' = IF cursor = NULL /\ DOMAIN rows = {} THEN mem[h].start .. now - 1 ELSE unseen
  /\ Finish(h)
  /\ UNCHANGED <<markers, late>>

FeedFails(h) ==
  /\ at[h] = "read"
  /\ Finish(h)
  /\ UNCHANGED feedState

\* Another viewport, or a reload, starts again.
ChangeViewport ==
  /\ \A h \in Handlers : at[h] # "read"
  /\ shown' = NoMarkers /\ cursor' = NULL /\ cut' = {} /\ unseen' = {}
  /\ Single
  /\ UNCHANGED <<markers, late>>

FeedTick == PassTime /\ UNCHANGED feedState

FeedNext ==
  \/ FeedTick
  \/ ChangeViewport
  \/ \E h \in Handlers :
       \/ CommitIncident(h) \/ FindMarkers(h) \/ GetFeed(h) \/ FeedFails(h)
       \/ \E i \in Incidents : WriteIncident(h, i)

-----------------------------------------------------------------------------
FeedTypeOK ==
  /\ \A i \in Incidents : markers[i].updated \in Times
  /\ shown \in [Incidents -> 0 .. MaxRequests]
  /\ cursor \in Times \cup {NULL}
  /\ UNION {late, cut} \subseteq Incidents

Awaited(i) == markers[i].status = "ACTIVE" /\ ~Visible(i)

(* Where the client's map differs from the table, the difference is in its *)
(* next answer, or waits for the sweep.  Three kinds of change it may miss *)
(* for good: one committed after its updated_at, one cut off by the limit, *)
(* and one made while a first, empty answer was on its way, whose cursor   *)
(* is the time of the answer.                                              *)
FeedComplete ==
  \A i \in Incidents :
    shown[i] # (IF Visible(i) THEN markers[i].version ELSE 0) =>
      \/ markers[i].updated >= cursor
      \/ Awaited(i)
      \/ i \in late \cup cut
      \/ markers[i].updated \in unseen
=============================================================================
