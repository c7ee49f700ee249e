------------------------------- MODULE PagedLists -------------------------------
(***************************************************************************)
(* The lists that are read page by page with LIMIT and OFFSET: incidents,  *)
(* official warnings, a user's alerts and saved places.  A client reads    *)
(* one of them, from its first page to the one after which the answer says *)
(* there is none, while its rows change.                                   *)
(*                                                                         *)
(* Each page is a count and a query; they are two statements, and under    *)
(* READ COMMITTED each sees the table as it is then.                       *)
(***************************************************************************)
EXTENDS Requests

CONSTANTS
  Items,   \* identifiers, integers
  PageSize

ASSUME PageAssumption ==
  Items \subseteq Int /\ IsFiniteSet(Items) /\ PageSize \in Nat \ {0}

VARIABLES
  list,    \* which list, and which of its rows: those in force, the others, or all
  rows,
  page,    \* the page the client reads next, 0 when it is done
  seen,    \* rows read so far
  moved    \* rows that changed, or that the changes of others may have hidden

pageState == <<list, rows, page, seen, moved>>

Lists ==
  [of : {"incidents"}, only : {"active", "inactive"}]
    \cup [of : {"warnings", "alerts"}, only : {"active", "inactive", "all"}]
    \cup [of : {"places"}, only : {"all"}]

\* `fits` is what the filters on place, type, severity and dates say of a row.
Absent == [status |-> "ABSENT", fits |-> TRUE, from |-> 0, expires |-> NULL, updated |-> 0]
Present == [Absent EXCEPT !.status = "ACTIVE"]

PagesInit ==
  /\ list \in Lists
  /\ rows \in [Items -> {Absent, Present}]
  /\ page = 1 /\ seen = {} /\ moved = {}

\* What one statement makes of a row: an incident, whose expiry matters while
\* it is active and fits, a warning with its dates, an alert that is created or
\* read, a place that is also paused or deleted.
Rewritten(r) ==
  CASE list.of = "incidents" ->
         {[r EXCEPT !.status = "ENDED", !.expires = NULL, !.updated = now],
          [r EXCEPT !.status = "ACTIVE", !.fits = FALSE, !.expires = NULL, !.updated = now]}
           \cup {[r EXCEPT !.status = "ACTIVE", !.fits = TRUE, !.expires = e, !.updated = now] :
                   e \in {NULL, now + 1}}
    [] list.of = "warnings" ->
         {[r EXCEPT !.status = s, !.from = t, !.expires = NULL, !.updated = now] :
            s \in {"ACTIVE", "ENDED"}, t \in {now, now + 1}}
    [] list.of = "alerts" ->
         IF r = Absent THEN {[Present EXCEPT !.from = now]} ELSE {[r EXCEPT !.status = "ENDED"]}
    [] list.of = "places" ->
         {Absent} \cup {[r EXCEPT !.status = s, !.updated = now] : s \in {"ACTIVE", "ENDED"}}

InForce(r) ==
  /\ r.status = "ACTIVE"
  /\ r.from <= now
  /\ r.expires = NULL \/ r.expires > now

Listed(i) ==
  /\ rows[i].status # "ABSENT" /\ rows[i].fits
  /\ list.only = "active" => InForce(rows[i])
  /\ list.only = "inactive" => ~InForce(rows[i])

\* ORDER BY, before the identifier.
Key(r) ==
  CASE list.of = "incidents" -> <<r.updated, 0>>
    [] list.of = "warnings" -> <<r.from, r.updated>>
    [] list.of = "alerts" -> <<r.from, 0>>
    [] list.of = "places" -> <<IF r.status = "ACTIVE" THEN 1 ELSE 0, r.updated>>

Before(i, j) ==
  LET k == Key(rows[i])
      l == Key(rows[j]) IN
  \/ k[1] > l[1]
  \/ k[1] = l[1] /\ k[2] > l[2]
  \/ k = l /\ i > j

Rank(i) == Cardinality({j \in Items : Listed(j) /\ Before(j, i)})

\* Bug: the page before the last is taken for the last.
MorePagesEarly(total) == (page + 1) * PageSize < total

MorePages(total) == page * PageSize < total

CountedLast == \E h \in Handlers : at[h] = "counted" /\ ~MorePages(mem[h].total)

\* An offset skips a row when another before it leaves the list or moves back,
\* and a count that is old by the time of the query hides one that moves back.
Moved ==
  {i \in Items :
     \/ rows'[i] # rows[i]
     \/ ~Listed(i) \/ ~Listed(i)'
     \/ Rank(i)' < Rank(i)
     \/ CountedLast /\ Rank(i)' > Rank(i)}

Rewrite(i) ==
  /\ page # 0
  /\ list.of = "incidents" => rows[i].status # "ENDED"
  /\ \E r \in Rewritten(rows[i]) : rows' = [rows EXCEPT ![i] = r]
  /\ Single
  /\ UNCHANGED <<list, page, seen>>
  /\ moved' = moved \cup Moved

CountRows(h) ==
  /\ page # 0
  /\ \A g \in Handlers : at[g] = Free
  /\ Begin(h, "counted", [total |-> Cardinality({i \in Items : Listed(i)})])
  /\ UNCHANGED pageState

FindMany(h) ==
  /\ at[h] = "counted"
  /\ seen' = seen \cup
       {i \in Items : Listed(i) /\ Rank(i) \in (page - 1) * PageSize .. page * PageSize - 1}
  /\ page' = IF MorePages(mem[h].total) THEN page + 1 ELSE 0
  /\ Finish(h)
  /\ UNCHANGED <<list, rows, moved>>

PagesTick ==
  /\ page # 0
  /\ PassTime
  /\ UNCHANGED <<list, rows, page, seen>>
  /\ moved' = moved \cup Moved

PagesNext ==
  \/ PagesTick
  \/ \E i \in Items : Rewrite(i)
  \/ \E h \in Handlers : CountRows(h) \/ FindMany(h)

-----------------------------------------------------------------------------
PagesTypeOK ==
  /\ list \in Lists
  /\ \A i \in Items : rows[i].updated \in Times /\ rows[i].status \in {"ABSENT", "ACTIVE", "ENDED"}
  /\ page \in 0 .. MaxRequests + 1
  /\ UNION {seen, moved} \subseteq Items

(* A client that reads a list to its last page has read every row that was *)
(* in the list all along, except those that changed, that another row has  *)
(* left behind by leaving the list or moving back in it, or that moved     *)
(* back themselves between the count and the query of the last page.       *)
WalkComplete ==
  page = 0 => \A i \in Items : Listed(i) => i \in seen \cup moved
=============================================================================
