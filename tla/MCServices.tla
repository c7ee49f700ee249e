------------------------------ MODULE MCServices ------------------------------
(***************************************************************************)
(* A small instance of the services for TLC.                               *)
(***************************************************************************)
EXTENDS Services, TLC

CONSTANTS h1, h2, x1, x2

DefaultPreference == [radius |-> 1, types |-> {"required", "optional"}]

\* An alert with an expiry, an update without one, and the cancellation.
FeedItems ==
  {[text |-> 1, status |-> "UNSET", expiresAt |-> 1],
   [text |-> 2, status |-> "UNSET", expiresAt |-> NULL],
   [text |-> 1, status |-> "CANCELLED", expiresAt |-> 1]}

\* A fast route, a shorter one within the overhead, a still shorter one that
\* takes too long, and one that is not valid.
Durations == <<10, 14, 16, 10>>
Distances == <<9, 6, 5, 9>>

Maxima == [s \in Saturating \cup {"age"} |-> IF s = "age" THEN 3 ELSE 2]
Weights ==
  [s \in Signals |-> CASE s = "confirmations" -> 25
                       [] s = "photos" -> 10
                       [] s = "trustedContributors" -> 5
                       [] OTHER -> 15]

\* Points 1 and 2 are in one cell, 3 in the next.
Cells == <<1, 1, 2>>

\* Every search offers the same place first.
Addresses == [t \in Inputs |-> "abc"]

\* Handlers are interchangeable, and so are the two sessions, numbers,
\* places, photos, contributors, reporters, devices and incidents, which are
\* all called x1 and x2.
Symmetry == Permutations({h1, h2}) \cup Permutations({x1, x2})
=============================================================================
