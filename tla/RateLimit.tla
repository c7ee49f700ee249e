-------------------------------- MODULE RateLimit --------------------------------
(***************************************************************************)
(* The rate limit of one route for one address: a counter and a block in   *)
(* Redis, each with an expiry of its own, which one script reads and       *)
(* writes for each request, atomically.                                    *)
(***************************************************************************)
EXTENDS Requests, Sequences

CONSTANTS
  HitLimit,     \* limit
  Window,       \* ttl
  BlockDuration

\* No route sets a block duration; the library's default is the ttl.
ASSUME RateAssumption ==
  {HitLimit, Window} \subseteq Nat \ {0} /\ BlockDuration \in Nat /\ BlockDuration >= Window

VARIABLES
  hits,    \* the counter, and when it expires
  blocked, \* until when the block lasts
  passed   \* when each request was that was let through

rateState == <<hits, blocked, passed>>

RateInit ==
  /\ hits = [count |-> 0, expires |-> 0]
  /\ blocked = 0
  /\ passed = <<>>

HitCount == IF hits.expires > now THEN hits.count ELSE 0
Blocked == blocked > now

\* Bug: one request too many.
ExceedsByOne(count) == count > HitLimit + 1

Exceeds(count) == count > HitLimit

Increment ==
  /\ ~Blocked
  /\ hits' = [count |-> HitCount + 1,
              expires |-> IF HitCount = 0 THEN now + Window ELSE hits.expires]
  /\ IF Exceeds(HitCount + 1)
     THEN blocked' = now + BlockDuration /\ UNCHANGED passed
     ELSE passed' = Append(passed, now) /\ UNCHANGED blocked
  /\ UNCHANGED environment

RateTick == PassTime /\ UNCHANGED rateState

RateNext == Increment \/ RateTick

-----------------------------------------------------------------------------
RateTypeOK ==
  /\ hits.count \in 0 .. HitLimit + 1
  /\ blocked \in Nat
  /\ passed \in Seq(Times)

(* Any stretch as long as the window lets less than twice the limit        *)
(* through: as many requests take at least a window.  And a block outlasts *)
(* the counter that caused it: the first request after it is not blocked   *)
(* by the count that remains.                                              *)
RateHeld ==
  /\ \A i, j \in DOMAIN passed :
       j - i = 2 * HitLimit - 1 => passed[j] - passed[i] >= Window
  /\ Blocked => hits.expires <= blocked
=============================================================================
