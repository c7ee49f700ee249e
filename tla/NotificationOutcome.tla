------------------------ MODULE NotificationOutcome ------------------------
(***************************************************************************)
(* What the alert pipeline promises about one notification: every delivery *)
(* opened for it is decided at most once, and success is announced only    *)
(* when every one of them was sent or needed no sending.                   *)
(***************************************************************************)
CONSTANT Channels

VARIABLES
  outcome,   \* "absent", "open", or the final verdict of a delivery
  announced  \* does the notification say that all of it was delivered?

Positive == {"absent", "SENT", "SKIPPED"}

Init ==
  /\ outcome = [c \in Channels |-> "absent"]
  /\ announced = FALSE

Open(opened) ==
  /\ \A c \in Channels : outcome[c] = "absent"
  /\ ~announced
  /\ outcome' = [c \in Channels |-> IF c \in opened THEN "open" ELSE "absent"]
  /\ UNCHANGED announced

Decide(c, v) ==
  /\ outcome[c] = "open"
  /\ outcome' = [outcome EXCEPT ![c] = v]
  /\ \/ UNCHANGED announced
     \/ announced' /\ \A d \in Channels : outcome'[d] \in Positive

Next ==
  \/ \E opened \in (SUBSET Channels) \ {{}} : Open(opened)
  \/ \E c \in Channels, v \in {"SENT", "SKIPPED", "DEAD_LETTER"} : Decide(c, v)

Spec == Init /\ [][Next]_<<outcome, announced>>
=============================================================================
