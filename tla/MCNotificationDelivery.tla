----------------------- MODULE MCNotificationDelivery -----------------------
(* Small instances of NotificationDelivery for TLC. *)
EXTENDS NotificationDelivery, TLC

CONSTANTS push, sms, w1, w2

\* Everything but a processor that lives on after its claim was reclaimed.
BoundedPauses == FaultKinds \ {"longPause"}
ProvidersOnly == {"provider", "answerLost"}
FailingDatabase == {"provider", "database"}

\* What can still matter of a processor's local variables, and of the
\* history: a view that tells apart all states with different futures.
Locals(w) ==
  CASE pc[w] = "idle" -> <<"idle">>
    [] pc[w] \in {"return", "throw"} -> <<pc[w], ch[w]>>
    [] pc[w] \in {"claim", "route", "send"} -> <<pc[w], ch[w], made[w]>>
    [] pc[w] = "mark" -> <<"mark", ch[w], made[w], verdict[w]>>
    [] pc[w] = "commit" -> <<"commit", ch[w], made[w], verdict[w], seen[w]>>

LiveState == <<dbVars, toEnqueue, queueVars, [w \in Workers |-> Locals(w)]>>

\* The same with the messages the user received.
LiveSends == <<LiveState, sendVars>>
=============================================================================
