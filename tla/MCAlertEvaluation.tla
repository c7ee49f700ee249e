--------------------------- MODULE MCAlertEvaluation ---------------------------
(* Small instances of AlertEvaluation for TLC. *)
EXTENDS AlertEvaluation, TLC

CONSTANTS e1, e2

OneUser == {1}
TwoUsers == 1 .. 2
ThreeUsers == 1 .. 3
OneType == {"flood"}
TwoTypes == {"flood", "road"}
NoFaults == {}
Database == {"database"}
AllFaults == {"database", "enqueue", "crash"}

\* What can still matter of an evaluator's local variables.
Locals(e) ==
  CASE pc[e] = "idle" -> <<"idle">>
    [] pc[e] \in {"return", "throw"} -> <<pc[e]>>
    [] pc[e] = "fetch" -> <<"fetch", cursor[e]>>
    [] pc[e] \in {"check", "insert", "enqueue"} -> <<pc[e], seen[e], page[e], isLast[e]>>

LiveState == <<sourceVars, jobVars, [e \in Evaluators |-> Locals(e)], alertVars>>
=============================================================================
