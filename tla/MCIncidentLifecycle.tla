-------------------------- MODULE MCIncidentLifecycle --------------------------
(* Small instances of IncidentLifecycle for TLC. *)
EXTENDS IncidentLifecycle, TLC

CONSTANTS ann, ben, w1, ed

NoEditors == {}
NoFaults == {}
AllFaults == {"enqueue", "database"}
=============================================================================
