-------------------------- MODULE MCNavigationSession --------------------------
(* A small instance of NavigationSession for TLC. *)
EXTENDS NavigationSession, TLC

CONSTANTS flood, surge, r1, r2, r3, w1, w2

\* One incident lies on the planned route, the other also on one alternative.
Corridors == flood :> {r1} @@ surge :> {r1, r2}

\* Processors are interchangeable, and no property names one.
Symmetry == Permutations({w1, w2})

AllFaults == {"enqueue", "database", "provider", "transport", "crash", "lockLoss"}
=============================================================================
