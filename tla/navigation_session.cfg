SPECIFICATION Spec
CONSTANTS
  flood = flood
  surge = surge
  r1 = r1
  r2 = r2
  r3 = r3
  w1 = w1
  w2 = w2
  Incidents = {flood, surge}
  Routes = {r1, r2, r3}
  Planned = r1
  Near <- Corridors
  Workers = {w1, w2}
  MinGain = 1
  Cooldown = 1
  Lifetime = 2
  MaxTime = 2
  MaxEvents = 2
  MaxAttempts = 2
  MaxFailures = 2
  Faults <- AllFaults
SYMMETRY Symmetry
CHECK_DEADLOCK FALSE
INVARIANT TypeOK
PROPERTIES RerouteSpacing MovesAreRecorded EndedUntouched SentIsFinal
