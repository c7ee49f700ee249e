SPECIFICATION Spec
CONSTANTS
  ann = ann
  ben = ben
  w1 = w1
  ed = ed
  Users = {ann, ben}
  Workers = {w1}
  Editors = {}
  Dates = {1, 2}
  Stale = 2
  Extension = 1
  Cooldown = 1
  MaxTime = 3
  MaxReports = 2
  MaxUpdates = 0
  MaxAttempts = 2
  Faults <- NoFaults
CHECK_DEADLOCK FALSE
INVARIANTS CountExact ConfidenceCurrent
PROPERTIES ConfirmsActiveOnly WindowKept OfficialExpiryHonoured
