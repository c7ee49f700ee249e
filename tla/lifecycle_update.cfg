SPECIFICATION Spec
CONSTANTS
  ann = ann
  ben = ben
  w1 = w1
  ed = ed
  Users = {ann}
  Workers = {w1}
  Editors = {ed}
  Dates = {1, 2}
  Stale = 2
  Extension = 1
  Cooldown = 1
  MaxTime = 3
  MaxReports = 1
  MaxUpdates = 1
  MaxAttempts = 1
  Faults <- NoFaults
CHECK_DEADLOCK FALSE
PROPERTY TerminalNotReactivated
