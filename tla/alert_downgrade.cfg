SPECIFICATION Spec
CONSTANTS
  e1 = e1
  e2 = e2
  NoEvaluator = NoEvaluator
  Evaluators = {e1, e2}
  Users <- TwoUsers
  Types <- OneType
  MaxLevel = 1
  BatchSize = 1
  MaxChanges = 3
  MaxAttempts = 2
  Faults <- NoFaults
CHECK_DEADLOCK FALSE
PROPERTY EscalationOnly
