SPECIFICATION Spec
CONSTANTS
  e1 = e1
  e2 = e2
  NoEvaluator = NoEvaluator
  Evaluators = {e1, e2}
  Users <- OneUser
  Types <- OneType
  MaxLevel = 1
  BatchSize = 1
  MaxChanges = 2
  MaxAttempts = 2
  Faults <- AllFaults
CHECK_DEADLOCK FALSE
INVARIANTS TypeOK OncePerTrigger
VIEW LiveState
