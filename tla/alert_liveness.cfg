SPECIFICATION FairSpec
CONSTANTS
  e1 = e1
  e2 = e2
  NoEvaluator = NoEvaluator
  Evaluators = {e1, e2}
  Users <- ThreeUsers
  Types <- OneType
  MaxLevel = 1
  BatchSize = 2
  MaxChanges = 2
  MaxAttempts = 2
  Faults <- NoFaults
CHECK_DEADLOCK FALSE
PROPERTY ConcernedAreAlerted
