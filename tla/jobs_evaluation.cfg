SPECIFICATION JobSpec
CONSTANTS
  Handlers = {h1, h2}
  MaxRequests = 2
  MaxTime = 0
  Attempts = 3
  MaxEvents = 2
CHECK_DEADLOCK FALSE
INVARIANT ChangesTriggerEvaluation
