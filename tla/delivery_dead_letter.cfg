SPECIFICATION Spec
CONSTANTS
  push = push
  sms = sms
  w1 = w1
  w2 = w2
  NoWorker = NoWorker
  Channels = {push}
  Workers = {w1}
  MaxAttempts = 2
  MaxStalls = 1
  Faults <- FailingDatabase
CHECK_DEADLOCK FALSE
INVARIANT FinalFailureIsDeadLettered
