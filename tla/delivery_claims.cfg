SPECIFICATION Spec
CONSTANTS
  push = push
  sms = sms
  w1 = w1
  w2 = w2
  NoWorker = NoWorker
  Channels = {push}
  Workers = {w1, w2}
  MaxAttempts = 3
  MaxStalls = 1
  Faults <- BoundedPauses
CHECK_DEADLOCK FALSE
INVARIANTS TypeOK ClaimExclusive NoDuplicateSend NoPrematureDeadLetter AttemptsBounded
PROPERTY DecidedIsFinal
VIEW LiveSends
