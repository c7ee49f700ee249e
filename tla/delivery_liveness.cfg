SPECIFICATION FairSpec
CONSTANTS
  push = push
  sms = sms
  w1 = w1
  w2 = w2
  NoWorker = NoWorker
  Channels = {push, sms}
  Workers = {w1, w2}
  MaxAttempts = 2
  MaxStalls = 1
  Faults <- ProvidersOnly
CHECK_DEADLOCK FALSE
INVARIANT StateSound
PROPERTIES ImplementsOutcome EveryDeliverySettles
