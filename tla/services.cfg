SPECIFICATION Spec
CONSTANTS
  h1 = h1
  h2 = h2
  x1 = x1
  x2 = x2
  Handlers = {h1, h2}
  MaxRequests = 4
  MaxTime = 3
  Sessions = {x1, x2}
  MaxTokens = 4
  SessionTtl = 2
  Numbers = {x1, x2}
  CodeTtl = 2
  ResendCooldown = 1
  Places = {x1, x2}
  Radii = {1}
  Default <- DefaultPreference
  Texts = {1, 2}
  Feed <- FeedItems
  MaxDeliveries = 3
  Photos = {x1, x2}
  MaxAttachments = 1
  Routes = {1, 2, 3, 4}
  Offers = {{1, 2, 3}, {1, 4}}
  Duration <- Durations
  Distance <- Distances
  Malformed = {}
  Invalid = {4}
  MaxRisk = 2
  RiskWeight = 7
  DurationWeight = 2
  DistanceWeight = 1
  MaximumOverhead = 50
  MinimumRiskImprovement = 1
  CacheTtl = 1
  Locations = {1, 2, 3}
  Shapeless = {1}
  Unacceptable = {2}
  MaxLocations = 1
  LookupCacheTtl = 1
  Attempts = 3
  MaxEvents = 1
  Contributors = {x1, x2}
  Scale = 12
  Maximum <- Maxima
  Weight <- Weights
  RecentReport = 1
  RecentConfirmation = 1
  PenaltyAge = 10
  OfficialMinimum = 85
  LowThreshold = 50
  HighThreshold = 75
  Reporters = {x1, x2}
  Points = {1, 2}
  Cell <- Cells
  AssociationRadius = 1
  DuplicateRadius = 0
  Lookback = 2
  DuplicateWindow = 1
  ActiveWindow = 3
  MaxReports = 2
  TransactionTime = 1
  Devices = {x1, x2}
  TokenTtl = 2
  TokenMargin = 1
  MaxSends = 3
  MaxLatency = 1
  MaxLogins = 2
  Inputs = {"", "ab", "abc"}
  Address <- Addresses
  MaxInput = 4
  Incidents = {x1, x2}
  Limit = 1
  Lifetime = 2
  Items = {1, 2}
  PageSize = 1
  MaxOpenings = 2
  MaxUpdates = 1
  PollInterval = 2
  MonitorInterval = 1
  CallTimeout = 1
  Areas = {0, 1}
  Start = 0
  MaxTaps = 2
  HitLimit = 2
  Window = 2
  BlockDuration = 2
SYMMETRY Symmetry
CHECK_DEADLOCK FALSE
INVARIANTS TypeOK TokenSpentOnce SettingsKept ChangesAreEvaluated LimitsHeld PlanningSound EvaluatedOnce ReportsAssociatedOnce PushesSound QuietClientIsCurrent ListsComplete
PROPERTIES FinalStaysFinal MessagingSound EvidenceCounts ScreensCurrent
