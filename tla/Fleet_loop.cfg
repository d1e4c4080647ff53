SPECIFICATION GatewayFairSpec
CONSTANTS
  w1 = w1
  w2 = w2
  pinned = pinned
  roaming = roaming
  alice = alice
  bob = bob
  home = home
  away = away
  nobody = nobody
  unnamed = unnamed
  Tokens <- TwoTokens
  Identity <- Holders
  Scopes <- AllOfThem
  Pins <- OnePinned
  Workstreams <- TwoStreams
  Home = home
  NoWorkstream = unnamed
  Nobody = nobody
  RemoteTypes <- OfScans
  Slots = {1}
  Workers <- TwoWorkers
  Root <- OneRoot
  Boards <- Shifts
  Others <- Sourcing
  Overspends <- Never
  BaseReview = "on_risk"
  BaseRetro = "always"
  ErrorWindow = 2
  MaxAttempts = 2
  MaxRetries = 1
  Headrooms <- AmpleOrCritical
  AdaptiveOn = TRUE
  HighErrorRate = 50
  LowErrorRate = 10
  BudgetTight = 15
  BudgetCritical = 5
  HighActivity = 2
  ResearchMin = 1
  ResearchMax = 2
INVARIANTS
  FollowsTheOutcome
  CreditWasClaimed
PROPERTIES
  Quiesces
CHECK_DEADLOCK FALSE
