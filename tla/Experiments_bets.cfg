SPECIFICATION BetsSpec
CONSTANTS
  c1 = c1
  c2 = c2
  Callers <- TwoCallers
  Telemetry <- Failing
  Threshold = 20
  Measures <- Signups
  Founders <- OneBet
  NoAct = NoAct
  Z2 <- SmallZ
  MinSample = 2
  MaxLog = 2
  MaxExperiments = 2
  MaxObservations = 1
  MaxSpend = 1
  MaxRequests = 2
  MaxJobs = 3
  MaxCrashes = 1
INVARIANTS
  BetsAreEarned
  RequestsAreEarned
PROPERTIES
  VerdictIsFinal
CHECK_DEADLOCK FALSE
