SPECIFICATION Spec
CONSTANTS
  c1 = c1
  c2 = c2
  Callers <- TwoCallers
  Telemetry <- Rekicked
  Threshold = 20
  Measures <- Signups
  Founders <- OneBet
  NoAct = NoAct
  Z2 <- Z95
  MinSample = 30
  MaxLog = 3
  MaxExperiments = 1
  MaxObservations = 1
  MaxSpend = 1
  MaxRequests = 1
  MaxJobs = 3
  MaxCrashes = 1
INVARIANTS
  ReportIsDefined
CHECK_DEADLOCK FALSE
