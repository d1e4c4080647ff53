SPECIFICATION FairSpec
CONSTANTS
  w1 = w1
  w2 = w2
  t1 = t1
  t2 = t2
  Tasks <- OneTask
  Workers <- TwoWorkers
  NoWorker = NoWorker
  NoTask = NoTask
  Kind <- OneInternal
  Eligible <- Anyone
  MaxAttempts = 1
  MaxRetries = 1
  StuckThreshold = 1
  NudgeEnabled = TRUE
  AccurateDetector = TRUE
  MaxAsks = 0
  MaxCrashes = 1
PROPERTIES
  NoTaskDropped
CHECK_DEADLOCK FALSE
