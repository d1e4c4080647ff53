SPECIFICATION SupervisedSpec
CONSTANTS
  w1 = w1
  w2 = w2
  t1 = t1
  t2 = t2
  Tasks <- OneTask
  Workers <- TwoWorkers
  NoWorker = NoWorker
  NoTask = NoTask
  Kind <- OneWork
  Eligible <- Anyone
  MaxAttempts = 2
  MaxRetries = 2
  StuckThreshold = 1
  NudgeEnabled = TRUE
  AccurateDetector = FALSE
  MaxAsks = 1
  MaxCrashes = 0
INVARIANTS
  BoundedRecovery
  MergedWasVerified
PROPERTIES
  SweepSparesParked
  HeldIsTransient
CHECK_DEADLOCK FALSE
