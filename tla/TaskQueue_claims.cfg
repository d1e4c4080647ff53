SPECIFICATION Spec
CONSTANTS
  w1 = w1
  w2 = w2
  t1 = t1
  t2 = t2
  Tasks <- OneTask
  Workers <- TwoWorkers
  NoWorker = NoWorker
  NoTask = NoTask
  Kind <- OneInternal
  Eligible <- Anyone
  MaxAttempts = 2
  MaxRetries = 1
  StuckThreshold = 1
  NudgeEnabled = TRUE
  AccurateDetector = TRUE
  MaxAsks = 2
  MaxCrashes = 0
SYMMETRY Fleet
PROPERTIES
  BlockedUntilVerdict
  TerminalIsFinal
CHECK_DEADLOCK FALSE
