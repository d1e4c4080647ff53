SPECIFICATION Spec
CONSTANTS
  w1 = w1
  w2 = w2
  t1 = t1
  t2 = t2
  Tasks <- TwoTasks
  Workers <- TwoWorkers
  NoWorker = NoWorker
  NoTask = NoTask
  Kind <- Mixed
  Eligible <- Anyone
  MaxAttempts = 2
  MaxRetries = 1
  StuckThreshold = 1
  NudgeEnabled = TRUE
  AccurateDetector = TRUE
  MaxAsks = 2
  MaxCrashes = 2
SYMMETRY Fleet
INVARIANTS
  SingleExecutor
PROPERTIES
  RekickFollowsNudge
  FirstVerdictIsKept
  ImplementsBoard
CHECK_DEADLOCK FALSE
