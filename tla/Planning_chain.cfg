SPECIFICATION Spec
CONSTANTS
  w1 = w1
  w2 = w2
  NoRow = NoRow
  NoAct = NoAct
  Workers <- OneWorker
  Answers <- OnlySingle
  Cap = 1
  Critic = FALSE
  CriticRounds = 1
  AccurateDetector = TRUE
  JobsStall = TRUE
  Lookback = 2
  Limit = 2
  MaxSeq = 4
  MaxKicks = 0
  MaxTicks = 1
  MaxMerged = 0
  MaxTasks = 8
  MaxRows = 3
  FaultKinds <- AllFaults
  MaxFaults = 3
INVARIANTS
  ReplansAreBounded
CHECK_DEADLOCK FALSE
