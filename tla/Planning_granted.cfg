SPECIFICATION FairSpec
CONSTANTS
  w1 = w1
  w2 = w2
  NoRow = NoRow
  NoAct = NoAct
  Workers <- OneWorker
  Answers <- NoOrSingle
  Cap = 1
  Critic = FALSE
  CriticRounds = 1
  AccurateDetector = TRUE
  JobsStall = FALSE
  Lookback = 2
  Limit = 2
  MaxSeq = 1
  MaxKicks = 1
  MaxTicks = 1
  MaxMerged = 0
  MaxTasks = 3
  MaxRows = 1
  FaultKinds <- AllFaults
  MaxFaults = 0
PROPERTIES
  GrantProceeds
CHECK_DEADLOCK FALSE
