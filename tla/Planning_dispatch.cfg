SPECIFICATION AgedSpec
CONSTANTS
  w1 = w1
  w2 = w2
  NoRow = NoRow
  NoAct = NoAct
  Workers <- OneWorker
  Answers <- ThreeKinds
  Cap = 1
  Critic = TRUE
  CriticRounds = 1
  AccurateDetector = TRUE
  JobsStall = TRUE
  Lookback = 2
  Limit = 2
  MaxSeq = 3
  MaxKicks = 1
  MaxTicks = 1
  MaxMerged = 1
  MaxTasks = 13
  MaxRows = 4
  FaultKinds <- AllFaults
  MaxFaults = 1
INVARIANTS
  ReplannedOnce
  DecomposedOnce
  ReplanDelivers
PROPERTIES
  StuckIsReplanned
CHECK_DEADLOCK FALSE
