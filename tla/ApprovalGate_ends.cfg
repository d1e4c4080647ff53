SPECIFICATION FairSpec
CONSTANTS
  w1 = w1
  w2 = w2
  t1 = t1
  t2 = t2
  a1 = a1
  a2 = a2
  a3 = a3
  a4 = a4
  NoTask = NoTask
  NoRow = NoRow
  NoAct = NoAct
  Workers <- TwoWorkers
  Tasks <- TwoTasks
  Acts <- FourActs
  ActsOf <- Split
  Effect <- Mixed
  Loops <- LastTask
  MaxRows = 6
  AccurateDetector = TRUE
  MaxRekicks = 2
  MaxCrashes = 1
INVARIANTS
  OneShot
  AskedForAReason
  ParkedIsResumable
PROPERTIES
  GatedTaskEnds
CHECK_DEADLOCK FALSE
