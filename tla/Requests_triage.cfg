SPECIFICATION FairSpec
CONSTANTS
  w1 = w1
  w2 = w2
  t1 = t1
  r1 = r1
  t2 = t2
  NoTask = NoTask
  NoAct = NoAct
  Workers <- Fleet
  Tasks <- Board
  Acts <- Board
  Askers <- TheAsker
  Gated <- TheGated
  FeatureRequests <- OneRequest
  Lens <- AnyVerdict
  Criteria <- TwoCriteria
  OwnItems <- UpToOne
  Quiet <- TheAsker
  MaxRows = 1
  MaxQuestions = 1
  MaxRekicks = 1
  MaxCrashes = 1
INVARIANTS
  OpenIsParked
  MergedIsDelivered
PROPERTIES
  AskerEnds
CHECK_DEADLOCK FALSE
