SPECIFICATION FairSpec
CONSTANTS
  e1 = e1
  e2 = e2
  i1 = i1
  p1 = p1
  p2 = p2
  topic = topic
  shipped = shipped
  Episodes <- TwoEpisodes
  Imports <- OneImport
  RotateEnabled = TRUE
  MaxSteps = 2
  MaxFaults = 1
  Z2 <- SmallZ
  MinSample = 1
  Promoters <- TwoPromoters
  AlwaysRetro = TRUE
  Floors <- TwoFloors
  Researched <- OneTopic
  Shipped <- OneShipped
  NoAct = NoAct
  MaxRequests = 1
  MaxRestarts = 1
INVARIANTS
  NoUnminedDistilled
CHECK_DEADLOCK FALSE
