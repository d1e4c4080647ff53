SPECIFICATION BudgetFairSpec
CONSTANTS
  c1 = c1
  c2 = c2
  c3 = c3
  wsA = wsA
  wsB = wsB
  org = org
  NoCap = NoCap
  NoRaise = NoRaise
  NoRow = NoRow
  OrgCaps <- TheOrg
  Caps <- ThreeCaps
  Calls <- ThreeCalls
  Governs <- TwoTeams
  Normal <- ButC2
  Est <- Ones
  FallbackEst <- Twos
  InitCap <- BUncapped
  NewCaps <- CapForB
  FaultKinds <- AllFaults
  Overrun = 0
  ReservePct = 75
  MaxCap = 4
  MaxRows = 3
  MaxFaults = 1
INVARIANTS
  CapHolds
  CushionCovers
  ReserveIsKept
PROPERTIES
  CushionIsReturned
CHECK_DEADLOCK FALSE
