SPECIFICATION BudgetSpec
CONSTANTS
  c1 = c1
  c2 = c2
  c3 = c3
  wsA = wsA
  wsB = wsB
  org = org
  NoCap = NoCap
  NoRaise = NoRaise
  NoRow = NoRow
  OrgCaps <- TheOrg
  Caps <- TwoCaps
  Calls <- TwoCalls
  Governs <- OwnAndOrg
  Normal <- TwoCalls
  Est <- Twos
  FallbackEst <- Twos
  InitCap <- Two
  NewCaps <- NoNewCaps
  FaultKinds <- OnlyDeath
  Overrun = 0
  ReservePct = 100
  MaxCap = 3
  MaxRows = 2
  MaxFaults = 1
INVARIANTS
  CapNeverShrinks
PROPERTIES
  BlockedIsAsked
CHECK_DEADLOCK FALSE
