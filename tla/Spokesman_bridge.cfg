SPECIFICATION BridgeFairSpec
CONSTANTS
  pm = pm
  call = call
  p1 = p1
  m1 = m1
  k1 = k1
  NoAct = NoAct
  Alarm = Alarm
  Noise = Noise
  Roles <- OneRole
  Calls <- OneCall
  Polls <- OnePoll
  Texts <- OneText
  Keywords <- OneKeyword
  MaxRows = 2
  MaxHandoffs = 1
  MaxSeq = 2
  InFlight = 2
  Rounds = 2
  MaxFaults = 1
INVARIANTS
  Accounted
  SpeechWasApproved
PROPERTIES
  AskReachesHuman
CHECK_DEADLOCK FALSE
