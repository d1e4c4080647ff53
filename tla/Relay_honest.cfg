SPECIFICATION Spec
CONSTANTS
  ana = ana
  bob = bob
  b1 = b1
  b2 = b2
  b3 = b3
  t1 = t1
  t2 = t2
  Identities <- TwoIdentities
  Nobody = Nobody
  Batches <- TwoBatches
  From <- CountAuthors
  Says <- Counts
  Kind <- CountChannels
  Tasks <- OneTask
  Metric = Metric
  Artifact = Artifact
  MaxCrashes = 1
INVARIANTS
  HonestKeepsVoice
CHECK_DEADLOCK FALSE
