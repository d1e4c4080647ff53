SPECIFICATION FairSpec
CONSTANTS
  ana = ana
  bob = bob
  b1 = b1
  b2 = b2
  b3 = b3
  t1 = t1
  t2 = t2
  Identities <- TwoIdentities
  Nobody = Nobody
  Batches <- ThreeBatches
  From <- Authors
  Says <- Mixed
  Kind <- Channels
  Tasks <- OneTask
  Metric = Metric
  Artifact = Artifact
  MaxCrashes = 1
INVARIANTS
  FabricationWithheld
  StruckForCause
PROPERTIES
  NoNewVoice
  FabricationEscalated
CHECK_DEADLOCK FALSE
