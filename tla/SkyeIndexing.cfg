SPECIFICATION Spec
CONSTANTS
  v1 = v1
  v2 = v2
  p1 = p1
  p2 = p2
  Variant <- OneVariant
  Partition <- TwoPartitions
  ModelTypes <- BothTypes
  MaxJobs = 3
  MaxLag = 1
  MaxCallFailures = 1
  MaxLosses = 1
  MaxRedeliveries = 1
  MaxFaults = 1
INVARIANTS
  ServingCollectionExists
  ServedIsReady
PROPERTIES
  ReadNeverRegresses
