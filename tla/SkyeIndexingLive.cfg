SPECIFICATION FairSpec
CONSTANTS
  v1 = v1
  v2 = v2
  p1 = p1
  p2 = p2
  Variant <- TwoVariants
  Partition <- TwoPartitions
  ModelTypes <- BothTypes
  MaxJobs = 1
  MaxLag = 2
  MaxCallFailures = 0
  MaxLosses = 0
  MaxRedeliveries = 0
  MaxFaults = 0
PROPERTIES
  WorkflowCompletes
