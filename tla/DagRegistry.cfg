CONSTANTS
  Request <- MCRequest
  Config <- MCConfig
  ValidConfigs <- MCValid
  Nobody = "nobody"
SPECIFICATION FairSpec
INVARIANTS OwnTopology
PROPERTY RequestsFinish
