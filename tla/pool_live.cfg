SPECIFICATION FairSpec
CONSTANTS
  None = None
  NoID = NoID
  ClusterIDs = {c1}
  Specs <- All
  Waits = {TRUE}
  Hosted = {}
  Zones = 2
  MaxGeneration = 2
  Environment = {"crash", "recreate", "flaky"}
CHECK_DEADLOCK FALSE
PROPERTY DeletionCompletes
PROPERTY SpecReachesOCM
