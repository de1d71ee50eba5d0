SPECIFICATION Spec
CONSTANTS
  None = None
  NoID = NoID
  ClusterIDs = {c1, c2}
  Specs <- Valid
  Waits = {TRUE, FALSE}
  Hosted = {c1}
  Zones = 2
  MaxGeneration = 1
  Environment = {"error", "crash", "lag", "clusters", "others"}
CHECK_DEADLOCK FALSE
INVARIANT TypeOK
INVARIANT PoolRecorded
 
 
PROPERTY ImplementsCustody
