SPECIFICATION Spec
CONSTANTS
  None = None
  NoID = NoID
  ClusterIDs = {c1}
  ConfigIDs = {o1}
  Prefixes = {p1}
  SpecPrefix = p1
  MaxGeneration = 1
  Specs <- Autoscaled
  Waits = {TRUE}
  Hosted = {}
  Zones = 2
  Environment = {"crash"}
CHECK_DEADLOCK FALSE
PROPERTY ListedPoolsFirst
PROPERTY PoolSide
