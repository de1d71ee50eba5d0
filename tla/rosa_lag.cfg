SPECIFICATION Spec
CONSTANTS
  None = None
  NoID = NoID
  ClusterIDs = {c1}
  ConfigIDs = {o1, o2}
  Prefixes = {p1, p2}
  SpecPrefix = NoID
  MaxGeneration = 1
  Environment = {"error", "crash", "lag"}
CHECK_DEADLOCK FALSE
PROPERTY ImplementsCustody
