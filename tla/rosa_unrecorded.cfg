SPECIFICATION Spec
CONSTANTS
  None = None
  NoID = NoID
  ClusterIDs = {c1}
  ConfigIDs = {o1, o2}
  Prefixes = {p1, p2}
  SpecPrefix = NoID
  MaxGeneration = 2
  Environment = {"crash"}
CHECK_DEADLOCK FALSE
INVARIANT SkippedDeleteMeansNotCreated
