SPECIFICATION FairSpec
CONSTANTS
  None = None
  NoID = NoID
  ClusterIDs = {c1}
  ConfigIDs = {o1}
  Prefixes = {p1}
  SpecPrefix = p1
  MaxGeneration = 2
  Environment = {"error", "crash", "recreate"}
CHECK_DEADLOCK FALSE
INVARIANT ClusterHasOwner
PROPERTY MilestonesKept
PROPERTY ReleasedClean
 
 
