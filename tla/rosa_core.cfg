SPECIFICATION Spec
CONSTANTS
  None = None
  NoID = NoID
  ClusterIDs = {c1, c2}
  ConfigIDs = {o1, o2}
  Prefixes = {p1, p2}
  SpecPrefix = NoID
  MaxGeneration = 2
  Environment = {"error", "crash", "children", "others"}
SYMMETRY Symmetry
CHECK_DEADLOCK FALSE
INVARIANT TypeOK
INVARIANT ClusterHasOwner
INVARIANT ClusterHasIdentity
INVARIANT RolesAccountedFor
PROPERTY MilestonesKept
PROPERTY ReleasedClean
PROPERTY OnlyOwnClusterDeleted
PROPERTY ImplementsCustody
