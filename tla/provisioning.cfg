SPECIFICATION FairSpec
CONSTANTS
  None = None
  NoVersion = NoVersion
  c1 = c1
  c2 = c2
  ingress = ingress
  storage = storage
  Keys = {c1, c2}
  Versions = {121, 131}
  Catalogs <- MinorUpgrade
  SpecVersion <- DefaultOrFixed
  Requests <- TwoRequests
  Region <- TwoRegions
  WithSubnets = {c1}
  Patience = 1
  Environment = {"error", "crash", "catalog"}
CHECK_DEADLOCK FALSE
INVARIANT TypeOK
INVARIANT RolesFitCluster
INVARIANT NoRoleLeft
INVARIANT NeverForgotten
 
 
