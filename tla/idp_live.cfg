SPECIFICATION FairSpec
CONSTANTS
  None = None
  NoID = NoID
  ClusterIDs = {c1}
  Specs <- OneSpec
  Kind = "LDAP"
  ProviderIDs = {p1, p2}
  MaxGeneration = 1
  Environment = {"error", "crash", "secrets", "clusters", "others", "recreate", "immutable"}
CHECK_DEADLOCK FALSE
PROPERTY DeletionCompletes
PROPERTY ProviderAppears
PROPERTY OnlyOwnDeleted
