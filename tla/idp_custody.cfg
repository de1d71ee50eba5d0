SPECIFICATION Spec
CONSTANTS
  None = None
  NoID = NoID
  ClusterIDs = {c1, c2}
  Specs <- TwoSpecs
  Kind = "GitLab"
  ProviderIDs = {p1, p2}
  MaxGeneration = 2
  Environment = {"lag", "clusters", "secrets", "immutable"}
SYMMETRY Symmetry
CHECK_DEADLOCK FALSE
INVARIANT TypeOK
PROPERTY ImplementsCustody
