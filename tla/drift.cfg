SPECIFICATION DriftSpec
CONSTANTS
  Kinds = {"MachinePool", "NodePool", "ROSACluster"}
  MaxNodes = 3
INVARIANT NoFalseCalm
INVARIANT NoFalseCalmField
PROPERTY Settles
PROPERTY FieldSettles
