SPECIFICATION Spec
CONSTANTS
  Calls = {u1}
  Names = {n1, n2}
  Containers = {p, q}
  Descriptions = {d1}
  Forms = {"dn"}
  MaxAttempts = 1
  None = None
INVARIANTS OrderKeepsDNValid
CHECK_DEADLOCK FALSE
