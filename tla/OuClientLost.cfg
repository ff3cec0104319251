SPECIFICATION Spec
CONSTANTS
  Calls = {u1, u2}
  Names = {n1}
  Containers = {p, q}
  Descriptions = {d1}
  Forms = {"guid", "dn"}
  MaxAttempts = 1
  None = None
INVARIANTS NoLostUpdate
CHECK_DEADLOCK FALSE
