SPECIFICATION Spec
CONSTANTS
  Calls = {u1, u2}
  Names = {n1, n2}
  Containers = {p, q}
  Descriptions = {d1}
  Forms = {"guid"}
  MaxAttempts = 2
  None = None
SYMMETRY Symmetry
INVARIANTS TypeOK UpdateAgrees NoLostUpdate NeverSelfDenied DeleteVerified LockedByItsCall
CHECK_DEADLOCK FALSE
