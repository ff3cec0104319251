SPECIFICATION Spec
CONSTANTS
  Runs = {r1, r2}
  Conns = {c1, c2}
  Execs = {e1, e2, e3}
  Backend = "psrun"
  None = None
SYMMETRY Symmetry
INVARIANTS TypeOK ExclusiveConns NoShellLeak ClosedMeansReleased AtMostOnce
PROPERTIES NoCloseUnderRun ReapOnlyUnused ContractSpec
CHECK_DEADLOCK FALSE
