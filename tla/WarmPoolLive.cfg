SPECIFICATION FairSpec
CONSTANTS
  Runs = {r1, r2}
  Conns = {c1}
  Execs = {e1}
  Backend = "winrm"
  None = None
PROPERTIES CloseCompletes RunServed CancelledReturns
CHECK_DEADLOCK FALSE
