SPECIFICATION Spec
CONSTANTS
  Servers = {s, t1, t2}
  Source = s
  Timeout = 3
  PollInterval = 2
INVARIANTS ModelBesideTimeoutOnly
CHECK_DEADLOCK FALSE
