SPECIFICATION FairSpec
CONSTANTS
  Servers = {s, t1, t2}
  Source = s
  Timeout = 3
  PollInterval = 2
INVARIANTS TypeOK NilMeansReplicated TimeoutIsHonest
PROPERTIES WaitEnds
CHECK_DEADLOCK FALSE
