SPECIFICATION FairSpec
CONSTANTS
  Runs = {r1, r2}
  Concurrency <- MCConcurrency
  MaxDials = 3
INVARIANTS TypeOK NothingLeftBehind
PROPERTIES ContractSpec RunReturns
CHECK_DEADLOCK FALSE
