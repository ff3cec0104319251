SPECIFICATION FairSpec
CONSTANTS
  Calls = {c1}
  Names = {n, m}
  MaxAttempts = 3
INVARIANTS TypeOK ReportIsTruthful
PROPERTIES LostAnswerEndsCall CreateReturns
CHECK_DEADLOCK FALSE
