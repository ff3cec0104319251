SPECIFICATION Spec
CONSTANTS
  Calls = {c1}
  Names = {n}
  MaxAttempts = 2
PROPERTIES RetryOnlyUntouched
CHECK_DEADLOCK FALSE
