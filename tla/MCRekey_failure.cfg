SPECIFICATION Spec
CONSTANTS
  Blobs = {b1, b2}
  MaxRuns = 1
  Torn = Torn
INVARIANTS
  FailureIsRecoverable
CHECK_DEADLOCK FALSE
