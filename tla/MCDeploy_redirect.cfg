SPECIFICATION Spec
CONSTANTS
  HeadOf <- OneHead
  Env <- OneEnv
  MaxRuns = 1
  MaxEdits = 0
  MaxOwnRows = 0
INVARIANT FailureMeansTrouble
CHECK_DEADLOCK FALSE
