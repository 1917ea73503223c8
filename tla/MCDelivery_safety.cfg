SPECIFICATION Spec
CONSTANTS
  j1 = j1
  j2 = j2
  w1 = w1
  w2 = w2
  Job <- OneJob
  Worker <- TwoWorkers
  BadJob <- NoJob
  MaxAttempts = 3
  BaseDelay = 1
  MaxDelay = 2
  MaxTries = 4
  MaxJobs = 1
  JobTimeout = 2
  LeaseTTL = 3
  Waits <- SomeWaits
  MaxFaults = 2
  MaxRedisLosses = 1
  MaxOutages = 1
SYMMETRY WorkersAlike
INVARIANTS TypeOK SingleRun SendBudget DuplicatesExplained NothingDropped
PROPERTIES VerdictFinal AtLeastOnce
CHECK_DEADLOCK FALSE
