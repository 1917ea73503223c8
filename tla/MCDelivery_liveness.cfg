SPECIFICATION FairSpec
CONSTANTS
  j1 = j1
  j2 = j2
  w1 = w1
  w2 = w2
  Job <- TwoJobs
  Worker <- OneWorker
  BadJob <- SecondJob
  MaxAttempts = 2
  BaseDelay = 1
  MaxDelay = 2
  MaxTries = 3
  MaxJobs = 1
  JobTimeout = 2
  LeaseTTL = 3
  Waits <- SomeWaits
  MaxFaults = 2
  MaxRedisLosses = 0
  MaxOutages = 1
PROPERTY EveryJobEnds
CHECK_DEADLOCK FALSE
