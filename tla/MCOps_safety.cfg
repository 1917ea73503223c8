SPECIFICATION Spec
CONSTANTS
  t1 = t1
  t2 = t2
  w1 = w1
  w2 = w2
  r1 = r1
  r2 = r2
  Task <- TwoTasks
  MaxPools = 3
  MaxCloses = 2
  Worker <- TwoWorkers
  Interval = 3
  TTL = 4
  Req <- TwoReqs
  Threads = 1
  MaxCalls = 1
  HeadOf <- TwoHeads
  Env <- FewEnvs
  MaxRuns = 2
  MaxEdits = 1
  MaxOwnRows = 2
INVARIANTS TypeOK NoPoison DiscardsExplained CleanShutdown HeartbeatExplained MetricsTrue ReadinessExplained StartedFit DoneMeansCurrent SchemaWhole DataKept
PROPERTIES ReadinessRecovers
