CONSTANTS
  e1 = e1  e2 = e2  t1 = t1  t2 = t2  t3 = t3  v1 = v1  v2 = v2
  Executors = {e1, e2}
  Tasks = {t1, t2, t3}
  Rank <- Ranks
  AppVersion <- TwoVersions
  TaskVersion <- Pinned
  Concurrency = NoLimit
  WorkerConcurrency = 1
  Limit = NoLimit
  Period = 1
  MaxBatch = 2
  MaxTime = 0
  Unregistered = {}
  Env <- Upgrade
  NoLimit = NoLimit  NoVersion = NoVersion
  NoExecutor = NoExecutor  NoTime = NoTime
CHECK_DEADLOCK FALSE
SPECIFICATION AllSpec
INVARIANTS LocksSound OneHolder WorkerConcurrencyRespected NoneStranded LimitedRate
