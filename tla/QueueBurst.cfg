CONSTANTS
  e1 = e1  e2 = e2  t1 = t1  t2 = t2  t3 = t3  v1 = v1  v2 = v2
  Executors = {e1, e2}
  Tasks = {t1, t2}
  Rank <- Ranks
  AppVersion <- SameVersion
  TaskVersion <- AnyVersion
  Concurrency = NoLimit
  WorkerConcurrency = NoLimit
  Limit = 1
  Period = 2
  MaxBatch = 2
  MaxTime = 2
  Unregistered = {}
  Env <- Calm
  NoLimit = NoLimit  NoVersion = NoVersion
  NoExecutor = NoExecutor  NoTime = NoTime
CHECK_DEADLOCK FALSE
SPECIFICATION Spec
INVARIANTS RateLimit
