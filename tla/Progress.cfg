CONSTANTS
  e1 = e1  e2 = e2  t1 = t1  t2 = t2  t3 = t3  v1 = v1  v2 = v2
  r1 = r1  r2 = r2  ok1 = ok1  ok2 = ok2
  Executors = {e1, e2}
  Tasks = {t1, t2}
  Rank <- Ranks
  AppVersion <- SameVersion
  TaskVersion <- AnyVersion
  Concurrency = 1
  WorkerConcurrency = NoLimit
  Limit = NoLimit
  Period = 1
  MaxBatch = 2
  MaxTime = 0
  Unregistered = {t2}
  Env <- Churn
  Runs = {r1, r2}  Outputs = {ok1, ok2}  Raised = Raised  None = None
  NoLimit = NoLimit  NoVersion = NoVersion  NoExecutor = NoExecutor
  NoTime = NoTime  NoValue = NoValue  NoRun = NoRun
CHECK_DEADLOCK FALSE
SPECIFICATION AllSpec
INVARIANTS ConcurrencyRespected ExactlyOneEffect
PROPERTIES InOrder CrowdedDrains PoisonedOver
