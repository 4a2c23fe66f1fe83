CONSTANTS
  e0 = e0  e1 = e1  e2 = e2  r1 = r1  r2 = r2  r3 = r3  q1 = q1  q2 = q2
  ok1 = ok1  bad = bad
  Executors = {e1, e2}
  Runs = {r1, r2}
  NumSteps = 1
  Values = {ok1}
  Failures = {}
  MaxRecoveries = 1
  MaxLost = 0
  Env <- Duplicates
  NoValue = NoValue  NoRun = NoRun  NoExecutor = NoExecutor
CHECK_DEADLOCK FALSE
SPECIFICATION Spec
INVARIANT RestartResumes
