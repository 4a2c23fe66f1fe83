CONSTANTS
  e0 = e0  e1 = e1  e2 = e2  r1 = r1  r2 = r2  r3 = r3  q1 = q1  q2 = q2
  ok1 = ok1  bad = bad
  Executors = {e0}
  Runs = {r1, r2}
  NumSteps = 2
  Values = {ok1, bad}
  Failures = {bad}
  MaxRecoveries = 1
  MaxLost = 1
  Env <- Indirect
  NoValue = NoValue  NoRun = NoRun  NoExecutor = NoExecutor
CHECK_DEADLOCK FALSE
SPECIFICATION AllSpec
SYMMETRY Symmetric
INVARIANTS TypeOK ActiveSetExact RecoveryBudget OneExecution RunsFollowLog ResultsAgree NoOrphanConducted
PROPERTIES CompletedFinal ImplementsExactlyOnce SharedKept
