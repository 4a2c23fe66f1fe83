CONSTANTS
  e1 = e1  r1 = r1  r2 = r2  m1 = m1  m2 = m2  m3 = m3
  Executors = {e1}
  Runs = {r1}
  NumRecvs = 1
  Msgs = {m1}
  After <- TwoSenders
  MaxAttempts = 1  MaxTime = 1
  Env <- Crashes
  NoMsg = NoMsg  NoCond = NoCond  NoExecutor = NoExecutor
  NotYet = NotYet  TimedOut = TimedOut
CHECK_DEADLOCK FALSE
SPECIFICATION AllSpec
INVARIANTS ReplayResumes
