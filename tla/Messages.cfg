CONSTANTS
  e1 = e1  r1 = r1  r2 = r2  m1 = m1  m2 = m2  m3 = m3
  Executors = {e1}
  Runs = {r1, r2}
  NumRecvs = 2
  Msgs = {m1, m2}
  After <- TwoSenders
  MaxAttempts = 2  MaxTime = 2
  Env <- EnvEvents
  NoMsg = NoMsg  NoCond = NoCond  NoExecutor = NoExecutor
  NotYet = NotYet  TimedOut = TimedOut
CHECK_DEADLOCK FALSE
SPECIFICATION AllSpec
INVARIANTS ExactlyOnce SenderOrder ReplayAgrees NoLostWakeup
PROPERTIES Delivered
