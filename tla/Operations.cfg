CONSTANTS
  r1 = r1  r2 = r2  g1 = g1  g2 = g2  w1 = w1  w2 = w2  x1 = x1
  a = a  b = b
  Writes = {w1, w2}  InStep = {w2}  Close = Close  Runs = {r1, r2}  Readers = {x1}
  MaxRows = 3
  MaxAttempts = 3  Values = {a, b}
  NumSets = 2  SetsInStep = {2}  Getters = {g1, g2}  InWorkflow = {g1}
  NoGetter = NoGetter  Unwritten = Unwritten  Failed = Failed  Exceeded = Exceeded
  NoResult = NoResult
CHECK_DEADLOCK FALSE
SPECIFICATION SuiteSpec
INVARIANTS ResultStands GettersAgree WrittenOnce CloseIsLast
PROPERTIES EventForward EventDelivered ReadersEnd
