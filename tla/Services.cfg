CONSTANTS
  a = a  b = b  m1 = m1
  c1 = c1  c2 = c2  c3 = c3  p1 = p1  p2 = p2
  Ids = {a, b}  Deduped = {a, b}  Managers = {m1}  Threshold = 1  MaxTime = 1
  Processes = {p1, p2}  LastTime = 2  MaxVersions = 2
  Calls = {c1, c2, c3}  MaxSends = 2  NumMessages = 3
  NoTime = NoTime  NoCall = NoCall  NoOption = NoOption
  Crons <- Crontabs  Starts <- OnTheEve  LastYear = 2024
  CopiedProgram <- EventsAndStream
  Program <- Operations  NoID <- NoTuple  Generated <- Uuid
CHECK_DEADLOCK FALSE
SPECIFICATION SuiteSpec
SYMMETRY Symmetric
INVARIANTS DedupHeldByActive OutputsKept ChildrenKept CopiesWhole CallServed TimesExact NextIsFirst KafkaInOrder
