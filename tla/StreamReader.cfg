CONSTANTS
  Writes = {w1}  InStep = {}  Close = Close  Runs = {r1}  Readers = {x1}  MaxRows = 3
CHECK_DEADLOCK FALSE
SPECIFICATION Spec
PROPERTIES ReaderComplete
