SPECIFICATION Spec
CONSTANTS
  Lines <- MCLines
  MaxLines = 2
  BufSize = 2
  MaxCount = 1
  CreateMayFail = TRUE
INVARIANTS TypeOK HandledInOrder OneLateWrite
PROPERTIES BlinkersEnd SignalHonoured
CHECK_DEADLOCK FALSE
