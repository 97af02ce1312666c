SPECIFICATION Spec
CONSTANTS
  HeaderLen = 3
  ArchiveLen = 4
  ShellMayFail = FALSE
INVARIANTS PayloadArrives
CHECK_DEADLOCK FALSE
