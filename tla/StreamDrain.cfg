SPECIFICATION Spec
CONSTANTS
  Hardware <- MCHardware
  Configs <- MCConfigs
  N = 2
  MaxStarts = 1
  XrunLimit = 1
  Codecs = {FALSE}
  SpawnMayFail = FALSE
INVARIANTS DrainedWhenStopped
CHECK_DEADLOCK FALSE
