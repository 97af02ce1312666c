SPECIFICATION Spec
CONSTANTS
  Hardware <- MCHardware
  Configs <- MCConfigs
  N = 2
  MaxStarts = 2
  XrunLimit = 1
  Codecs = {TRUE, FALSE}
  SpawnMayFail = TRUE
INVARIANTS TypeOK SlotsAccounted ResourcesHeld DevicesUsable
PROPERTIES StopTerminates AudioFlows
CHECK_DEADLOCK FALSE
