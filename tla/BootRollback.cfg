SPECIFICATION Spec
CONSTANTS
  BootLimit = 3
  PackageSlots = {"="}
  MaxInstalls = 1
  MaxPowerLosses = 0
  RecoveryMayFail = FALSE
INVARIANTS RecoveryIsLast
