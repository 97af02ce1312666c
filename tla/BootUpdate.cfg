SPECIFICATION Spec
CONSTANTS
  BootLimit = 3
  PackageSlots = {"=", "a", "b", "c"}
  MaxInstalls = 2
  MaxPowerLosses = 1
  RecoveryMayFail = TRUE
INVARIANTS TypeOK SomeSlotBoots AttemptsBounded
PROPERTIES GivenUpLate ComesUp
