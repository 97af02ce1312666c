SPECIFICATION Spec
CONSTANTS
  n1 = n1
  n2 = n2
  s1 = s1
  s2 = s2
  Namespaces = {n1}
  Keys = {k1, k2}
  Values = {v1}
  NoValue = NoValue
  Slots = {"a", "b"}
  Setters = {s1}
  Owner <- MCOwner
  DiskMayFill = TRUE
  MaxSets = 2
  MaxReboots = 2
  Labels = {"l"}
CONSTRAINT Unspoiled
SYMMETRY Symmetry
INVARIANTS TypeOK SettingsKept SettingsSurvive RestoreFaithful
