SPECIFICATION Spec
CONSTANTS
  Producers = {p1, p2}
  N = 3
  MaxFrames = 4
  Disciplines = {"unshared", "unref first", "release first"}
INVARIANTS TypeOK OneFiller PendingAccounting NoLostWakeup
PROPERTIES PendingServed ImplementsFrameBag
