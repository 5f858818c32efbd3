CONSTANTS
  r1 = r1
  r2 = r2
  r3 = r3
  Requests = {r1,r2,r3}
  Traffic <- RepeatedTraffic
  Keys <- TwoKeys
  Sources <- OneSource
  Window = 3
  Minute = 2
  NormalPerMin = 1
  P0PerMin = 2
  LockDelay = 1
  Faults <- NoFaults
  MaxClock = 4
  MaxCrashes = 1
SPECIFICATION Spec
SYMMETRY Symmetry
INVARIANTS TypeOK PassesApart SilentOnlyWhileRepeated WithinRate RefusedOnlyWhenBusy
CHECK_DEADLOCK FALSE
