CONSTANTS
  r1 = r1
  r2 = r2
  Requests = {r1,r2}
  Traffic <- SingleAlert
  Keys <- OneKey
  Sources <- OneSource
  Window = 2
  Minute = 1
  NormalPerMin = 1
  P0PerMin = 1
  LockDelay = 0
  Faults <- NatsFaults
  MaxClock = 2
  MaxCrashes = 0
SPECIFICATION Spec
SYMMETRY Symmetry
INVARIANT AcceptedWasPublished
CHECK_DEADLOCK FALSE
