CONSTANTS
  r1 = r1
  r2 = r2
  Requests = {r1,r2}
  Traffic <- EveryEndpoint
  Keys <- TwoKeys
  Sources <- AllSources
  Window = 2
  Minute = 1
  NormalPerMin = 1
  P0PerMin = 1
  LockDelay = 0
  Faults <- FaultKinds
  MaxClock = 2
  MaxCrashes = 1
SPECIFICATION Spec
SYMMETRY Symmetry
INVARIANTS AnswersAreTrue RefusedForItsOwnKind
CHECK_DEADLOCK FALSE
