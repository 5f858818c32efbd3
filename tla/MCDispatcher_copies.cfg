CONSTANTS
  m1 = m1
  m2 = m2
  Msgs = {m1,m2}
  Streams <- OneStream
  StreamCapacity = 1
  Traffic <- QuietTraffic
  Bots <- NoBots
  HasNtfy = TRUE
  HasEmailReply = FALSE
  Day = 1
  QuietStart = 0
  QuietEnd = 0
  Prefetch = 2
  MaxGen = 2
  MaxReceiveErrors = 1
  MaxLostAcks = 1
SPECIFICATION Spec
INVARIANTS AckedAfterRouting OnceUnlessRedelivered
PROPERTY PromiseSafety
CHECK_DEADLOCK FALSE
