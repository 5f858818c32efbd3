CONSTANTS
  m1 = m1
  Msgs = {m1}
  Streams <- OneStream
  StreamCapacity = 2
  Traffic <- UrgentTraffic
  Bots <- TwoBots
  HasNtfy = TRUE
  HasEmailReply = TRUE
  Day = 2
  QuietStart = 1
  QuietEnd = 0
  Prefetch = 1
  MaxGen = 2
  MaxReceiveErrors = 0
  MaxLostAcks = 0
SPECIFICATION Spec
INVARIANT P0GoesToEverySink
CHECK_DEADLOCK FALSE
