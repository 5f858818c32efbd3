CONSTANTS
  m1 = m1
  Msgs = {m1}
  Streams <- OneStream
  StreamCapacity = 2
  Traffic <- MixedTraffic
  Bots <- TwoBots
  HasNtfy = TRUE
  HasEmailReply = TRUE
  Day = 3
  QuietStart = 2
  QuietEnd = 1
  Prefetch = 1
  MaxGen = 2
  MaxReceiveErrors = 1
  MaxLostAcks = 1
SPECIFICATION Spec
INVARIANTS TypeOK StaysInItsThread AuditedWasDelivered SentOnlyAsPlanned
PROPERTY QuietHoursKept
CHECK_DEADLOCK FALSE
