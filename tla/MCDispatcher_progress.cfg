CONSTANTS
  m1 = m1
  m2 = m2
  Msgs = {m1,m2}
  Streams <- TwoStreams
  StreamCapacity = 1
  Traffic <- StreamTraffic
  Bots <- NoBots
  HasNtfy = TRUE
  HasEmailReply = FALSE
  Day = 1
  QuietStart = 0
  QuietEnd = 0
  Prefetch = 1
  MaxGen = 2
  MaxReceiveErrors = 1
  MaxLostAcks = 0
SPECIFICATION FairSpec
PROPERTY EventuallySettled
CHECK_DEADLOCK FALSE
