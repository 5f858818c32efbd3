CONSTANTS
  RunPeriod <- Hourly
  Lookback <- SixHours
  HeartbeatMaxAge <- TwoHours
  DedupWindow <- OneHour
  MaxFaults = 3
SPECIFICATION FairSpec
INVARIANTS TypeOK HeardInTime
PROPERTIES ToldWhileSilent OnceAnHour
