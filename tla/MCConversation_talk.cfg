CONSTANTS
  q1 = q1
  Questions = {q1}
  Asked <- EveryPath
  Agents <- OneAgent
  Prefetch = 1
  Channel = 2
  MaxGen = 2
  MaxDrops = 1
SPECIFICATION Spec
INVARIANTS TypeOK AckedMeansServed RepeatedOnlyIfRedelivered AskedAgainOnlyUnconfirmed LostOnlyByCrash
PROPERTIES EventuallyRead PromiseSafety
CHECK_DEADLOCK FALSE
