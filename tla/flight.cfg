CONSTANTS
  N = 3
  Quota = 2
  STOP_QUEUE_LENGTH = 11
  Period = 500
  Shift = 4460
  UPPER_TIME_LIMIT = 200000
  LOWER_TIME_LIMIT = 200
  CounterSize <- Size
  Starts <- SomeStarts
  Gap <- PulseGap
  FirstEcho = 13000
  Echoes <- SomeEchoes
  Jitter <- SomeJitter
  Prefixes <- SomePrefixes
SPECIFICATION Spec
INVARIANTS
  TypeOK
  AgreedEchoIsFound
  WrapIsRefused
  OutsideOnlyIfFarTooEarly
  TenPeriodsEarlyAtMost
  SpuriousStopCountsOnce
CHECK_DEADLOCK FALSE
