CONSTANTS
  N = 3
  STOP_QUEUE_LENGTH = 4
  SIGNAL_WIDTH = 3
  Shift = 6
  UPPER_TIME_LIMIT = 400
  LOWER_TIME_LIMIT = 1
  Flight = 17
  Gap = 400
  Echoes <- SomeEchoes
  Leftovers <- SomeLeftovers
  Unwritten <- SomeCounts
SPECIFICATION Spec
INVARIANTS
  TypeOK
  AnswerTellsFirstAndLast
  NumberIfWideEnough
  SignalIsFound
CHECK_DEADLOCK FALSE
