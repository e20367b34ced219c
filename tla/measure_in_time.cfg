CONSTANTS
  START_QUEUE_LENGTH = 1
  STOP_QUEUE_LENGTH = 3
  N = 3
  MaxEchoes = 4
  LateEdges = FALSE
  Paths <- TwoPaths
  Created <- BothCreated
SPECIFICATION Spec
INVARIANTS
  TypeOK
  StaleOnlyInFirstRow
  OwnEdgesOnly
