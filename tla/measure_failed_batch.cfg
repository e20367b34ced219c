CONSTANTS
  START_QUEUE_LENGTH = 1
  STOP_QUEUE_LENGTH = 3
  N = 2
  MaxEchoes = 2
  LateEdges = FALSE
  Paths <- TwoPaths
  Created <- BothCreated
SPECIFICATION Spec
INVARIANT FailedBatchDoesNotCount
