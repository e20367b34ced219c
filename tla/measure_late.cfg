CONSTANTS
  START_QUEUE_LENGTH = 1
  STOP_QUEUE_LENGTH = 2
  N = 2
  MaxEchoes = 2
  LateEdges = TRUE
  Paths <- TwoPaths
  Created <- AnyCreated
SPECIFICATION FairSpec
PROPERTIES
  KeepsPromise
  EveryCallReturns
