SPECIFICATION FairSpec
CONSTANTS
  Messages = {"login", "hardware", "bad", "unknown"}
  MaxInput = 2
  MaxRuns = 1
INVARIANTS
  TypeOK
  OwnLogin
  EarlyCommandsFew
  DepthBounded
PROPERTIES
  LossNoticed
  LinkComesUp
