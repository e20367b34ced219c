CONSTANTS
  WIND_COUNT = 4
  AVERAGE_COUNT = 3
  Order <- TwoPaths
SPECIFICATION Spec
INVARIANTS
  TypeOK
  ReportsLatest
  StaleWindAnnounced
