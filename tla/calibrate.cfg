CONSTANTS
  T = 100
  Start <- NotYetMeasured
  Zeros <- WrongZeros
  Readings <- AllReadings
  Updates <- FreshOf
SPECIFICATION FairSpec
INVARIANTS
  TypeOK
  SlipsRepaired
PROPERTIES
  LearnsZeroWind
  CalibrationEnds
  NothingLeftToCorrect
  LearnsNearFresh
  EndsNearZeroWind
