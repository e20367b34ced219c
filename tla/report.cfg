CONSTANTS
  Times <- SomeTimes
  Weights <- SomeWeights
  Earlier <- SomeEarlier
SPECIFICATION Spec
INVARIANTS
  TypeOK
  PlacesInTable
  TurnsWithTheWind
  CorrectionFollowsTable
  SentenceFits
