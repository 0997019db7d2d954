SPECIFICATION Spec
CONSTANTS
  RateCount = 2
  Clusters <- MCClusters
  Temps <- MCTemps
  RateLists <- MCRateLists
INVARIANTS
  TypeOK
  DecidesHysteresisLevel
  DecisionSettles
  WorseReportNotLower
PROPERTIES
  LevelMovesJustified
