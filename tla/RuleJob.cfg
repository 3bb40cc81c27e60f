SPECIFICATION FairSpec
CONSTANTS
  k1 = k1
  k2 = k2
  Keywords = {k1, k2}
  Rank <- TwoRanks
  Rules <- ThreeRules
  Retries = 2
  MaxRows = 2
INVARIANTS TypeOK RetriesBoundEffect
PROPERTIES DeleteHitsSeen KeywordDetected ChainEnds
