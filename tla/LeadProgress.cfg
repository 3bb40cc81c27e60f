SPECIFICATION FairSpec
CONSTANTS
  b1 = b1
  b2 = b2
  k1 = k1
  k2 = k2
  Buyers = {b1, b2}
  Keys = {k1, k2}
  Key <- TwoKeys
  Rank <- TwoRank
  Compatible = {}
  MaxPerScan = 1
  MaxCount = 1
  Faults = {"page", "load"}
INVARIANT SkippedIsSaved
PROPERTY BestRowSaved
