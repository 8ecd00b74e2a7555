SPECIFICATION FairSpec
CONSTANTS
  r1 = r1
  r2 = r2
  bad = bad
  Releases <- TwoReleases
  Broken <- None
  First = r1
  MaxGen = 2
  Production = TRUE
PROPERTIES
  ReportsArrive
CHECK_DEADLOCK FALSE
