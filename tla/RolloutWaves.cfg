SPECIFICATION Spec
CONSTANTS
  h1 = h1
  h2 = h2
  r1 = r1
  r2 = r2
  Hosts <- TwoHosts
  Releases <- TwoReleases
  First = r1
  MaxGen = 5
SYMMETRY Interchangeable
INVARIANTS
  TypeOK
  WavesProven
  EndMeansInstalled
PROPERTIES
  WavesFromCanaries
CHECK_DEADLOCK FALSE
