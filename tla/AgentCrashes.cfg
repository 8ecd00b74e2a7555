SPECIFICATION FairSpec
CONSTANTS
  r1 = r1
  r2 = r2
  bad = bad
  Releases <- ThreeReleases
  Broken <- BadOnly
  First = r1
  MaxGen = 2
  Production = FALSE
INVARIANTS
  TypeOK
  Recoverable
  RunsInstalled
  FailureReported
PROPERTIES
  NeverRetried
  ImplementsHost
  JournalSettles
CHECK_DEADLOCK FALSE
