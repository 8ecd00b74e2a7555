SPECIFICATION FairSpec
CONSTANTS
  j1 = j1
  a1 = a1
  a2 = a2
  NoJob = NoJob
  NoAgent = NoAgent
  Jobs <- OneJob
  Agents <- TwoAgents
  MaxRetries = 1
  LeaseTicks = 2
  BackoffTicks = 1
INVARIANTS
  TypeOK
  RetryBudgetExact
  AttemptLineage
  WriteFenced
  RunMirrorsJob
  OneChildPerHost
PROPERTIES
  SealedImmutable
  LiveLeaseNotStolen
  DisabledNotClaiming
  ImplementsLifecycle
  LeaseEnds
  CancelHonoured
