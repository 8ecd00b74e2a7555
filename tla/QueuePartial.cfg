SPECIFICATION Spec
CONSTANTS
  j1 = j1
  a1 = a1
  a2 = a2
  NoJob = NoJob
  NoAgent = NoAgent
  Jobs <- OneJob
  Agents <- OneAgent
  MaxRetries = 1
  LeaseTicks = 1
  BackoffTicks = 1
PROPERTIES
  PartialConsumesBudget
