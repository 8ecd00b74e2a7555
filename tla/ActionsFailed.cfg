SPECIFICATION Spec
CONSTANTS
  q1 = q1
  c1 = c1
  c2 = c2
  m1 = m1
  m2 = m2
  Operator = Operator
  NoRequest = NoRequest
  Requests <- OneRequest
  Consumers <- OneConsumer
  Moves <- TwoMoves
  MaxAttempts = 2
  MaxGen = 2
INVARIANTS
  FailedMeansUncommitted
CHECK_DEADLOCK FALSE
