SPECIFICATION FairSpec
CONSTANTS
  q1 = q1
  c1 = c1
  c2 = c2
  m1 = m1
  m2 = m2
  Operator = Operator
  NoRequest = NoRequest
  Requests <- OneRequest
  Consumers <- TwoConsumers
  Moves <- TwoMoves
  MaxAttempts = 2
  MaxGen = 3
INVARIANTS
  TypeOK
PROPERTIES
  ImplementsBook
  RequestsEnd
CHECK_DEADLOCK FALSE
