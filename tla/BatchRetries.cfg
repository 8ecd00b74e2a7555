SPECIFICATION FairSpec
CONSTANTS
  p1 = p1
  x1 = x1
  x2 = x2
  f1 = f1
  f2 = f2
  NoSlot <- None
  Slots <- TwoSlots
  Daily <- OneSlot
  Providers <- OneProvider
  Planners <- TwoPlanners
  Finalizers <- TwoFinalizers
  MaxTries = 2
INVARIANTS
  SurveyHolds
  DecisionHolds
PROPERTIES
  EvidenceFrozen
  BatchSettles
