SPECIFICATION FairSpec
CONSTANTS
  p1 = p1
  p2 = p2
  t1 = t1
  a1 = a1
  NoSlot <- None
  Slots <- ThreeSlots
  Providers <- TwoProviders
  Timers <- OneTimer
  Activations <- OneActivation
  MaxTries = 1
INVARIANTS
  TypeOK
  TimerAppliesOnce
PROPERTIES
  ImplementsCourses
  LatestReachesPrimary
CHECK_DEADLOCK FALSE
