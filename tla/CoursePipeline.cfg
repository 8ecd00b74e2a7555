SPECIFICATION PipelineSpec
CONSTANTS
  p1 = p1
  p2 = p2
  x1 = x1
  f1 = f1
  t1 = t1
  NoSlot <- None
  Slots <- TwoSlots
  Daily <- OneSlot
  Providers <- TwoProviders
  Planners <- OnePlanner
  Finalizers <- OneFinalizer
  Timers <- OneTimer
  Activations <- NoActivation
  MaxTries = 1
SYMMETRY Interchangeable
INVARIANTS
  TypeOK
  CollectedComplete
  ApprovedAsReviewed
  PrimaryProvenance
PROPERTIES
  ImplementsPromotion
