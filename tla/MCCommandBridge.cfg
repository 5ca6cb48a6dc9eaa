SPECIFICATION Spec
CONSTANTS
  Capacity = 2
  Strides <- MCStrides
  MaxGeneration = 8
INVARIANTS
  NoTornPlan
PROPERTIES
  AtomicRegister
  AnnouncedPlanArrives
CHECK_DEADLOCK FALSE
