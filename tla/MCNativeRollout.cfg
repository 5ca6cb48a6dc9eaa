CONSTANTS
  MaximumHorizon = 2
  MaximumTape = 3
  Calls <- MCCalls
  Moments <- MCMoments
SPECIFICATION Spec
INVARIANTS
  HonestResult
PROPERTIES
  BranchesEnd
CHECK_DEADLOCK FALSE
