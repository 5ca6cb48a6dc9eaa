SPECIFICATION Spec
CONSTANTS
  Capacity = 1
  Frames = 3
  Period = 2
  Tolerance = 1
  Seconds = 7
INVARIANTS
  NothingUnaccounted
  UsedReplyIsCaughtUp
  NoLostWakeup
  FailureNeverMasked
PROPERTIES
  ConsecutiveHistory
  Terminates
CHECK_DEADLOCK FALSE
