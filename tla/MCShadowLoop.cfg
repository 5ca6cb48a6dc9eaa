SPECIFICATION Spec
CONSTANTS
  Inputs = {0, 1}
  Lead = 2
  Publish = 4
  Horizon = 5
  Interval = 1
  GameEnd = 6
INVARIANTS
  CertifiedUntilRejection
  QueueIsKnown
  JournalComplete
PROPERTIES
  ControllerEnds
CHECK_DEADLOCK FALSE
