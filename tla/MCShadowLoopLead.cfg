SPECIFICATION Spec
CONSTANTS
  Inputs = {0, 1}
  Lead = 2
  Publish = 5
  Horizon = 5
  Interval = 1
  GameEnd = 7
PROPERTIES
  RejectsInconsistentLead
CHECK_DEADLOCK FALSE
