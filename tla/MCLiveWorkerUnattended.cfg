SPECIFICATION Unattended
CONSTANTS
  Capacity = 1
  Frames = 3
  Period = 2
  Tolerance = 1
  Seconds = 7
PROPERTIES
  NeverWaits
CHECK_DEADLOCK FALSE
