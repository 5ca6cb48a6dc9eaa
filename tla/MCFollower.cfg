SPECIFICATION Spec
CONSTANTS
  Tape = 3
  Frames = 2
  Pieces = 2
  Buffer = 3
  Moments <- MCMoments
INVARIANTS
  LockStep
  HonestReport
PROPERTIES
  Terminates
