CONSTANTS
  Inputs <- MCInputs
  Tapes <- MCTapes
  Edit <- MCEdit
  Trials = 3
  Window = 2
  Interval = 1
  FirstUpdate = 0
  Settle = 1
  Event <- MCEvent
  Score <- MCScore
  Route <- MCRoute
  Phase <- MCPhase
SPECIFICATION Spec
INVARIANTS
  IncumbentCertified
  PlaysItsTape
  NeverWorse
CHECK_DEADLOCK FALSE
