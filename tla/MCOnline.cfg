SPECIFICATION Spec
CONSTANTS
    Width = 4
    Horizon = 4
    BranchUntil = 2
    Options <- MCOptions
    Forecasts <- MCForecasts
    Preferred = 2
    Start = 3
    Stages = {1, 2}
    Cycle = 4
    Places <- MCPlaces
    Headings = {1, 2}
    Adds = 3
    Window = 2
    Settled = 1
    Reserve = 1
    Ahead = 1
    SampleLimit = 3
    IncomeWindow = 2
    GoalAge = 2
    FullHp = 10
    FullTime = 10
    Shot = 3
    Signs <- MCSigns
    Pacings <- MCPacings
    MaxObserved = 6
    Recording = 5
    Verified = 4
    Refinements = 2
    Goals <- MCGoals
    Worlds <- MCWorlds
    Requests <- MCRequests
    Solves = 1
    Lead = 2
    MaxProposals = 2
    MaxInputs = 2
    Batch = 3
    Continued = 7
INVARIANTS
    HonestDecision
    PacedFire
    HonestRefinement
    TimelyProposals
CHECK_DEADLOCK FALSE
