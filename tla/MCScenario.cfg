SPECIFICATION Spec
CONSTANTS
    Columns = 4
    Rows = 2
    Requests <- MCRequests
    Definitions <- MCDefinitions
    Seeds = {1, 2, 3}
    Ages = {0, 3}
    Runs <- MCRuns
    Scripts <- MCScripts
    Labels <- MCLabels
    IntMax = 3
    FloatMax = 7
    MaxSprite = 8
    Budgets = {0, 1, 6}
    MaxCalls = 4
INVARIANTS
    HonestRun
PROPERTIES
    HonestAnimation
CHECK_DEADLOCK FALSE
