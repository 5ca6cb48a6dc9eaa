SPECIFICATION Spec
CONSTANTS
    Manifests <- MCManifests
    Corpora <- MCCorpora
    CaseSets <- MCCaseSets
    Jobs = 2
    Cap = 4
    Rounds = 2
    Rollbacks = 2
    Directions = 1
    Segment = 1
    Budget = 8
    MaxEpisodes = 2
    Worlds <- MCWorlds
    Moves = {0, 1}
    GivenPrefixes <- MCPrefixes
    Horizon = 2
    Commits = 1
    Every = 1
    Keep = 2
    Attempts = 1
    FrameLimit = 6
    HolderSlots = 4
    Archives <- MCArchives
    Beams <- MCBeams
    Logs <- MCLogs
    Widths = {1, 2, 3}
    Generations = {0, 1}
    Scenes <- MCScenes
    Compass = {0, 1}
    FirstOptions <- MCFirstOptions
    TapeOptions <- MCTapeOptions
    Probes <- MCProbes
    TraceRows = 2
    MaxRuns = 2
INVARIANTS
    HonestSuite
    HonestRepair
    HonestPlan
    FairSelection
    HonestTape
PROPERTIES
    SuiteEnds
CHECK_DEADLOCK FALSE
