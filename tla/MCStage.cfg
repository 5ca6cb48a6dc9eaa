SPECIFICATION Spec
CONSTANTS
    Words = 3
    Bits = 2
    MaxNesting = 2
    PoolSize = 3
    EndTime = 2
    MaxDraws = 6
    Counts <- MCCounts
    Timelines <- MCTimelines
    Subs <- MCSubs
    ActorCount = 2
    EventCount = 2
    PoolRoom = 2
    MaxCalls = 1
    Limits = {3, 9}
    MaxTime = 3
    Wide = 4
    High = 4
    Half = 1
    Boost = 2
    MaxOutside = 3
    Keep = 99
    Lookahead = 7
    MaxAge = 7
    Births <- MCBirths
    LaserBirths <- MCLasers
    Thin = 2
    Ramp = 2
    FarAway = 40
    FieldX = 8
    FieldY = 8
    Axis = 2
    Diagonal = 1
    HalfX = 1
    HalfY = 1
    BulletHorizon = 4
    LaserHorizon = 4
    Margin = 0
    Family = 2
    Situations <- MCSituations
INVARIANTS
    SlotsConsistent
    WorldIsItsLog
    HonestProjection
    CoveredLaser
    SoundChoice
PROPERTIES
    WholeCallOrNothing
CHECK_DEADLOCK FALSE
