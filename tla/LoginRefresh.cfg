CONSTANTS
    Second = 4
    MaxUint32 = 3
    MaxInt64 = 15
    DefaultSecs = 2
    Settings <- MCSettings
    TokenLives <- Lives
    Early = 1
    Deadline = 2
    MaxCerts = 3
    MaxRuns = 2
SPECIFICATION Spec
INVARIANTS
    LifetimeAsAsked
    AgentTracksDisk
    LeftoversCounted
    RefreshedInTime
PROPERTY LeftoversExpire
CHECK_DEADLOCK FALSE
