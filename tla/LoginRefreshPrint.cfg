CONSTANTS
    Second = 4
    MaxUint32 = 3
    MaxInt64 = 15
    DefaultSecs = 2
    Settings <- Default
    TokenLives <- Lives
    Early = 1
    Deadline = 2
    MaxCerts = 2
    MaxRuns = 1
SPECIFICATION Spec
INVARIANT PrintsInsteadOfWriting
CHECK_DEADLOCK FALSE
