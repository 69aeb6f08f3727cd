SPECIFICATION Spec
CONSTANTS
    Found <- MCFound
    Texts <- MCTexts
    Starts <- MCStarts
    MaxTouches = 0
    MaxFailures = 0
INVARIANTS
    FixedPluginsAsDocumented
CHECK_DEADLOCK FALSE
