SPECIFICATION Spec
CONSTANTS
    Found <- MCFound
    Texts <- MCTexts
    Starts <- MCStarts
    MaxTouches = 2
    MaxFailures = 1
INVARIANTS
    FixRepairs
    DoesWhatItPlanned
    AuditFindsDeadLines
    CleanServerWorks
PROPERTIES
    FixKeepsAccess
    FixKeepsLines
CHECK_DEADLOCK FALSE
