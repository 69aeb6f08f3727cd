SPECIFICATION Spec
CONSTANTS
    Begins <- MCBegins
    Versions <- EditedVersions
    Sudo = TRUE
INVARIANTS
    VerdictJustified
    StateFollowsLooks
    DenyListEnforced
    GrantHasSource
    StandingGrantHonoured
PROPERTIES
    DecidesByTheRule
    Answers
