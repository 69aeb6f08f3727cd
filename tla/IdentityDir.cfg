CONSTANTS
    a = a
    b = b
    c = c
    x = x
    y = y
    s = s
    Logins <- MCLogins
    Logouts <- MCLogouts
    Configurers <- MCConfigurers
    Issuer <- MCIssuer
    Audience <- MCAudience
    Chars <- MCChars
    Safe <- MCSafe
    Cut = 3
    UserFile <- MCUserFile
    Noted <- MCNoted
    MaxCommands = 3
    MaxCrashes = 1
SPECIFICATION Spec
SYMMETRY Alike
INVARIANTS
    LoginIsUsable
    LogoutClears
    DanglingCounted
    PairsAreListed
    UserLinesKept
CHECK_DEADLOCK FALSE
