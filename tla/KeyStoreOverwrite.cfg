CONSTANTS
    a = a
    b = b
    x = x
    y = y
    u1 = u1
    u2 = u2
    N = 2
    Logins <- TwoLogins
    Logouts <- TwoLogouts
    UserKeys <- OneUserKey
    MaxWrites = 2
    MaxCrashes = 1
SPECIFICATION Spec
SYMMETRY Alike
INVARIANT OverwritesOnlyItsOwn
CHECK_DEADLOCK FALSE
