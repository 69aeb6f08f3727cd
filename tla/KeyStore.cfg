CONSTANTS
    a = a
    b = b
    x = x
    y = y
    u1 = u1
    u2 = u2
    N = 2
    Logins <- TwoLogins
    Logouts <- TwoLogouts
    UserKeys <- OneUserKey
    MaxWrites = 3
    MaxCrashes = 2
SPECIFICATION Spec
SYMMETRY Alike
INVARIANTS
    LoginLeavesPair
    BrokenByAccident
    FailsOnlyWhenFull
    LogoutRemovesPairs
    LogoutSparesUserKeys
    LoginSparesUserKeys
PROPERTY CertGoesLast
CHECK_DEADLOCK FALSE
