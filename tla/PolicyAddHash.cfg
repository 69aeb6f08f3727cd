SPECIFICATION Spec
CONSTANTS
    p1 = p1
    p2 = p2
    Procs = {p1}
    Args <- HashArgs
    SystemFiles <- SmallSystem
    HomeFiles <- MCHome
    Names <- MCNames
    Users <- MCUsers
    MaxCrashes = 0
INVARIANT AddedIsGranted
