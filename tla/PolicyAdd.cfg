SPECIFICATION Spec
CONSTANTS
    p1 = p1
    p2 = p2
    Procs = {p1, p2}
    Args <- MCArgs
    SystemFiles <- MCSystem
    HomeFiles <- MCHome
    Names <- MCNames
    Users <- MCUsers
    MaxCrashes = 1
SYMMETRY Symmetric
INVARIANTS
    CompleteAdd
    NoInventedGrant
    UnreadableIsEmpty
