SPECIFICATION Spec
CONSTANTS
    p1 = p1
    p2 = p2
    p3 = p3
    lA = lA
    lB = lB
    None = None
    Procs = {p1, p2, p3}
    Labels = {lA, lB}
SYMMETRY MCSymmetry
INVARIANTS
    TypeOK
    ListingIsRegular
    CreatesDoNotInterfere
    DeleteAllIsComplete
    PubsFollowKeys
