SPECIFICATION Spec
CONSTANTS
    p1 = p1
    p2 = p2
    NoProc = NoProc
    Procs <- ProcSet
    NumKeys = 3
    Capacity = 2
    Updates <- UpdateSet
    MaxVersion = 3
SYMMETRY ProcSymmetry
INVARIANTS
    TypeOK
    CacheShowsItsVersion
    CacheHoldsTheNewest
    ShowsOneVersion
    SelectionIsCurrent
