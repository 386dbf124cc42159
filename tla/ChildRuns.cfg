SPECIFICATION ChildSpec
CONSTANTS
    t1 = t1
    t2 = t2
    Session = {t1, t2}
    Parent = {p1}
    Scope = {x1, x2}
    NoScope = NoScope
    NoParent = NoParent
    ChildCap = 2
    TotalCap = 3
    MaxChild = 5
    MaxCrashes = 1
SYMMETRY ThreadSymmetry
INVARIANTS
    CapOvershootBounded
CHECK_DEADLOCK FALSE
