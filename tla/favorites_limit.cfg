SPECIFICATION Spec
CONSTANTS
    User = {u1, u2}
    Book = {b1, b2, b3}
    Task = {t1, t2}
    None = None
    FreeLimit = 1
    PremiumLimit = 2
SYMMETRY Symmetry
INVARIANT WithinBestLimit
PROPERTY FullShelfStays
CHECK_DEADLOCK FALSE
