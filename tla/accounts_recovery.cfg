SPECIFICATION Spec
CONSTANTS
    User = {u1}
    Password = {p1, p2}
    Token = {k1, k2, k3}
    Task = {t1, t2, t3}
    None = None
    TokenTTL = 1
    MaxTime = 1
SYMMETRY Symmetry
INVARIANTS OneTokenPerAccount UsedSetsPassword
PROPERTIES OnlyLatestToken DisabledKeepsPassword KeepsContract
CHECK_DEADLOCK FALSE
