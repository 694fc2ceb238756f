SPECIFICATION Spec
CONSTANTS
    User = {u1}
    Password = {p1, p2}
    Token = {k1}
    Task = {t1, t2}
    None = None
    TokenTTL = 1
    MaxTime = 1
SYMMETRY Symmetry
PROPERTY SetPasswordStands
CHECK_DEADLOCK FALSE
