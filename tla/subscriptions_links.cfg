SPECIFICATION Spec
CONSTANTS
  User = {u1, u2}
  SubId = {s1, s2}
  ExtSub = {e1, e2}
  PayId = {p1}
  Task = {t1, t2}
  None = None
  Period = 1
  MaxTime = 1
SYMMETRY Symmetry
CHECK_DEADLOCK FALSE
INVARIANTS OneOpenReservation LinkedToItsSigner
PROPERTY LinkIsFinal
