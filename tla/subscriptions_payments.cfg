SPECIFICATION Spec
CONSTANTS
  User = {u1}
  SubId = {s1, s2}
  ExtSub = {e1}
  PayId = {p1, p2}
  Task = {t1, t2}
  None = None
  Period = 1
  MaxTime = 2
SYMMETRY Symmetry
CHECK_DEADLOCK FALSE
INVARIANTS IInv RecordedIsGenuine PremiumIsPaid AnsweredIsApplied NotifiedOnce
PROPERTIES CanceledIsFinal PeriodNeverShrinks ImplementsContract
