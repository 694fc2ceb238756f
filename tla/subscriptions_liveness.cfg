SPECIFICATION LiveSpec
CONSTANTS
  User = {u1}
  SubId = {s1}
  ExtSub = {e1}
  PayId = {p1}
  Task = {t1, t2}
  None = None
  Period = 1
  MaxTime = 1
  MaxFaults = 1
PROPERTIES PaymentIsRecorded CancellationIsRegistered
CHECK_DEADLOCK FALSE
