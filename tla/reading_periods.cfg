SPECIFICATION Spec
CONSTANTS
  User = {u1, u2}
  Token = {k1, k2}
  Task = {t1, t2}
  None = None
  FreePeriod = 1
  ChallengeTTL = 2
  MaxTime = 2
SYMMETRY Symmetry
CHECK_DEADLOCK FALSE
INVARIANTS IInv PeriodsDisjoint OnePeriodPerChallenge ConsumedGivesPeriod ToldIsGranted OpenedInPeriod
PROPERTIES OnlyLatestChallenge KeepsPromise
