\* Four calls in three seconds, with Redis commands failing.
SPECIFICATION Spec
CONSTANTS
  c1 = c1
  c2 = c2
  c3 = c3
  c4 = c4
  Calls = {c1, c2, c3, c4}
  MaxTime = 2
  RedisMayFail = TRUE
SYMMETRY AnyOrder
CHECK_DEADLOCK FALSE
INVARIANTS
  RefreshesArePaidFor
  SessionsNeverMultiply
PROPERTY ImplementsRefreshLedger
