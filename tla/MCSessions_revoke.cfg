\* Password changes racing logins and refreshes; Redis works.
SPECIFICATION Spec
CONSTANTS
  c1 = c1
  c2 = c2
  c3 = c3
  c4 = c4
  Calls = {c1, c2, c3, c4}
  MaxTime = 2
  RedisMayFail = FALSE
SYMMETRY AnyOrder
CHECK_DEADLOCK FALSE
PROPERTY NoSessionOutlivesPassword
