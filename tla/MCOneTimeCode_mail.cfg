\* Three calls, two tokens and two codes for one address.
SPECIFICATION Spec
CONSTANTS
  c1 = c1
  c2 = c2
  c3 = c3
  t1 = t1
  t2 = t2
  n1 = n1
  n2 = n2
  Calls = {c1, c2, c3}
  Tokens = {t1, t2}
  Codes = {n1, n2}
SYMMETRY AnyOrder
CHECK_DEADLOCK FALSE
INVARIANTS
  TypeOK
  AnsweredIsSpent
  StateIsSingleUse
PROPERTY ImplementsVoucher
