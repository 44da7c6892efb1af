SPECIFICATION Spec
CONSTANTS
  ann = ann
  bob = bob
  eve = eve
  t1 = t1
  t2 = t2
  t3 = t3
  Calls = {c1, c2, c3}
  Requests <- Asked
  FirstTickets = {t1, t2, t3}
  FirstStamps <- OldStamps
  FirstTyped = {t1, t3}
  Times = {2, 3}
  FirstPasses <- OldPasses
  FirstRows <- OldRows
  Owner = ann
  Staff = {bob}
  Admins = {eve}
  PageSize = 2
  BATCH_SIZE = 2
SYMMETRY SameCalls
INVARIANTS HandedPassesStayGood EmptyHandedOnlyWhenUsed LoneScanShowsTheCount RemovalClosesTheGate ReportsAgree ExportLosesNobody
CHECK_DEADLOCK FALSE
