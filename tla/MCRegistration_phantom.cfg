\* One registration lands between the look-up and the batch of an import.
SPECIFICATION Spec
CONSTANTS
  ann = ann
  bob = bob
  p1 = p1
  p2 = p2
  vip = vip
  i1 = i1
  NoType = NoType
  NoLimit = NoLimit
  Emails = {ann, bob}
  TicketTypes = {vip}
  Requests = {p1, p2}
  Imports = {i1}
  Files <- PlainFile
  BatchSize = 2
  Retries = 2
  EventCapacities <- OneOrNoLimit
  TypeCapacities <- OneOrNoLimit
  MaxEdits = 1
SYMMETRY SameRequests
CHECK_DEADLOCK FALSE
INVARIANT ReportedRowsExist
