\* Two registrations and an import of three rows compete for one VIP ticket and one seat.
SPECIFICATION Spec
CONSTANTS
  ann = ann
  bob = bob
  p1 = p1
  p2 = p2
  vip = vip
  i1 = i1
  NoType = NoType
  NoLimit = NoLimit
  Emails = {ann, bob}
  TicketTypes = {vip}
  Requests = {p1, p2}
  Imports = {i1}
  Files <- VipFile
  BatchSize = 2
  Retries = 2
  EventCapacities <- OneOrNoLimit
  TypeCapacities <- OneOrNoLimit
  MaxEdits = 1
SYMMETRY SameRequests
CHECK_DEADLOCK FALSE
INVARIANTS
  SoldIsExact
  TypeWithinCapacity
  IssuedHasToken
  ReportCoversFile
PROPERTIES
  FreeNeverOversells
  FreeTypeNeverOversells
  ImplementsBoxOffice
