\* The lock lasts as long as its scan; QR and manual scans of one registration.
SPECIFICATION Spec
CONSTANTS
  owner = owner
  gate1 = gate1
  gate2 = gate2
  e1 = e1
  e2 = e2
  r1 = r1
  Requests = {q1, q2}
  Staff = {owner, gate1}
  Events = {e1}
  Registrations = {r1}
  Owner <- OwnedByOwner
  EventOf <- OneEvent
  MaxCalls = 4
  LockMayLapse = FALSE
SYMMETRY Slots
CHECK_DEADLOCK FALSE
PROPERTY NoDoubleAdmission
