\* Two requests at a time at the owner's gate, four in all; the lock lasts as long as its scan; liveness.
SPECIFICATION FairSpec
CONSTANTS
  owner = owner
  gate1 = gate1
  gate2 = gate2
  e1 = e1
  e2 = e2
  r1 = r1
  Requests = {q1, q2}
  Staff = {owner}
  Events = {e1}
  Registrations = {r1}
  Owner <- OwnedByOwner
  EventOf <- OneEvent
  MaxCalls = 4
  LockMayLapse = FALSE
CHECK_DEADLOCK FALSE
INVARIANTS
  ScanCountExact
PROPERTIES
  SameTokenAdmitsOnce
  LockIsFreed
