\* Two requests at a time at one gate, four in all; the scan lock may lapse.
SPECIFICATION Spec
CONSTANTS
  owner = owner
  gate1 = gate1
  gate2 = gate2
  e1 = e1
  e2 = e2
  r1 = r1
  Requests = {q1, q2}
  Staff = {owner, gate1}
  Events = {e1}
  Registrations = {r1}
  Owner <- OwnedByOwner
  EventOf <- OneEvent
  MaxCalls = 4
  LockMayLapse = TRUE
SYMMETRY Slots
CHECK_DEADLOCK FALSE
INVARIANTS
  TypeOK
  OneAdmissionBeforeUndo
  UndosArePaidFor
  RevokedMeansAdmitted
PROPERTY ImplementsAdmission
