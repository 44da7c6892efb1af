SPECIFICATION Spec
CONSTANTS
  owner = owner
  ann = ann
  bob = bob
  party = party
  Addresses = {owner, ann, bob}
  Events = {party}
  OwnerOf <- Owners
  Calls = {c1, c2, c3}
  Requests <- Asked
  Installations <- Databases
SYMMETRY SameCalls
INVARIANTS AdminsHaveRoot AssignedAreStaff LockoutNeedsOverlap
PROPERTY DeactivationSticks
CHECK_DEADLOCK FALSE
