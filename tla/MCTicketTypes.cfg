SPECIFICATION TypesSpec
CONSTANTS
  gala = gala
  fete = fete
  fair = fair
  ann = ann
  bob = bob
  s1 = s1
  s2 = s2
  t1 = t1
  t2 = t2
  t3 = t3
  Events = {gala, fete, fair}
  Slugs = {s1, s2}
  Users = {ann, bob}
  Calls = {c1, c2, c3}
  Requests <- Asked
  Catalogues <- OldEvents
  Drafts <- NewDrafts
  SlugTries = 2
  CreateTries = 2
  FirstTypes <- OldTypes
SYMMETRY SameCalls
INVARIANTS PublicationsAlternate OrderFollowsCreation LateRegistrationsOverlap
PROPERTY EndingsAreFinal
CHECK_DEADLOCK FALSE
