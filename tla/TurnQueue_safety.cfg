\* Two callers act for both participants, one of them over REST.
SPECIFICATION Spec
CONSTANTS
  p1 = p1
  p2 = p2
  p3 = p3
  c1 = c1
  c2 = c2
  c3 = c3
  m1 = m1
  NoOne = NoOne
  Participants <- MCTwo
  Clients = {c1, c2}
  PerRequest = {c2}
  Monitors = {m1}
  Serves <- MCShared
  StaleIds = TRUE
  Overrides = TRUE
  MaxRaises = 3
SYMMETRY MCSymmetry
CHECK_DEADLOCK FALSE
INVARIANTS
  NobodyWaitsForAnIdleFloor
  NobodyIsLockedOut
PROPERTIES
  ServedInOrder
  ImplementsTurnTaking
