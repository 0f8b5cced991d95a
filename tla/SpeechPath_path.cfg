\* Two sources, two sessions that leave.
SPECIFICATION FairSpec
CONSTANTS
  s1 = s1
  s2 = s2
  Sources = {s1, s2}
  Closers = 2
  MaxChunks = 4
CHECK_DEADLOCK FALSE
INVARIANTS
  OnceInOrder
PROPERTIES
  NothingAfterTheEnd
  
