\* One worker, segments in any order, one crash or lost connection.
SPECIFICATION FairSpec
CONSTANTS
  w1 = w1
  w2 = w2
  Workers = {w1}
  WindowSize = 3
  Overlap = 2
  Facts = {2}
  BatchSize = 1
  MaxSegments = 4
  MaxTime = 6
  MaxLength = 2
  MaxCrashes = 1
CHECK_DEADLOCK FALSE
INVARIANTS
  NothingPrunedUnseen
  CloseSegmentsShareAWindow
  PublishedOnce
