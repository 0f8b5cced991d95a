\* Two feeds, two events, one failure.
SPECIFICATION FairSpec
CONSTANTS
  f1 = f1
  f2 = f2
  Feeds = {f1, f2}
  Manual = TRUE
  MaxAttempts = 2
  BatchSize = 2
  MaxEvents = 2
  MaxFailures = 1
CHECK_DEADLOCK FALSE
PROPERTIES
  
  EveryFeedIsServed
