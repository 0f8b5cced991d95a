\* Each participant acts through one session and never lowers a stale hand;
\* speakers may never finish: only the monitor is sure to move the queue.
SPECIFICATION FairSpec
CONSTANTS
  p1 = p1
  p2 = p2
  p3 = p3
  c1 = c1
  c2 = c2
  c3 = c3
  m1 = m1
  NoOne = NoOne
  Participants <- MCTwo
  Clients = {c1, c2}
  PerRequest = {}
  Monitors = {m1}
  Serves <- MCOneEach
  StaleIds = FALSE
  Overrides = FALSE
  MaxRaises = 3
CHECK_DEADLOCK FALSE
INVARIANTS
  QueuedIsHand

  
