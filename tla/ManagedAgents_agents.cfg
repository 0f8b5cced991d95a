\* One template that is warmed twice at most, events of the gateway when no other is unread, one failure.
SPECIFICATION FairSpec
CONSTANTS
  t1 = t1
  t2 = t2
  Templates = {t1}
  MaxWarms = 2
  MaxEvents = 1
  MaxFailures = 1
CHECK_DEADLOCK FALSE

  
PROPERTIES
  RoomDrivesAgents
  LifecycleReachesAgents
