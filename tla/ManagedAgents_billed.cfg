\* The room empties while the relay handles MeetingEnded.
SPECIFICATION Spec
CONSTANTS
  t1 = t1
  t2 = t2
  Templates = {t1}
  MaxWarms = 1
  MaxEvents = 1
  MaxFailures = 0
CHECK_DEADLOCK FALSE
INVARIANT
  BilledOnce
