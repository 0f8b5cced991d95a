\* Two requests at a time of fourteen mixes.
SPECIFICATION Spec
CONSTANTS
    Requests = {r1, r2}
    None = None
    RateLimit = 1
    Threshold = 2
    MaxTokens = 2
    MeetingLimit = 1
    AgentLimit = 1
    MaxCustomers = 2
    MaxChanges = 2
    Mixes <- MCMixes
\* No client has to send a request.
CHECK_DEADLOCK FALSE
INVARIANTS
  BoundedGuesses
  
  PlanMirrorsStripe
  StartIsVisible
  RoomsNeverCollide
  DeletionsSweep
PROPERTIES
  RequestsEnd
