\* Two calls at a time, two connections, twelve scenes.
SPECIFICATION ServerSpec
CONSTANTS
    Conns = {k1, k2}
    Meeting = m1
    Meetings = {m1, m2}
    Gateways = {g1, g2}
    Channels = {ch1, ch2}
    Batch = 2
    None = None
    MaxRequests = 1
    Window = 3
    Delay = 1
    MaxTime = 5
    Calls = {c1, c2}
    Scenes <- MCScenes
    Granted = {"meetings:join", "meetings:read", "meetings:chat", "turns:manage", "tasks:write"}
    MaxOutbox = 2
    MaxStream = 3
\* The agent need not call a tool.
CHECK_DEADLOCK FALSE
INVARIANTS
  HeardInOrder
  OneConnection
  RateIsBounded
PROPERTIES
  CallsEnd
