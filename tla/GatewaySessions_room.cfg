\* Two agents, which may stay for ever, in a meeting with a LiveKit room.
SPECIFICATION FairSpec
CONSTANTS
  a1 = a1
  a2 = a2
  a3 = a3
  h1 = h1
  h2 = h2
  Agents = {a1, a2}
  Humans = {}
  Users <- MCUsers
  LiveKit = TRUE
  NoPipe = NoPipe
  NoWorker = NoWorker
  MaxPipes = 2
  MaxRetries = 2
  MaxConnections = 2
  MaxWorkers = 2
CHECK_DEADLOCK FALSE
INVARIANTS
  WorkerHasMembers

  
