\* Two agents and a human, a LiveKit room; at most two connected at a time.
SPECIFICATION Spec
CONSTANTS
  a1 = a1
  a2 = a2
  a3 = a3
  h1 = h1
  h2 = h2
  Agents = {a1, a2}
  Humans = {h1}
  Users <- MCUsers
  LiveKit = TRUE
  NoPipe = NoPipe
  NoWorker = NoWorker
  MaxPipes = 3
  MaxRetries = 1
  MaxConnections = 2
  MaxWorkers = 2
SYMMETRY MCSymmetry
CHECK_DEADLOCK FALSE
INVARIANTS
  
  LastOneClearsTables
  RegisteredIsConsumed
