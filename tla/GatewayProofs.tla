---------------------------- MODULE GatewayProofs ----------------------------
(***************************************************************************)
(* Proofs about GatewaySessions and the MeetingPipeline in it, for every   *)
(* number of agents, humans, connections, pipelines and retries.           *)
(***************************************************************************)
EXTENDS GatewaySessions, FiniteSetTheorems, TLAPS

(* What a step of the sessions does to the pipeline.                       *)
LEMMA PipelineMoves ==
  ASSUME [Next]_vars
  PROVE  \/ \E u \in Users : Ensure(u) \/ FirstAudio(u) \/ ClosePipeline(u) \/ Return(u)
         \/ \E p \in Pipes : ConsumerNext(p)
         \/ \E w \in Workers : RoomAudio(w)
         \/ UNCHANGED mpvars
<1>1. ASSUME NEW s \in Users, Proceed(s)
      PROVE  Ensure(s) \/ ClosePipeline(s) \/ UNCHANGED mpvars
  BY <1>1 DEF Proceed, RegisterFull, Announce, LeavePipeline, RegisterAgent, EnsureWorker,
              WorkerLinked, WorkerRefused, WorkerStored, AgentOut, WorkerUnlinked,
              AgentDone, RegisterHuman, HumanOut, HumanDone
<1>2. ASSUME NEW s \in Users, NEW d \in BOOLEAN, LeaveBegin(s, d)
      PROVE  UNCHANGED mpvars
  BY <1>2 DEF LeaveBegin
<1>3. ASSUME NEW s \in Users, Connect(s) \/ AgentDisconnects(s) \/ HumanDisconnects(s)
      PROVE  UNCHANGED mpvars
  BY <1>3 DEF Connect, AgentDisconnects, HumanDisconnects
<1>4. Agents \subseteq Users /\ Humans \subseteq Users
  BY GSAssumption
<1> QED
  BY <1>1, <1>2, <1>3, <1>4 DEF Next, Audio, BridgeReturn, JoinBegin, vars

-----------------------------------------------------------------------------
(* Types of the pipeline, with the pipelines that suspended calls hold and *)
(* adapters were built with, and retries that are not used up.             *)
PipeTypes ==
  /\ MPTypeOK
  /\ \A u \in Users : step[u] \in {"starting", "draining", "closing"} => held[u] \in 1..created
  /\ \A p \in Pipes : p \in running \/ p > created => retry[p] < MaxRetries
  /\ feeds \in [Workers -> (1..created) \cup {NoPipe}]

LEMMA GoTypes ==
  ASSUME PipeTypes, NEW u \in Users, NEW s \in UserSteps,
         NEW p \in (1..created) \cup {NoPipe}, Go(u, s, p),
         s \in {"starting", "draining", "closing"} => p \in 1..created
  PROVE  /\ step' \in [Users -> UserSteps]
         /\ held' \in [Users -> Pipes \cup {NoPipe}]
         /\ \A v \in Users : step'[v] \in {"starting", "draining", "closing"}
                               => held'[v] \in 1..created
<1>1. p \in Pipes \cup {NoPipe}
  BY MPAssumption DEF Pipes, PipeTypes, MPTypeOK
<1> QED
  BY <1>1 DEF Go, PipeTypes, MPTypeOK

LEMMA PopTypes ==
  ASSUME PipeTypes, NEW u \in Users, PopPipeline(u)
  PROVE  /\ registered' = NoPipe
         /\ step' \in [Users -> UserSteps]
         /\ held' \in [Users -> Pipes \cup {NoPipe}]
         /\ \A v \in Users : step'[v] \in {"starting", "draining", "closing"}
                               => held'[v] \in 1..created
<1>1. registered \in Pipes \cup {NoPipe}
  BY MPAssumption DEF PipeTypes, MPTypeOK, Pipes
<1> QED
  BY <1>1 DEF PopPipeline, Go, PipeTypes, MPTypeOK, UserSteps

(* Joining, sending and leaving keep the types of the pipeline.            *)
LEMMA UserTypes ==
  ASSUME PipeTypes, NEW u \in Users,
         Ensure(u) \/ FirstAudio(u) \/ ClosePipeline(u) \/ Return(u)
  PROVE  /\ MPTypeOK'
         /\ \A v \in Users : step'[v] \in {"starting", "draining", "closing"}
                               => held'[v] \in 1..created'
         /\ \A p \in Pipes : p \in running' \/ p > created' => retry'[p] < MaxRetries
         /\ created <= created'
<1> USE MPAssumption DEF Pipes
<1>1. CASE Ensure(u)
  <2>1. created' \in 0..MaxPipes /\ created <= created' /\ created \in Nat
    BY <1>1 DEF Ensure, EnsurePipeline, tables, PipeTypes, MPTypeOK
  <2>2. /\ registered' \in (1..created') \cup {NoPipe}
        /\ consumer' \in (1..created') \cup {NoPipe}
        /\ running' \subseteq 1..created'
    <3>1. CASE UNCHANGED <<created, registered, consumer, running>>
      BY <3>1 DEF PipeTypes, MPTypeOK
    <3>2. CASE /\ created' = created + 1 /\ registered' = created + 1
               /\ consumer' = created + 1 /\ running' = running \cup {created + 1}
      BY <2>1, <3>2 DEF PipeTypes, MPTypeOK
    <3> QED
      BY <1>1, <3>1, <3>2 DEF Ensure, EnsurePipeline, tables
  <2>3. /\ step' \in [Users -> UserSteps]
        /\ held' \in [Users -> Pipes \cup {NoPipe}]
        /\ \A v \in Users : step'[v] \in {"starting", "draining", "closing"}
                              => held'[v] \in 1..created
    BY <1>1 DEF Ensure, Go, PipeTypes, MPTypeOK, UserSteps
  <2>4. started' \subseteq 1..created' /\ UNCHANGED <<retry, announced>>
    BY <1>1, <2>1 DEF Ensure, PipeTypes, MPTypeOK
  <2>5. \A v \in Users : step'[v] \in {"starting", "draining", "closing"}
                           => held'[v] \in 1..created'
    BY <2>1, <2>3
  <2>6. \A p \in Pipes : p \in running' \/ p > created' => retry'[p] < MaxRetries
    <3> SUFFICES ASSUME NEW p \in Pipes, p \in running' \/ p > created'
                 PROVE  retry[p] < MaxRetries
      BY <2>4
    <3>1. p \in running \/ p > created
      BY <1>1, <2>1 DEF Ensure, EnsurePipeline
    <3> QED
      BY <3>1 DEF PipeTypes
  <2> QED
    BY <2>1, <2>2, <2>3, <2>4, <2>5, <2>6 DEF PipeTypes, MPTypeOK
<1>2. CASE FirstAudio(u)
  BY <1>2 DEF FirstAudio, Go, tables, consumers, PipeTypes, MPTypeOK, UserSteps
<1>3. CASE ClosePipeline(u)
  <2>1. UNCHANGED <<created, running, retry, started, announced>>
        /\ registered' \in {registered, NoPipe} /\ consumer' = NoPipe
    BY <1>3 DEF ClosePipeline, PopPipeline, consumers
  <2>2. CASE Go(u, "draining", consumer) /\ consumer \in running
    <3>1. consumer \in 1..created /\ consumer \in Pipes
      BY <2>2 DEF PipeTypes, MPTypeOK
    <3> QED
      BY <2>1, <2>2, <3>1 DEF Go, PipeTypes, MPTypeOK, UserSteps
  <2>3. CASE PopPipeline(u)
    BY <2>1, <2>3, PopTypes DEF PipeTypes, MPTypeOK
  <2> QED
    BY <1>3, <2>2, <2>3 DEF ClosePipeline
<1>4. CASE StreamStarted(u)
  <2>1. held[u] \in 1..created
    BY <1>4 DEF StreamStarted, PipeTypes
  <2>2. /\ UNCHANGED <<created, registered, consumer, running, retry>>
        /\ started' \subseteq 1..created
        /\ announced' \in {"none", "started", "ended"}
    BY <1>4, <2>1 DEF StreamStarted, tables, consumers, PipeTypes, MPTypeOK
  <2>3. /\ step' \in [Users -> UserSteps]
        /\ held' \in [Users -> Pipes \cup {NoPipe}]
        /\ \A v \in Users : step'[v] \in {"starting", "draining", "closing"}
                              => held'[v] \in 1..created
    BY <1>4, GoTypes DEF StreamStarted, UserSteps
  <2> QED
    BY <2>2, <2>3 DEF PipeTypes, MPTypeOK
<1>5. CASE Drained(u)
  <2>1. /\ UNCHANGED <<created, consumer, retry, started, announced>>
        /\ running' \subseteq running
    BY <1>5 DEF Drained
  <2>2. PopPipeline(u)
    BY <1>5 DEF Drained
  <2> QED
    BY <2>1, <2>2, PopTypes DEF PipeTypes, MPTypeOK
<1>6. CASE Closed(u)
  <2>1. /\ UNCHANGED <<created, registered, consumer, running, retry>>
        /\ started' \subseteq 1..created
        /\ announced' = "ended"
    BY <1>6 DEF Closed, tables, consumers, PipeTypes, MPTypeOK
  <2>2. /\ step' \in [Users -> UserSteps]
        /\ held' \in [Users -> Pipes \cup {NoPipe}]
        /\ \A v \in Users : step'[v] \in {"starting", "draining", "closing"}
                              => held'[v] \in 1..created
    BY <1>6, GoTypes DEF Closed, UserSteps
  <2> QED
    BY <2>1, <2>2 DEF PipeTypes, MPTypeOK
<1> QED
  BY <1>1, <1>2, <1>3, <1>4, <1>5, <1>6 DEF Return

LEMMA ConsumerTypes ==
  ASSUME PipeTypes, NEW p \in Pipes, ConsumerNext(p)
  PROVE  /\ MPTypeOK'
         /\ \A q \in Pipes : q \in running' \/ q > created' => retry'[q] < MaxRetries
         /\ UNCHANGED <<created, step, held>>
<1> USE MPAssumption DEF Pipes
<1>1. p \in running /\ retry[p] < MaxRetries /\ retry[p] \in Nat
  BY DEF ConsumerNext, ConsumerYields, ConsumerFails, ConnectionLost, PipeTypes, MPTypeOK
<1>2. CASE ConsumerYields(p)
  BY <1>1, <1>2 DEF ConsumerYields, tables, control, PipeTypes, MPTypeOK
<1>3. CASE ConsumerFails(p)
  <2>1. retry'[p] = retry[p] + 1 /\ \A q \in Pipes \ {p} : retry'[q] = retry[q]
    BY <1>3 DEF ConsumerFails, PipeTypes, MPTypeOK
  <2>2. retry' \in [Pipes -> 0..MaxRetries]
    BY <1>1, <1>3, <2>1 DEF ConsumerFails, PipeTypes, MPTypeOK
  <2>3. running' \subseteq running /\ (retry'[p] = MaxRetries => p \notin running')
    BY <1>3 DEF ConsumerFails
  <2>5. \A q \in Pipes : q \in running' \/ q > created' => retry'[q] < MaxRetries
    <3>1. p <= created /\ created' = created
      BY <1>1, <1>3 DEF ConsumerFails, tables, PipeTypes, MPTypeOK
    <3>2. \A q \in Pipes : q \in running' \/ q > created' => q \in running \/ q > created
      BY <2>3, <3>1
    <3>3. p \in running' \/ p > created' => retry'[p] < MaxRetries
      BY <1>1, <2>1, <2>3, <3>1 DEF PipeTypes, MPTypeOK
    <3> QED
      BY <2>1, <3>2, <3>3 DEF PipeTypes
  <2> QED
    BY <1>3, <2>2, <2>3, <2>5 DEF ConsumerFails, tables, control, PipeTypes, MPTypeOK
<1>4. CASE ConnectionLost(p)
  BY <1>4 DEF ConnectionLost, tables, consumers, control, PipeTypes, MPTypeOK
<1> QED
  BY <1>2, <1>3, <1>4 DEF ConsumerNext

LEMMA PipeTypesStep == PipeTypes /\ [Next]_vars => PipeTypes'
<1> SUFFICES ASSUME PipeTypes, [Next]_vars PROVE PipeTypes'
  OBVIOUS
<1> USE MPAssumption DEF Pipes
<1>1. \/ UNCHANGED feeds
      \/ \E a \in Agents, w \in Workers :
           Ensure(a) /\ feeds' = [feeds EXCEPT ![w] = registered']
      \/ \E a \in Agents : UNCHANGED mpvars /\ feeds' = [feeds EXCEPT ![mine[a]] = NoPipe]
  BY DEF Next, vars, Connect, Audio, Proceed, RegisterFull, Announce, LeavePipeline,
         RegisterAgent, EnsureWorker, WorkerLinked, WorkerRefused, WorkerStored, AgentOut,
         WorkerUnlinked, AgentDone, RegisterHuman, HumanOut, HumanDone, BridgeReturn,
         LeaveBegin, JoinBegin, AgentDisconnects, HumanDisconnects, RoomAudio, room
<1>2. created \in Nat
  BY DEF PipeTypes, MPTypeOK
<1> DEFINE Good == /\ MPTypeOK'
                   /\ \A v \in Users : step'[v] \in {"starting", "draining", "closing"}
                                         => held'[v] \in 1..created'
                   /\ \A p \in Pipes : p \in running' \/ p > created'
                                         => retry'[p] < MaxRetries
                   /\ created <= created'
<1>4. Good
  <2>1. ASSUME NEW w \in Workers, RoomAudio(w) PROVE Good
    <3>1. feeds[w] \in 1..created
      BY <2>1 DEF RoomAudio, PipeTypes
    <3>2. started' \subseteq 1..created
      BY <2>1, <3>1 DEF RoomAudio, PipeTypes, MPTypeOK
    <3>3. UNCHANGED <<created, registered, consumer, running, retry, step, held>>
          /\ announced' = "started"
      BY <2>1 DEF RoomAudio, tables, consumers, control
    <3> QED
      BY <3>2, <3>3, <1>2 DEF PipeTypes, MPTypeOK
  <2>2. ASSUME NEW u \in Users,
               Ensure(u) \/ FirstAudio(u) \/ ClosePipeline(u) \/ Return(u)
        PROVE  Good
    BY <2>2, UserTypes
  <2>3. ASSUME NEW p \in Pipes, ConsumerNext(p) PROVE Good
    <3>1. UNCHANGED <<created, step, held>> /\ created <= created'
      BY <2>3, <1>2, ConsumerTypes
    <3> QED
      BY <2>3, <3>1, ConsumerTypes DEF PipeTypes
  <2>4. CASE UNCHANGED mpvars
    BY <2>4, <1>2 DEF mpvars, PipeTypes, MPTypeOK
  <2> QED
    BY PipelineMoves, <2>1, <2>2, <2>3, <2>4
<1>3. feeds' \in [Workers -> (1..created') \cup {NoPipe}]
  <2>1. (1..created) \subseteq 1..created'
    BY <1>2, <1>4 DEF MPTypeOK
  <2>2. registered' \in (1..created') \cup {NoPipe}
    BY <1>4 DEF MPTypeOK
  <2> QED
    BY <1>1, <2>1, <2>2 DEF PipeTypes, mpvars
<1> QED
  BY <1>3, <1>4 DEF PipeTypes

LEMMA PipeTypesSafe == Spec => []PipeTypes
<1>1. Init => PipeTypes
  BY MPAssumption DEF Init, MPInit, PipeTypes, MPTypeOK, UserSteps, Pipes
<1> QED
  BY <1>1, PipeTypesStep, PTL DEF Spec

-----------------------------------------------------------------------------
(* Who is responsible for what is in the tables: somebody who is in and    *)
(* will close, or, for the pipeline alone, is in the middle of closing.    *)
TablesInv ==
  /\ registered # NoPipe => \E u \in Users : step[u] \in {"in", "starting", "draining"}
  /\ consumer # NoPipe => \E u \in Users : step[u] \in {"in", "starting"}

LEMMA TablesStep == PipeTypes /\ TablesInv /\ [Next]_vars => TablesInv'
<1> SUFFICES ASSUME PipeTypes, TablesInv, [Next]_vars PROVE TablesInv'
  OBVIOUS
<1>1. ASSUME NEW u \in Users, Ensure(u) \/ StreamStarted(u) PROVE TablesInv'
  <2>1. step'[u] = "in"
    BY <1>1 DEF Ensure, StreamStarted, Go, PipeTypes, MPTypeOK
  <2> QED
    BY <2>1 DEF TablesInv
<1>2. ASSUME NEW u \in Users, FirstAudio(u) PROVE TablesInv'
  <2>1. step'[u] = "starting"
    BY <1>2 DEF FirstAudio, Go, PipeTypes, MPTypeOK
  <2> QED
    BY <2>1 DEF TablesInv
<1>3. ASSUME NEW u \in Users, ClosePipeline(u) PROVE TablesInv'
  <2>1. consumer' = NoPipe
    BY <1>3 DEF ClosePipeline
  <2>2. registered' = NoPipe \/ step'[u] = "draining"
    BY <1>3 DEF ClosePipeline, PopPipeline, Go, PipeTypes, MPTypeOK
  <2> QED
    BY <2>1, <2>2 DEF TablesInv
<1>4. ASSUME NEW u \in Users, Drained(u) PROVE TablesInv'
  <2>1. registered' = NoPipe /\ consumer' = consumer
    BY <1>4 DEF Drained, PopPipeline
  <2>2. \A v \in Users : step[v] \in {"in", "starting"} => step'[v] = step[v]
    BY <1>4 DEF Drained, PopPipeline, Go, PipeTypes, MPTypeOK
  <2> QED
    BY <2>1, <2>2 DEF TablesInv
<1>5. ASSUME NEW u \in Users, Closed(u) PROVE TablesInv'
  <2>1. \A v \in Users : step[v] \in {"in", "starting", "draining"} => step'[v] = step[v]
    BY <1>5 DEF Closed, Go, PipeTypes, MPTypeOK
  <2> QED
    BY <1>5, <2>1 DEF Closed, tables, TablesInv
<1>6. ASSUME UNCHANGED <<registered, consumer, step>> PROVE TablesInv'
  BY <1>6 DEF TablesInv
<1>7. ASSUME NEW p \in Pipes, ConsumerNext(p)
      PROVE  UNCHANGED <<registered, consumer, step>>
  BY <1>7 DEF ConsumerNext, ConsumerYields, ConsumerFails, ConnectionLost, tables, control
<1>8. ASSUME NEW w \in Workers, RoomAudio(w)
      PROVE  UNCHANGED <<registered, consumer, step>>
  BY <1>8 DEF RoomAudio, tables, control
<1> QED
  BY PipelineMoves, <1>1, <1>2, <1>3, <1>4, <1>5, <1>6, <1>7, <1>8 DEF Return, mpvars

(* When the last session has closed, _pipelines and _segment_tasks have no *)
(* entry left for the meeting, however joins, leaves and lost streams of   *)
(* the others met with its close_pipeline.                                 *)
THEOREM TablesAreCleared == Spec => []LastOneClearsTables
<1>1. Init => TablesInv
  BY DEF Init, MPInit, TablesInv
<1>2. TablesInv => LastOneClearsTables
  BY DEF TablesInv, LastOneClearsTables
<1> QED
  BY <1>1, <1>2, TablesStep, PipeTypesSafe, PTL DEF Spec

-----------------------------------------------------------------------------
LEMMA ConsumedStep ==
  PipeTypes /\ RegisteredIsConsumed /\ [Next]_vars => RegisteredIsConsumed'
<1> SUFFICES ASSUME PipeTypes, RegisteredIsConsumed, [Next]_vars
             PROVE  RegisteredIsConsumed'
  OBVIOUS
<1>1. ASSUME NEW u \in Users, Ensure(u) PROVE RegisteredIsConsumed'
  BY <1>1 DEF Ensure, EnsurePipeline, tables, RegisteredIsConsumed
<1>2. ASSUME NEW u \in Users, ClosePipeline(u) PROVE RegisteredIsConsumed'
  BY <1>2 DEF ClosePipeline, PopPipeline, consumers, RegisteredIsConsumed
<1>3. ASSUME NEW u \in Users, Drained(u) PROVE RegisteredIsConsumed'
  BY <1>3 DEF Drained, PopPipeline, RegisteredIsConsumed
<1>4. ASSUME NEW p \in Pipes, ConsumerFails(p) \/ ConsumerYields(p) PROVE RegisteredIsConsumed'
  <2>1. registered' = registered /\ p \in running
    BY <1>4 DEF ConsumerFails, ConsumerYields, tables
  <2>2. \A q \in Pipes \ {p} : retry'[q] = retry[q] /\ (q \in running => q \in running')
    BY <1>4 DEF ConsumerFails, ConsumerYields, PipeTypes, MPTypeOK
  <2>3. p \in running' \/ retry'[p] = MaxRetries
    BY <1>4 DEF ConsumerFails, ConsumerYields
  <2>4. registered # NoPipe => registered \in Pipes
    BY MPAssumption DEF PipeTypes, MPTypeOK, Pipes
  <2> QED
    BY <2>1, <2>2, <2>3, <2>4 DEF RegisteredIsConsumed
<1>5. ASSUME UNCHANGED <<registered, running, retry>> PROVE RegisteredIsConsumed'
  BY <1>5 DEF RegisteredIsConsumed
<1>6. ASSUME NEW u \in Users, FirstAudio(u) \/ StreamStarted(u) \/ Closed(u)
      PROVE  UNCHANGED <<registered, running, retry>>
  BY <1>6 DEF FirstAudio, StreamStarted, Closed, tables, consumers
<1>7. ASSUME NEW p \in Pipes, ConnectionLost(p)
      PROVE  UNCHANGED <<registered, running, retry>>
  BY <1>7 DEF ConnectionLost, tables, consumers
<1>8. ASSUME NEW w \in Workers, RoomAudio(w)
      PROVE  UNCHANGED <<registered, running, retry>>
  BY <1>8 DEF RoomAudio, tables, consumers
<1> QED
  BY PipelineMoves, <1>1, <1>2, <1>3, <1>4, <1>5, <1>6, <1>7, <1>8
     DEF Return, ConsumerNext, mpvars

(* The pipeline that audio is sent to has a running consumer unless its    *)
(* retries are used up: no leaver takes the consumer and leaves the        *)
(* pipeline, and no joiner finds a pipeline that nobody reads.             *)
THEOREM RegisteredKeepsConsumer == Spec => []RegisteredIsConsumed
<1>1. Init => RegisteredIsConsumed
  BY DEF Init, MPInit, RegisteredIsConsumed
<1> QED
  BY <1>1, ConsumedStep, PipeTypesSafe, PTL DEF Spec

-----------------------------------------------------------------------------
(* Where in its handler a session is in _meeting_sessions.                 *)
MemberPCs(s) ==
  IF s \in Agents
  THEN {"lookup", "connecting", "storing", "announce", "in", "leaving", "closing"}
  ELSE {"announce", "in", "departing"}

DyingPCs == {"in", "departing", "leaving", "closing", "unlinking", "persisting", "gone"}

(* A session's place in its handler tells whether it is a member, and      *)
(* whether the events on the stream say that it is there.                  *)
Agrees(s) ==
  /\ s \in members <=> pc[s] \in MemberPCs(s)
  /\ s \in presence <=> (pc[s] = "in" /\ ~dying[s])
  /\ dying[s] => pc[s] \in DyingPCs
  /\ s \in Humans => pc[s] \notin {"lookup", "connecting", "storing"}

PresenceInv ==
  /\ pc \in [Users -> PCs]
  /\ dying \in [Users -> BOOLEAN]
  /\ \A s \in Users : Agrees(s)

(* A step of s leaves what is known of the others alone.                   *)
Others(s) ==
  \A v \in Users \ {s} :
    /\ pc'[v] = pc[v]
    /\ dying'[v] = dying[v]
    /\ v \in members' <=> v \in members
    /\ v \in presence' <=> v \in presence

LEMMA OneMoves ==
  ASSUME PresenceInv, NEW s \in Users,
         pc' \in [Users -> PCs], dying' \in [Users -> BOOLEAN],
         Others(s), Agrees(s)'
  PROVE  PresenceInv'
<1> SUFFICES ASSUME NEW v \in Users \ {s} PROVE Agrees(v)'
  BY DEF PresenceInv
<1>1. Agrees(v)
  BY DEF PresenceInv
<1>2. MemberPCs(v)' = MemberPCs(v)
  BY DEF MemberPCs
<1> QED
  BY <1>1, <1>2 DEF Others, Agrees

LEMMA PresenceStep == PresenceInv /\ [Next]_vars => PresenceInv'
<1> SUFFICES ASSUME PresenceInv, [Next]_vars PROVE PresenceInv'
  OBVIOUS
<1>0. Users = Agents \cup Humans /\ Agents \cap Humans = {}
  BY GSAssumption
<1>1. ASSUME NEW s \in Users, Connect(s) \/ RegisterFull(s)
      PROVE  PresenceInv'
  <2>1. pc' \in [Users -> PCs] /\ dying' \in [Users -> BOOLEAN] /\ Others(s)
    BY <1>0, <1>1 DEF Connect, RegisterFull, room, At, Others, PresenceInv, PCs
  <2>2. Agrees(s)'
    BY <1>0, <1>1 DEF Connect, RegisterFull, room, At, Agrees, PresenceInv, MemberPCs, DyingPCs
  <2> QED
    BY <1>0, <2>1, <2>2, OneMoves
<1>2. ASSUME NEW a \in Agents, RegisterAgent(a) \/ JoinBegin(a) \/ EnsureWorker(a)
      PROVE  PresenceInv'
  <2>1. pc' \in [Users -> PCs] /\ dying' \in [Users -> BOOLEAN] /\ Others(a)
    BY <1>0, <1>2 DEF RegisterAgent, JoinBegin, EnsureWorker, room, At, Others, PresenceInv, PCs
  <2>2. Agrees(a)'
    BY <1>0, <1>2 DEF RegisterAgent, JoinBegin, EnsureWorker, room, At, Agrees, PresenceInv, MemberPCs, DyingPCs
  <2> QED
    BY <1>0, <2>1, <2>2, OneMoves
<1>3. ASSUME NEW a \in Agents, WorkerLinked(a) \/ WorkerRefused(a) \/ WorkerStored(a)
      PROVE  PresenceInv'
  <2>1. pc' \in [Users -> PCs] /\ dying' \in [Users -> BOOLEAN] /\ Others(a)
    BY <1>0, <1>3 DEF WorkerLinked, WorkerRefused, WorkerStored, room, At, Others, PresenceInv, PCs
  <2>2. Agrees(a)'
    BY <1>0, <1>3 DEF WorkerLinked, WorkerRefused, WorkerStored, room, At, Agrees, PresenceInv, MemberPCs, DyingPCs
  <2> QED
    BY <1>0, <2>1, <2>2, OneMoves
<1>4. ASSUME NEW h \in Humans, RegisterHuman(h) \/ HumanOut(h)
      PROVE  PresenceInv'
  <2>1. pc' \in [Users -> PCs] /\ dying' \in [Users -> BOOLEAN] /\ Others(h)
    BY <1>0, <1>4 DEF RegisterHuman, HumanOut, room, At, Others, PresenceInv, PCs
  <2>2. Agrees(h)'
    BY <1>0, <1>4 DEF RegisterHuman, HumanOut, room, At, Agrees, PresenceInv, MemberPCs, DyingPCs
  <2> QED
    BY <1>0, <2>1, <2>2, OneMoves
<1>5. ASSUME NEW h \in Humans, HumanDisconnects(h) \/ HumanDone(h)
      PROVE  PresenceInv'
  <2>1. pc' \in [Users -> PCs] /\ dying' \in [Users -> BOOLEAN] /\ Others(h)
    BY <1>0, <1>5 DEF HumanDisconnects, HumanDone, Unregister, room, At, Others, PresenceInv, PCs
  <2>2. Agrees(h)'
    BY <1>0, <1>5 DEF HumanDisconnects, HumanDone, Unregister, room, At, Agrees, PresenceInv, MemberPCs, DyingPCs
  <2> QED
    BY <1>0, <2>1, <2>2, OneMoves
<1>6. ASSUME NEW s \in Users, Announce(s)
      PROVE  PresenceInv'
  <2>1. pc' \in [Users -> PCs] /\ dying' \in [Users -> BOOLEAN] /\ Others(s)
    BY <1>0, <1>6 DEF Announce, Announced, room, At, Others, PresenceInv, PCs
  <2>2. Agrees(s)'
    BY <1>0, <1>6 DEF Announce, Announced, room, At, Agrees, PresenceInv, MemberPCs, DyingPCs
  <2> QED
    BY <1>0, <2>1, <2>2, OneMoves
<1>7. ASSUME NEW s \in Users, NEW d \in BOOLEAN, LeaveBegin(s, d)
      PROVE  PresenceInv'
  <2>1. pc' \in [Users -> PCs] /\ dying' \in [Users -> BOOLEAN] /\ Others(s)
    BY <1>0, <1>7 DEF LeaveBegin, room, At, Others, PresenceInv, PCs
  <2>2. Agrees(s)'
    BY <1>0, <1>7 DEF LeaveBegin, room, At, Agrees, PresenceInv, MemberPCs, DyingPCs
  <2> QED
    BY <1>0, <2>1, <2>2, OneMoves
<1>8. ASSUME NEW s \in Users, LeavePipeline(s)
      PROVE  PresenceInv'
  <2>1. pc' \in [Users -> PCs] /\ dying' \in [Users -> BOOLEAN] /\ Others(s)
    BY <1>0, <1>8 DEF LeavePipeline, room, At, Others, PresenceInv, PCs
  <2>2. Agrees(s)'
    BY <1>0, <1>8 DEF LeavePipeline, room, At, Agrees, PresenceInv, MemberPCs, DyingPCs
  <2> QED
    BY <1>0, <2>1, <2>2, OneMoves
<1>9. ASSUME NEW a \in Agents, AgentOut(a) \/ WorkerUnlinked(a)
      PROVE  PresenceInv'
  <2>1. pc' \in [Users -> PCs] /\ dying' \in [Users -> BOOLEAN] /\ Others(a)
    BY <1>0, <1>9 DEF AgentOut, WorkerUnlinked, room, At, Others, PresenceInv, PCs
  <2>2. Agrees(a)'
    BY <1>0, <1>9 DEF AgentOut, WorkerUnlinked, room, At, Agrees, PresenceInv, MemberPCs, DyingPCs
  <2> QED
    BY <1>0, <2>1, <2>2, OneMoves
<1>10. ASSUME NEW a \in Agents, AgentDone(a) \/ AgentDisconnects(a)
      PROVE  PresenceInv'
  <2>1. pc' \in [Users -> PCs] /\ dying' \in [Users -> BOOLEAN] /\ Others(a)
    BY <1>0, <1>10 DEF AgentDone, AgentDisconnects, Unregister, room, At, Others, PresenceInv, PCs
  <2>2. Agrees(a)'
    BY <1>0, <1>10 DEF AgentDone, AgentDisconnects, Unregister, room, At, Agrees, PresenceInv, MemberPCs, DyingPCs
  <2> QED
    BY <1>0, <2>1, <2>2, OneMoves
<1>11. ASSUME UNCHANGED <<pc, dying, members, presence>> PROVE PresenceInv'
  BY <1>11 DEF PresenceInv, Agrees, MemberPCs
<1>12. ASSUME NEW s \in Users, Audio(s) \/ BridgeReturn(s)
       PROVE  UNCHANGED <<pc, dying, members, presence>>
  BY <1>12 DEF Audio, BridgeReturn, session
<1>13. ASSUME NEW w \in Workers, RoomAudio(w)
       PROVE  UNCHANGED <<pc, dying, members, presence>>
  BY <1>13 DEF RoomAudio, session
<1> QED
  BY <1>0, <1>1, <1>2, <1>3, <1>4, <1>5, <1>6, <1>7, <1>8, <1>9, <1>10, <1>11, <1>12, <1>13
     DEF Next, Proceed, vars, session

(* What participant.joined and participant.left add up to is the           *)
(* membership of every settled session, also after refused rooms, lost     *)
(* connections and leaves in the middle of other sessions' joins.          *)
THEOREM PresenceIsMembership == Spec => []PresenceFollowsMembership
<1>1. Init => PresenceInv
  BY DEF Init, PresenceInv, Agrees, PCs, MemberPCs, DyingPCs
<1>2. PresenceInv => PresenceFollowsMembership
  BY GSAssumption DEF PresenceInv, Agrees, PresenceFollowsMembership, Settled, MemberPCs
<1> QED
  BY <1>1, <1>2, PresenceStep, PTL DEF Spec

-----------------------------------------------------------------------------
(* Sessions that passed the check before accept() together are checked     *)
(* again by register: the connection manager never exceeds its limit.      *)
THEOREM LimitHolds == Spec => []WithinLimit
<1> DEFINE Finite == IsFiniteSet(registry) /\ WithinLimit
<1>1. Init => Finite
  BY FS_EmptySet, GSAssumption DEF Init, WithinLimit
<1>2. Finite /\ [Next]_vars => Finite'
  <2> SUFFICES ASSUME Finite, [Next]_vars PROVE Finite'
    OBVIOUS
  <2>1. ASSUME NEW s \in Users, Register(s) PROVE Finite'
    <3>1. registry' = registry \cup {s} /\ Cardinality(registry) < MaxConnections
      BY <2>1 DEF Register
    <3>2. /\ IsFiniteSet(registry \cup {s})
          /\ Cardinality(registry \cup {s}) = IF s \in registry THEN Cardinality(registry)
                                               ELSE Cardinality(registry) + 1
      BY FS_AddElement, Zenon
    <3>3. Cardinality(registry) \in Nat
      BY FS_CardinalityType, Zenon
    <3> QED
      BY <3>1, <3>2, <3>3, GSAssumption DEF WithinLimit
  <2>2. ASSUME NEW s \in Users, registry' = registry \ {s} PROVE Finite'
    <3>1. registry' \in SUBSET registry
      BY <2>2
    <3>2. IsFiniteSet(registry') /\ Cardinality(registry') <= Cardinality(registry)
      BY <3>1, FS_Subset, Zenon
    <3> QED
      BY <3>2, FS_CardinalityType, GSAssumption DEF WithinLimit
  <2>3. ASSUME UNCHANGED registry PROVE Finite'
    BY <2>3 DEF WithinLimit
  <2>4. \/ \E s \in Users : Register(s) \/ registry' = registry \ {s}
        \/ UNCHANGED registry
    BY GSAssumption
       DEF Next, vars, session, Connect, Audio, Proceed, RegisterFull, Announce,
           LeavePipeline, RegisterAgent, EnsureWorker, WorkerLinked, WorkerRefused,
           WorkerStored, AgentOut, WorkerUnlinked, AgentDone, RegisterHuman, HumanOut,
           HumanDone, BridgeReturn, LeaveBegin, JoinBegin, AgentDisconnects,
           HumanDisconnects, RoomAudio, Unregister
  <2> QED
    BY <2>1, <2>2, <2>3, <2>4
<1> QED
  BY <1>1, <1>2, PTL DEF Spec
-----------------------------------------------------------------------------
LEMMA WorkerStep ==
  ASSUME Humans = {}, PresenceInv, WorkerHasMembers, [Next]_vars
  PROVE  WorkerHasMembers'
<1>0. Users = Agents
  BY GSAssumption
<1>1. ASSUME NEW a \in Agents, WorkerStored(a) PROVE WorkerHasMembers'
  <2>1. a \in members
    BY <1>0, <1>1 DEF WorkerStored, PresenceInv, Agrees, MemberPCs
  <2> QED
    BY <1>1, <2>1 DEF WorkerStored, WorkerHasMembers
<1>2. ASSUME NEW a \in Agents, AgentOut(a) PROVE WorkerHasMembers'
  BY <1>2 DEF AgentOut, WorkerHasMembers
<1>3. ASSUME NEW a \in Agents, AgentDone(a) \/ AgentDisconnects(a) PROVE WorkerHasMembers'
  <2>1. a \notin members
    BY <1>0, <1>3 DEF AgentDone, AgentDisconnects, PresenceInv, Agrees, MemberPCs
  <2> QED
    BY <1>3, <2>1 DEF AgentDone, AgentDisconnects, Unregister, room, WorkerHasMembers
<1>4. ASSUME worker' = worker, members \subseteq members' PROVE WorkerHasMembers'
  BY <1>4 DEF WorkerHasMembers
<1>5. ASSUME NEW a \in Agents, Proceed(a), ~WorkerStored(a), ~AgentOut(a), ~AgentDone(a)
      PROVE  worker' = worker /\ members \subseteq members'
  BY <1>0, <1>5 DEF Proceed, RegisterFull, Announce, LeavePipeline, RegisterAgent, EnsureWorker,
                    WorkerLinked, WorkerRefused, WorkerUnlinked, room
<1>6. ASSUME NEW a \in Agents, NEW d \in BOOLEAN,
             Connect(a) \/ Audio(a) \/ BridgeReturn(a) \/ LeaveBegin(a, d) \/ JoinBegin(a)
      PROVE  worker' = worker /\ members \subseteq members'
  BY <1>6 DEF Connect, Audio, BridgeReturn, LeaveBegin, JoinBegin, session, room
<1>7. ASSUME NEW w \in Workers, RoomAudio(w)
      PROVE  worker' = worker /\ members \subseteq members'
  BY <1>7 DEF RoomAudio, session, room
<1> QED
  BY <1>0, <1>1, <1>2, <1>3, <1>4, <1>5, <1>6, <1>7 DEF Next, vars, session, room

(* Among agents the bot of the room is in the table only while somebody is *)
(* in the meeting: whoever stores it has not left yet, and the last one to *)
(* leave takes it away (ensure_livekit_worker, cleanup_livekit_worker).    *)
(* Humans do not clean up, hence the hypothesis.                           *)
THEOREM WorkerKeepsMembers ==
  ASSUME Humans = {}
  PROVE  Spec => []WorkerHasMembers
<1>1. Init => PresenceInv
  BY DEF Init, PresenceInv, Agrees, PCs, MemberPCs, DyingPCs
<1>2. Init => WorkerHasMembers
  BY DEF Init, WorkerHasMembers
<1>3. PresenceInv /\ WorkerHasMembers /\ [Next]_vars => WorkerHasMembers'
  BY WorkerStep
<1> QED
  BY <1>1, <1>2, <1>3, PresenceStep, PTL DEF Spec
=============================================================================
