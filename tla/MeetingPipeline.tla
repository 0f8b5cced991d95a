--------------------------- MODULE MeetingPipeline ---------------------------
(***************************************************************************)
(* The gateway's AudioBridge for one meeting: the AudioPipeline in         *)
(* _pipelines, the segment consumer in _segment_tasks, and the session     *)
(* handlers that ensure, feed and close the pipeline.  It is asyncio code: *)
(* a call runs undisturbed up to an await that suspends, so an action is   *)
(* the code between two such awaits.                                       *)
(***************************************************************************)
EXTENDS Naturals

CONSTANTS
  Users,       \* session handlers that use the meeting's pipeline
  NoPipe,      \* the value of a missing dictionary key
  MaxPipes,    \* bound: pipelines created in a behaviour
  MaxRetries   \* _consume_segments: max_retries

Pipes == 1..MaxPipes

ASSUME MPAssumption ==
  /\ MaxPipes \in Nat
  /\ MaxRetries \in Nat \ {0}
  /\ NoPipe \notin Nat

VARIABLES
  created,     \* the pipelines are numbered in order of creation
  registered,  \* _pipelines[meeting]
  consumer,    \* _segment_tasks[meeting]: whose segments the task consumes
  running,     \* the pipelines whose consumer task runs
  retry,       \* each consumer's retry counter
  started,     \* the pipelines with _started: their STT stream is open
  announced,   \* the last lifecycle event published for the meeting
  step,        \* where each user is
  held         \* the pipeline a user's suspended call works on

tables == <<created, registered, consumer>>
consumers == <<running, retry>>
control == <<step, held>>
mpvars == <<created, registered, consumer, running, retry, started, announced, step, held>>

(* out: ensure_pipeline not called, or closed again; in: between calls;    *)
(* starting: awaits start_stream; draining: awaits the cancelled consumer; *)
(* closing: awaits the STT provider's close.                               *)
UserSteps == {"out", "in", "starting", "draining", "closing"}

MPInit ==
  /\ created = 0
  /\ registered = NoPipe
  /\ consumer = NoPipe
  /\ running = {}
  /\ retry = [p \in Pipes |-> 0]
  /\ started = {}
  /\ announced = "none"
  /\ step = [u \in Users |-> "out"]
  /\ held = [u \in Users |-> NoPipe]

Go(u, s, p) == /\ step' = [step EXCEPT ![u] = s]
               /\ held' = [held EXCEPT ![u] = p]

-----------------------------------------------------------------------------
(* Mutant: a task that is still in the table is taken for the consumer.    *)
EnsureTrustsTask ==
  \/ /\ registered # NoPipe
     /\ UNCHANGED <<tables, running>>
  \/ /\ registered = NoPipe
     /\ created < MaxPipes
     /\ created' = created + 1
     /\ registered' = created + 1
     /\ IF consumer = NoPipe
        THEN consumer' = created + 1 /\ running' = running \cup {created + 1}
        ELSE UNCHANGED <<consumer, running>>

(* ensure_pipeline, without its caller: it does not suspend.               *)
EnsurePipeline ==
  \/ /\ registered # NoPipe
     /\ UNCHANGED <<tables, running>>
  \/ /\ registered = NoPipe
     /\ created < MaxPipes
     /\ created' = created + 1
     /\ registered' = created + 1
     /\ consumer' = created + 1
     /\ running' = running \cup {created + 1}

Ensure(u) ==
  /\ step[u] \in {"out", "in"}
  /\ EnsurePipeline
  /\ Go(u, "in", NoPipe)
  /\ UNCHANGED <<retry, started, announced>>

(* process_audio: the first chunk opens the STT stream.  Other chunks, and *)
(* chunks that find no pipeline and are dropped, change nothing here.      *)
FirstAudio(u) ==
  /\ step[u] = "in"
  /\ registered # NoPipe
  /\ registered \notin started
  /\ Go(u, "starting", registered)
  /\ UNCHANGED <<tables, consumers, started, announced>>

(* start_stream returns, or raises (nothing was opened).                   *)
StreamStarted(u) ==
  /\ step[u] = "starting"
  /\ \/ /\ started' = started \cup {held[u]}
        /\ announced' = "started"
     \/ UNCHANGED <<started, announced>>
  /\ Go(u, "in", NoPipe)
  /\ UNCHANGED <<tables, consumers>>

-----------------------------------------------------------------------------
(* The second half of close_pipeline: whatever pipeline is registered by   *)
(* now is removed; if its stream is open, the close is awaited.            *)
PopPipeline(u) ==
  /\ registered' = NoPipe
  /\ IF registered \in started THEN Go(u, "closing", registered)
                               ELSE Go(u, "out", NoPipe)

(* Mutant: without a task in the table there is nothing to close.          *)
CloseOnlyWithTask(u) ==
  /\ step[u] = "in"
  /\ consumer' = NoPipe
  /\ \/ /\ consumer \in running
        /\ Go(u, "draining", consumer)
        /\ UNCHANGED registered
     \/ /\ consumer \notin running
        /\ Go(u, "out", NoPipe)
        /\ UNCHANGED registered
  /\ UNCHANGED <<created, consumers, started, announced>>

(* close_pipeline: the task leaves the table and is cancelled; if it was   *)
(* still running its final pass is awaited.                                *)
ClosePipeline(u) ==
  /\ step[u] = "in"
  /\ consumer' = NoPipe
  /\ \/ /\ consumer \in running
        /\ Go(u, "draining", consumer)
        /\ UNCHANGED registered
     \/ /\ consumer \notin running
        /\ PopPipeline(u)
  /\ UNCHANGED <<created, consumers, started, announced>>

(* Mutant: the final pass waits for a stream that was never started.       *)
DrainedIfStarted(u) ==
  /\ step[u] = "draining"
  /\ held[u] \in started
  /\ running' = running \ {held[u]}
  /\ PopPipeline(u)
  /\ UNCHANGED <<created, consumer, retry, started, announced>>

(* The consumer's final pass ends and the closer goes on.                  *)
Drained(u) ==
  /\ step[u] = "draining"
  /\ running' = running \ {held[u]}
  /\ PopPipeline(u)
  /\ UNCHANGED <<created, consumer, retry, started, announced>>

(* AudioPipeline.close: the stream is closed, MeetingEnded is published.   *)
Closed(u) ==
  /\ step[u] = "closing"
  /\ started' = started \ {held[u]}
  /\ announced' = "ended"
  /\ Go(u, "out", NoPipe)
  /\ UNCHANGED <<tables, consumers>>

-----------------------------------------------------------------------------
Draining(p) == \E u \in Users : step[u] = "draining" /\ held[u] = p

(* _consume_segments, outside its final pass: a pass yields segments ...   *)
ConsumerYields(p) ==
  /\ p \in running \cap started
  /\ ~Draining(p)
  /\ retry' = [retry EXCEPT ![p] = 0]
  /\ UNCHANGED <<tables, running, started, announced, control>>

(* ... or fails, for the last time when the retries are used up ...        *)
ConsumerFails(p) ==
  /\ p \in running \cap started
  /\ ~Draining(p)
  /\ retry' = [retry EXCEPT ![p] = @ + 1]
  /\ running' = IF retry'[p] = MaxRetries THEN running \ {p} ELSE running
  /\ UNCHANGED <<tables, started, announced, control>>

(* ... or loses its connection: a fresh provider is not started yet.       *)
ConnectionLost(p) ==
  /\ p \in running \cap started
  /\ ~Draining(p)
  /\ started' = started \ {p}
  /\ UNCHANGED <<tables, consumers, announced, control>>

-----------------------------------------------------------------------------
Return(u) == StreamStarted(u) \/ Drained(u) \/ Closed(u)

ConsumerNext(p) == ConsumerYields(p) \/ ConsumerFails(p) \/ ConnectionLost(p)

MPNext ==
  \/ \E u \in Users : Ensure(u) \/ FirstAudio(u) \/ ClosePipeline(u) \/ Return(u)
  \/ \E p \in Pipes : ConsumerNext(p)

MPSpec == MPInit /\ [][MPNext]_mpvars

(* What the handlers await ends; nothing makes them join, send or close.   *)
MPFairness == \A u \in Users : WF_mpvars(Return(u))

MPFairSpec == MPSpec /\ MPFairness

-----------------------------------------------------------------------------
MPTypeOK ==
  /\ created \in 0..MaxPipes
  /\ registered \in (1..created) \cup {NoPipe}
  /\ consumer \in (1..created) \cup {NoPipe}
  /\ running \subseteq 1..created
  /\ retry \in [Pipes -> 0..MaxRetries]
  /\ started \subseteq 1..created
  /\ announced \in {"none", "started", "ended"}
  /\ step \in [Users -> UserSteps]
  /\ held \in [Users -> Pipes \cup {NoPipe}]

(* The last user to close leaves nothing in the tables, whoever closed     *)
(* what in between: the next meeting user gets a fresh pipeline.           *)
LastOneClearsTables ==
  (\A u \in Users : step[u] = "out") => registered = NoPipe /\ consumer = NoPipe

(* Audio is only ever sent to a pipeline that somebody transcribes: the    *)
(* consumer of the registered pipeline runs, unless it used up its retries *)
(* ("Creates an STT pipeline ..., forwards agent audio to the pipeline,    *)
(* and runs a background task consuming transcript segments").             *)
RegisteredIsConsumed ==
  registered # NoPipe => registered \in running \/ retry[registered] = MaxRetries

(* A call that waits for a consumer or a provider comes back.              *)
ClosesReturn ==
  \A u \in Users : step[u] = "draining" ~> step[u] = "out"

(* close_pipeline "close[s] the pipeline for a meeting and cancel[s] its   *)
(* segment consumer" (audio_bridge.py): no consumer goes on, unknown to    *)
(* the table, for a pipeline that is gone.                                 *)
ConsumersAreKnown ==
  \A p \in running : p = registered \/ p = consumer \/ Draining(p)

(* AudioPipeline.close: "Close the STT stream ...": an open stream belongs *)
(* to the registered pipeline or is just being closed.                     *)
StreamsAreClosed ==
  \A p \in started :
    p = registered \/ \E u \in Users : step[u] = "closing" /\ held[u] = p
=============================================================================
