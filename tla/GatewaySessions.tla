--------------------------- MODULE GatewaySessions ---------------------------
(***************************************************************************)
(* The agent gateway around one meeting: the session handlers of agents    *)
(* and humans, the ConnectionManager they share, the bot participant in    *)
(* the meeting's LiveKit room, and (from MeetingPipeline) the AudioBridge. *)
(* Each session is one coroutine that handles its messages in order; an    *)
(* action is the code between two awaits that suspend.                     *)
(***************************************************************************)
EXTENDS MeetingPipeline, FiniteSets

CONSTANTS
  Agents,          \* AgentSessionHandlers
  Humans,          \* HumanSessionHandlers
  LiveKit,         \* is LiveKit configured, and has the meeting a room?
  NoWorker,        \* the value of a missing dictionary key
  MaxConnections,  \* ConnectionManager._max_connections
  MaxWorkers       \* bound: room connections made in a behaviour

Workers == 1..MaxWorkers

ASSUME GSAssumption ==
  /\ Users = Agents \cup Humans
  /\ Agents \cap Humans = {}
  /\ LiveKit \in BOOLEAN
  /\ MaxConnections \in Nat
  /\ MaxWorkers \in Nat
  /\ NoWorker \notin Nat

VARIABLES
  registry,  \* _sessions
  members,   \* _meeting_sessions[meeting]
  pc,        \* where each handler is
  dying,     \* is the handler in its _cleanup, or bound for it?
  presence,  \* what the participant.joined/left events on the stream add up to
  roster,    \* the sessions a human's browser shows as present
  worker,    \* livekit_workers[meeting]
  linked,    \* the workers connected to the room
  feeds,     \* the pipeline each worker's adapter was built with
  mine       \* the worker a handler connects or disconnects

session == <<registry, members, pc, dying>>
room == <<worker, linked, feeds, mine>>
vars == <<mpvars, registry, members, pc, dying, presence, roster, worker, linked, feeds, mine>>

PCs == {"new", "accepting", "idle", "lookup", "connecting", "storing", "announce",
        "in", "departing", "left", "leaving", "closing", "unlinking", "persisting", "gone"}

Init ==
  /\ MPInit
  /\ registry = {}
  /\ members = {}
  /\ pc = [s \in Users |-> "new"]
  /\ dying = [s \in Users |-> FALSE]
  /\ presence = {}
  /\ roster = [h \in Humans |-> {}]
  /\ worker = NoWorker
  /\ linked = {}
  /\ feeds = [w \in Workers |-> NoPipe]
  /\ mine = [s \in Users |-> NoWorker]

At(s, l) == pc' = [pc EXCEPT ![s] = l]

-----------------------------------------------------------------------------
(* agent_connect, human_connect: the limit is checked before accept() ...  *)
Connect(s) ==
  /\ pc[s] = "new"
  /\ At(s, IF Cardinality(registry) >= MaxConnections THEN "gone" ELSE "accepting")
  /\ UNCHANGED <<mpvars, registry, members, dying, presence, roster, room>>

(* ... and again in ConnectionManager.register, after it.                  *)
Register(s) ==
  /\ Cardinality(registry) < MaxConnections
  /\ registry' = registry \cup {s}

RegisterFull(s) ==
  /\ pc[s] = "accepting"
  /\ Cardinality(registry) >= MaxConnections
  /\ At(s, "gone")
  /\ UNCHANGED <<mpvars, registry, members, dying, presence, roster, room>>

RegisterAgent(a) ==
  /\ pc[a] = "accepting"
  /\ Register(a)
  /\ At(a, "idle")
  /\ UNCHANGED <<mpvars, members, dying, presence, roster, room>>

(* A human is registered and auto-joins without an await in between.       *)
RegisterHuman(h) ==
  /\ pc[h] = "accepting"
  /\ Register(h)
  /\ members' = members \cup {h}
  /\ Ensure(h)
  /\ At(h, "announce")
  /\ UNCHANGED <<dying, presence, roster, room>>

-----------------------------------------------------------------------------
(* _handle_join up to the lookup of the room name ...                      *)
JoinBegin(a) ==
  /\ pc[a] = "idle"
  /\ members' = members \cup {a}
  /\ Ensure(a)
  /\ At(a, "lookup")
  /\ UNCHANGED <<registry, dying, presence, roster, room>>

(* ... then ensure_livekit_worker: a worker in the table is used, else a   *)
(* new one connects.  Without a room, or when the lookup fails, none.      *)
EnsureWorker(a) ==
  /\ pc[a] = "lookup"
  /\ \/ At(a, "announce")
     \/ /\ LiveKit
        /\ worker = NoWorker
        /\ Cardinality(linked) < MaxWorkers
        /\ At(a, "connecting")
  /\ UNCHANGED <<mpvars, registry, members, dying, presence, roster, room>>

(* LiveKitAgentWorker.connect: in the room, the pipeline is ensured again  *)
(* and the adapter built with the one that is registered now ...           *)
WorkerLinked(a) ==
  /\ pc[a] = "connecting"
  /\ Ensure(a)
  /\ \E w \in Workers \ linked :
       /\ \A v \in Workers \ linked : w <= v
       /\ linked' = linked \cup {w}
       /\ feeds' = [feeds EXCEPT ![w] = registered']
       /\ mine' = [mine EXCEPT ![a] = w]
  /\ At(a, "storing")
  /\ UNCHANGED <<registry, members, dying, presence, roster, worker>>

(* ... or the room refuses: the exception ends the session.                *)
WorkerRefused(a) ==
  /\ pc[a] = "connecting"
  /\ At(a, "in")
  /\ dying' = [dying EXCEPT ![a] = TRUE]
  /\ UNCHANGED <<mpvars, registry, members, presence, roster, room>>

(* The worker enters the table once adapter and publisher have started.    *)
WorkerStored(a) ==
  /\ pc[a] = "storing"
  /\ worker' = mine[a]
  /\ mine' = [mine EXCEPT ![a] = NoWorker]
  /\ At(a, "announce")
  /\ UNCHANGED <<mpvars, registry, members, dying, presence, roster, linked, feeds>>

(* _broadcast_participant_update, then _publish_participant_event.         *)
Announced(s) ==
  /\ roster' = [h \in Humans |->
       IF h = s THEN roster[h] \cup (members \ {h})
       ELSE IF h \in members THEN roster[h] \cup {s} ELSE roster[h]]
  /\ presence' = presence \cup {s}

(* Joined is sent; a human also gets the sessions that are already there.  *)
Announce(s) ==
  /\ pc[s] = "announce"
  /\ Announced(s)
  /\ At(s, "in")
  /\ UNCHANGED <<mpvars, registry, members, dying, room>>

-----------------------------------------------------------------------------
(* Audio of a session, which a human may send even after leaving.          *)
Audio(s) ==
  /\ pc[s] \in {"in", "left"}
  /\ ~dying[s]
  /\ FirstAudio(s)
  /\ UNCHANGED <<session, presence, roster, room>>

(* Audio from the room goes to the pipeline object the adapter holds.      *)
RoomAudio(w) ==
  /\ w \in linked
  /\ feeds[w] \in Pipes \ started
  /\ started' = started \cup {feeds[w]}
  /\ announced' = "started"
  /\ UNCHANGED <<tables, consumers, control, session, presence, roster, room>>

-----------------------------------------------------------------------------
(* Mutant: only a voluntary leave is announced.                            *)
AnnounceVoluntary(s, d) ==
  /\ pc[s] = "in"
  /\ step[s] = "in"
  /\ dying[s] => d
  /\ roster' = [h \in Humans |-> IF h \in members THEN roster[h] \ {s} ELSE roster[h]]
  /\ presence' = IF d THEN presence ELSE presence \ {s}
  /\ dying' = [dying EXCEPT ![s] = d]
  /\ At(s, IF s \in Agents THEN "leaving" ELSE "departing")
  /\ UNCHANGED <<mpvars, registry, members, room>>

(* leave_meeting (d = FALSE) or the end of the connection: 'left' is sent  *)
(* to the others and published while the session is still a member.        *)
LeaveBegin(s, d) ==
  /\ pc[s] = "in"
  /\ step[s] = "in"
  /\ dying[s] => d
  /\ roster' = [h \in Humans |-> IF h \in members THEN roster[h] \ {s} ELSE roster[h]]
  /\ presence' = presence \ {s}
  /\ dying' = [dying EXCEPT ![s] = d]
  /\ At(s, IF s \in Agents THEN "leaving" ELSE "departing")
  /\ UNCHANGED <<mpvars, registry, members, room>>

(* HumanSessionHandler leaves the meeting now and, as long as the socket   *)
(* is open, goes on; the pipeline is closed in _cleanup.                   *)
HumanOut(h) ==
  /\ pc[h] = "departing"
  /\ members' = members \ {h}
  /\ At(h, IF dying[h] THEN "leaving" ELSE "left")
  /\ UNCHANGED <<mpvars, registry, dying, presence, roster, room>>

(* _cleanup of a human who left before: nothing is announced again.        *)
HumanDisconnects(h) ==
  /\ h \in Humans
  /\ pc[h] = "left"
  /\ step[h] = "in"
  /\ dying' = [dying EXCEPT ![h] = TRUE]
  /\ At(h, "leaving")
  /\ UNCHANGED <<mpvars, registry, members, presence, roster, room>>

(* Whoever leaves closes the pipeline of the meeting.                      *)
LeavePipeline(s) ==
  /\ pc[s] = "leaving"
  /\ ClosePipeline(s)
  /\ At(s, "closing")
  /\ UNCHANGED <<registry, members, dying, presence, roster, room>>

(* Mutant: the worker is cleaned up before the agent has left.             *)
CleanupBeforeLeave(a) ==
  /\ pc[a] = "closing"
  /\ step[a] = "out"
  /\ a \in Agents
  /\ members' = members \ {a}
  /\ \/ /\ members # {} \/ worker = NoWorker
        /\ At(a, "persisting")
        /\ UNCHANGED <<worker, mine>>
     \/ /\ members = {} /\ worker # NoWorker
        /\ worker' = NoWorker
        /\ mine' = [mine EXCEPT ![a] = worker]
        /\ At(a, "unlinking")
  /\ UNCHANGED <<mpvars, registry, dying, presence, roster, linked, feeds>>

(* An agent leaves the meeting once the pipeline is closed; if nobody is   *)
(* left the worker leaves the table, and its disconnect is awaited.        *)
AgentOut(a) ==
  /\ pc[a] = "closing"
  /\ step[a] = "out"
  /\ a \in Agents
  /\ members' = members \ {a}
  /\ \/ /\ members' # {} \/ worker = NoWorker
        /\ At(a, "persisting")
        /\ UNCHANGED <<worker, mine>>
     \/ /\ members' = {} /\ worker # NoWorker
        /\ worker' = NoWorker
        /\ mine' = [mine EXCEPT ![a] = worker]
        /\ At(a, "unlinking")
  /\ UNCHANGED <<mpvars, registry, dying, presence, roster, linked, feeds>>

WorkerUnlinked(a) ==
  /\ pc[a] = "unlinking"
  /\ linked' = linked \ {mine[a]}
  /\ feeds' = [feeds EXCEPT ![mine[a]] = NoPipe]
  /\ mine' = [mine EXCEPT ![a] = NoWorker]
  /\ At(a, "persisting")
  /\ UNCHANGED <<mpvars, registry, members, dying, presence, roster, worker>>

(* ConnectionManager.unregister                                            *)
Unregister(s) ==
  /\ registry' = registry \ {s}
  /\ members' = members \ {s}
  /\ At(s, "gone")

(* _persist_leave; after a disconnect the session is unregistered.         *)
AgentDone(a) ==
  /\ pc[a] = "persisting"
  /\ IF dying[a] THEN Unregister(a)
     ELSE At(a, "idle") /\ UNCHANGED <<registry, members>>
  /\ UNCHANGED <<mpvars, dying, presence, roster, room>>

AgentDisconnects(a) ==
  /\ pc[a] = "idle"
  /\ Unregister(a)
  /\ UNCHANGED <<mpvars, dying, presence, roster, room>>

HumanDone(h) ==
  /\ h \in Humans
  /\ pc[h] = "closing"
  /\ step[h] = "out"
  /\ Unregister(h)
  /\ UNCHANGED <<mpvars, dying, presence, roster, room>>

-----------------------------------------------------------------------------
(* What goes on by itself once it has begun.                               *)
Proceed(s) ==
  \/ RegisterFull(s) \/ Announce(s) \/ LeavePipeline(s)
  \/ /\ s \in Agents
     /\ \/ RegisterAgent(s) \/ EnsureWorker(s) \/ WorkerLinked(s) \/ WorkerRefused(s)
        \/ WorkerStored(s) \/ AgentOut(s) \/ WorkerUnlinked(s) \/ AgentDone(s)
  \/ /\ s \in Humans
     /\ RegisterHuman(s) \/ HumanOut(s) \/ HumanDone(s)

BridgeReturn(s) == Return(s) /\ UNCHANGED <<session, presence, roster, room>>

Next ==
  \/ \E s \in Users :
       \/ Connect(s) \/ Audio(s) \/ Proceed(s) \/ BridgeReturn(s)
       \/ \E d \in BOOLEAN : LeaveBegin(s, d)
  \/ \E a \in Agents : JoinBegin(a) \/ AgentDisconnects(a)
  \/ \E h \in Humans : HumanDisconnects(h)
  \/ \E p \in Pipes : ConsumerNext(p) /\ UNCHANGED <<session, presence, roster, room>>
  \/ \E w \in Workers : RoomAudio(w)

Spec == Init /\ [][Next]_vars

(* Every await returns.  Nothing makes a session join, send or leave.      *)
Fairness == \A s \in Users : WF_vars(Proceed(s)) /\ WF_vars(BridgeReturn(s))

FairSpec == Spec /\ Fairness

-----------------------------------------------------------------------------
TypeOK ==
  /\ MPTypeOK
  /\ registry \subseteq Users
  /\ members \subseteq Users
  /\ pc \in [Users -> PCs]
  /\ dying \in [Users -> BOOLEAN]
  /\ presence \subseteq Users
  /\ roster \in [Humans -> SUBSET Users]
  /\ worker \in Workers \cup {NoWorker}
  /\ linked \subseteq Workers
  /\ feeds \in [Workers -> Pipes \cup {NoPipe}]
  /\ mine \in [Users -> Workers \cup {NoWorker}]

(* A handler that is not in the middle of something.                       *)
Settled(s) == pc[s] \in {"new", "idle", "left", "gone"} \/ (pc[s] = "in" /\ ~dying[s])

(* Connections that passed the first check together cannot exceed the      *)
(* limit, since register checks again after accept().                      *)
WithinLimit == Cardinality(registry) <= MaxConnections

(* The joined and left events on the stream, from which the API server     *)
(* keeps its presence set, agree with the membership of settled sessions:  *)
(* no leave, crash of a join or disconnect goes unpublished.               *)
PresenceFollowsMembership ==
  \A s \in Users : Settled(s) => (s \in presence <=> s \in members)

(* cleanup_livekit_worker "disconnect[s] and remove[s] the worker when the *)
(* meeting has no participants" (connection_manager.py).                   *)
WorkerHasMembers == worker # NoWorker => members # {}

(* A lost connection ends with the session unregistered, so that it stops  *)
(* counting towards the limit, whatever the other sessions do.             *)
DisconnectsFinish ==
  \A s \in Users : pc[s] = "leaving" /\ dying[s] ~> s \notin registry

(* Neither a leaver that waits for the consumer nor a lost connection is   *)
(* held up for ever (close_pipeline, _cleanup).                            *)
LeaversFinish == DisconnectsFinish /\ ClosesReturn

(* AudioBridge "creates an STT pipeline when an agent joins a meeting,     *)
(* forwards agent audio to the pipeline": a meeting whose sessions are all *)
(* settled has a pipeline for its members.                                 *)
MembersHavePipeline ==
  members # {} /\ (\A s \in Users : Settled(s) /\ step[s] \in {"in", "out"})
    => registered # NoPipe

(* MeetingEnded is "emitted when a meeting ends" (definitions.py): not     *)
(* while somebody else is in it.                                           *)
EndedMeansEmpty ==
  [][\A s \in Users :
       step[s] = "closing" /\ step'[s] = "out" => members \subseteq {s}]_vars

(* ensure_livekit_worker will "get or create" the one worker of a meeting: *)
(* every bot in the room is the one in the table, or just coming or going. *)
OneBotInRoom ==
  \A w \in linked : w = worker \/ \E a \in Agents : mine[a] = w

(* "Send existing participants so the browser knows who's already here"    *)
(* (human_session.py): a browser shows only sessions that are there.       *)
RosterIsCurrent ==
  \A h \in Humans :
    (\A s \in Users : Settled(s)) /\ h \in members => roster[h] \subseteq members

(* The worker "subscribes to remote tracks -> STT" (livekit_worker.py):    *)
(* the audio of the room goes to the meeting's pipeline.                   *)
RoomIsTranscribed ==
  worker # NoWorker /\ registered # NoPipe => feeds[worker] = registered
=============================================================================
