------------------------------ MODULE AudioRoom ------------------------------
(***************************************************************************)
(* agent_gateway/audio_router.py and audio_session.py: the audio sidecars   *)
(* of one meeting.  A router hands what one session says to the others and  *)
(* tells all of them who starts and stops to speak; its monitor stops who   *)
(* has been silent.  The connection manager has a table of routers, from    *)
(* which the last session to leave removes its meeting's.                   *)
(* Queues do not act on each other, and that of one session is looked at.   *)
(***************************************************************************)
EXTENDS Naturals, Sequences, SequencesExt

CONSTANTS Sidecars,  \* audio sessions, each of which connects once
          AgentOf,   \* the agent a session belongs to
          Listeners, \* those whose queue may be looked at
          QueueMax   \* _OUTBOUND_QUEUE_MAX
ASSUME AudioAssumption ==
    QueueMax \in Nat \ {0} /\ IsFiniteSet(Sidecars) /\ Listeners \subseteq Sidecars

VARIABLES link,       \* session -> "new", "on", "ending", "cleaning", "gone"
          router,     \* session -> the number of its router, or 0
          made,       \* routers made so far
          mapped,     \* the router in the table of the connection manager, or 0
          monitored,  \* routers whose monitor runs
          speaking,   \* sessions whose is_speaking is set
          active,     \* sessions in _active_speakers of their router
          silent,     \* those of them whose last audio is past the timeout
          listener,   \* the session whose queue is looked at (chosen first)
          outbound,   \* its outbound queue
          deaf,       \* has it missed a message?
          mute,       \* has its outbound loop ended early?
          believes,   \* agents its client takes to be speaking
          raced       \* has a session come to a router that is being stopped?
audioVars == <<link, router, made, mapped, monitored, speaking, active, silent,
               listener, outbound, deaf, mute, believes, raced>>
queueVars == <<listener, outbound, deaf, mute, believes>>
tableVars == <<router, made, mapped, monitored, raced>>

AudioInit ==
    /\ link = [s \in Sidecars |-> "new"]
    /\ router = [s \in Sidecars |-> 0]
    /\ made = 0 /\ mapped = 0 /\ monitored = {}
    /\ speaking = {} /\ active = {} /\ silent = {} /\ raced = FALSE
    /\ listener \in Listeners
    /\ outbound = <<>> /\ deaf = FALSE /\ mute = FALSE /\ believes = {}

InRoom(r) == {s \in Sidecars : router[s] = r /\ link[s] \in {"on", "ending"}}

\* A queue that is full drops what comes, whatever it is.
Post(ls, msgs) ==
    LET q == IF listener \in ls THEN outbound \o msgs ELSE outbound IN
    /\ outbound' = SubSeq(q, 1, Min({Len(q), QueueMax}))
    /\ deaf' = (deaf \/ Len(q) > QueueMax)
    /\ UNCHANGED <<listener, mute, believes>>
Announce(s, action) == Post(InRoom(router[s]), <<<<action, AgentOf[s]>>>>)

\* audio_connect: the router is in the table, or a new one is started.  The
\* loops begin after "audio_session_joined"; until then messages only queue.
ConnectAudio(s) ==
    /\ link[s] = "new"
    /\ link' = [link EXCEPT ![s] = "on"]
    /\ made' = IF mapped = 0 THEN made + 1 ELSE made
    /\ mapped' = IF mapped = 0 THEN made' ELSE mapped
    /\ monitored' = IF mapped = 0 THEN monitored \cup {made'} ELSE monitored
    /\ router' = [router EXCEPT ![s] = mapped']
    /\ raced' = (raced \/ \E t \in Sidecars : link[t] = "cleaning")
    /\ UNCHANGED <<speaking, active, silent, queueVars>>
\* What the client says; saying it twice changes nothing.
StartSpeaking(s) ==
    /\ link[s] = "on" /\ s \notin speaking
    /\ speaking' = speaking \cup {s}
    /\ active' = active \cup {s} /\ silent' = silent \ {s}
    /\ Announce(s, "started")
    /\ UNCHANGED <<link, tableVars>>
StopSpeaking(s) ==
    /\ link[s] = "on" /\ s \in speaking
    /\ speaking' = speaking \ {s}
    /\ active' = active \ {s} /\ silent' = silent \ {s}
    /\ Announce(s, "stopped")
    /\ UNCHANGED <<link, tableVars>>
\* route_audio: everybody but the sender.
AudioData(s) ==
    /\ link[s] = "on" /\ s \in speaking \cap active
    /\ silent' = silent \ {s}
    /\ Post(InRoom(router[s]) \ {s}, <<<<"audio">>>>)
    /\ UNCHANGED <<link, tableVars, speaking, active>>

\* _silence_clock fills ticks without audio.
SilenceClock ==
    /\ link[listener] = "on"
    /\ Post({listener}, <<<<"audio">>>>)
    /\ UNCHANGED <<link, tableVars, speaking, active, silent>>

\* _outbound_loop: a send that fails ends the loop, not the session.
SendOutbound ==
    /\ link[listener] = "on" /\ ~mute /\ outbound # <<>>
    /\ LET msg == Head(outbound) IN
       /\ outbound' = Tail(outbound)
       /\ \/ /\ believes' = CASE msg[1] = "started" -> believes \cup {msg[2]}
                               [] msg[1] = "stopped" -> believes \ {msg[2]}
                               [] OTHER -> believes
             /\ UNCHANGED <<deaf, mute>>
          \/ deaf' = TRUE /\ mute' = TRUE /\ UNCHANGED believes
    /\ UNCHANGED <<link, tableVars, speaking, active, silent, listener>>

TimeoutPasses(s) ==
    /\ s \in active \ silent
    /\ silent' = silent \cup {s}
    /\ UNCHANGED <<link, tableVars, speaking, active, queueVars>>

TimedOut(r) == silent \cap InRoom(r)

\* Mutant: the session is told, the room is not.
CheckVadQuietly(r) ==
    /\ r \in monitored /\ TimedOut(r) # {}
    /\ active' = active \ TimedOut(r)
    /\ silent' = silent \ TimedOut(r)
    /\ speaking' = speaking \ TimedOut(r)
    /\ UNCHANGED <<link, tableVars, queueVars>>

\* _check_vad, once a second.
CheckVad(r) ==
    /\ r \in monitored /\ TimedOut(r) # {}
    /\ active' = active \ TimedOut(r)
    /\ silent' = silent \ TimedOut(r)
    /\ speaking' = speaking \ TimedOut(r)
    /\ \E order \in SetToSeqs(TimedOut(r)) :
           Post(InRoom(r), [i \in DOMAIN order |-> <<"stopped", AgentOf[order[i]]>>])
    /\ UNCHANGED <<link, tableVars>>

\* The inbound loop is over, and the other two are cancelled.
InboundEnds(s) ==
    /\ link[s] = "on"
    /\ link' = [link EXCEPT ![s] = "ending"]
    /\ UNCHANGED <<tableVars, speaking, active, silent, queueVars>>

\* _cleanup, and cleanup_audio_router up to its await: whatever router the
\* table holds is stopped if it is empty.
CleanupAudio(s) ==
    /\ link[s] = "ending"
    /\ speaking' = speaking \ {s} /\ active' = active \ {s} /\ silent' = silent \ {s}
    /\ IF s \in speaking THEN Announce(s, "stopped") ELSE UNCHANGED queueVars
    /\ LET empty == mapped # 0 /\ InRoom(mapped) \ {s} = {} IN
       /\ link' = [link EXCEPT ![s] = IF empty THEN "cleaning" ELSE "gone"]
       /\ monitored' = IF empty THEN monitored \ {mapped} ELSE monitored
    /\ UNCHANGED <<router, made, mapped, raced>>
\* The entry is deleted whoever has joined since; if it is gone already, a
\* KeyError ends the handler.
RouterStopped(s) ==
    /\ link[s] = "cleaning"
    /\ link' = [link EXCEPT ![s] = "gone"]
    /\ mapped' = 0
    /\ UNCHANGED <<router, made, monitored, raced, speaking, active, silent,
                   queueVars>>

SidecarStep(s) ==
    \/ ConnectAudio(s) \/ StartSpeaking(s) \/ StopSpeaking(s)
    \/ AudioData(s) \/ TimeoutPasses(s)
    \/ InboundEnds(s) \/ CleanupAudio(s) \/ RouterStopped(s)
AudioNext ==
    \/ \E s \in Sidecars : SidecarStep(s)
    \/ SilenceClock \/ SendOutbound
    \/ \E r \in 1 .. made : CheckVad(r)
-----------------------------------------------------------------------------
\* A session counts as speaking exactly if its router takes it to be; a
\* client that has missed no message and has none waiting takes nobody to be
\* speaking who is not; and whoever speaks is in a room that is watched,
\* unless a session came while its router was being stopped
\* (broadcast_speaker_changed, on_vad_silence_timeout, cleanup_audio_router).
ViewsAreTrue ==
    /\ speaking = active
    /\ link[listener] = "on" /\ ~deaf /\ outbound = <<>> =>
           believes \subseteq {AgentOf[s] : s \in active \cap InRoom(router[listener])}
    /\ raced \/ \A s \in active : router[s] \in monitored
=============================================================================
