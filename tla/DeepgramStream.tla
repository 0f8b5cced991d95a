---------------------------- MODULE DeepgramStream ----------------------------
(***************************************************************************)
(* kutana_providers/stt/deepgram_stt.py: send_audio, get_transcript and     *)
(* close share one WebSocket attribute, and each of the first two replaces  *)
(* the socket when it finds it lost, with awaits in between.                *)
(***************************************************************************)
EXTENDS Naturals, FiniteSets

CONSTANTS Sockets,      \* names of WebSockets, used again when one is closed
          NoSocket,
          MaxReopens,   \* _MAX_RECONNECT_ATTEMPTS
          MaxDrops      \* bound on lost connections and failed attempts
ASSUME StreamAssumption ==
    NoSocket \notin Sockets /\ MaxReopens \in Nat \ {0} /\ MaxDrops \in Nat

VARIABLES socket,    \* socket -> "free", "open", "lost" or "closed"
          ws,        \* the attribute _ws
          keepalive, \* the socket for which _keepalive_task was made
          heard,     \* the socket that get_transcript reads
          doing,     \* task -> where it is in _reconnect or close
          held,      \* task -> what it awaits there
          tries,     \* task -> failed attempts of this _reconnect
          losses,    \* reconnect_attempts of get_transcript
          drops
streamVars == <<socket, ws, keepalive, heard, doing, held, tries, losses, drops>>

Tasks == {"sender", "receiver", "closer"}

\* start_stream, and the consumer reads
StreamInit ==
    /\ ws = CHOOSE s \in Sockets : TRUE
    /\ socket = [s \in Sockets |-> IF s = ws THEN "open" ELSE "free"]
    /\ keepalive = ws /\ heard = ws
    /\ doing = [t \in Tasks |-> "idle"]
    /\ held = [t \in Tasks |-> NoSocket]
    /\ tries = [t \in Tasks |-> 0]
    /\ losses = 0 /\ drops = 0

Go(t, to, what) ==
    /\ doing' = [doing EXCEPT ![t] = to]
    /\ held' = [held EXCEPT ![t] = what]
\* Only a keepalive task that is there is cancelled and awaited.
StopKeepalive(t, next) ==
    IF keepalive # NoSocket THEN Go(t, "stopping", keepalive) ELSE Go(t, next, NoSocket)
\* _reconnect closes whatever socket the attribute names by now.
Reconnect(t) ==
    /\ tries' = [tries EXCEPT ![t] = 0]
    /\ IF ws # NoSocket THEN Go(t, "closing", ws) ELSE StopKeepalive(t, "opening")

\* send_audio without a stream fails; on a socket that is gone it reconnects
\* and sends again, whatever the attribute holds then.
SendFails ==
    /\ doing["sender"] = "idle" /\ ws # NoSocket /\ socket[ws] # "open"
    /\ Reconnect("sender")
    /\ UNCHANGED <<socket, ws, keepalive, heard, losses, drops>>

\* A message that was received resets the count of losses.
Hears ==
    /\ doing["receiver"] = "idle" /\ socket[heard] = "open"
    /\ losses' = 0
    /\ UNCHANGED <<socket, ws, keepalive, heard, doing, held, tries, drops>>
\* get_transcript: a closed socket just ends the iteration, a lost one counts.
HearingEnds ==
    /\ doing["receiver"] = "idle" /\ socket[heard] # "open"
    /\ \/ /\ socket[heard] = "lost" /\ losses = MaxReopens
          /\ Go("receiver", "gone", NoSocket)
          /\ UNCHANGED <<tries, losses>>
       \/ /\ ~(socket[heard] = "lost" /\ losses = MaxReopens)
          /\ losses' = IF losses = MaxReopens THEN losses ELSE losses + 1
          /\ Reconnect("receiver")
    /\ UNCHANGED <<socket, ws, keepalive, heard, drops>>

\* After ws.close() the attribute is cleared, also if it names a new socket.
SocketClosed(t) ==
    /\ doing[t] = "closing"
    /\ socket' = [socket EXCEPT ![held[t]] = "closed"]
    /\ ws' = NoSocket
    /\ IF t = "closer" THEN Go(t, "gone", NoSocket) ELSE StopKeepalive(t, "opening")
    /\ UNCHANGED <<keepalive, heard, tries, losses, drops>>
KeepaliveStopped(t) ==
    /\ doing[t] = "stopping"
    /\ keepalive' = NoSocket
    /\ IF t # "closer" THEN Go(t, "opening", NoSocket)
       ELSE IF ws # NoSocket THEN Go(t, "closing", ws) ELSE Go(t, "gone", NoSocket)
    /\ UNCHANGED <<socket, ws, heard, tries, losses, drops>>

\* Mutant: the receiver goes on with the iterator it has.
ReopenedUnheard(t, s) ==
    /\ doing[t] = "opening"
    /\ socket' = [socket EXCEPT ![s] = "open"]
    /\ ws' = s /\ keepalive' = s /\ heard' = heard
    /\ Go(t, "idle", NoSocket)
    /\ UNCHANGED <<tries, losses, drops>>
\* _open_ws succeeds; the receiver reads the new socket at once.
Reopened(t, s) ==
    /\ doing[t] = "opening"
    /\ socket' = [socket EXCEPT ![s] = "open"]
    /\ ws' = s /\ keepalive' = s
    /\ heard' = IF t = "receiver" THEN s ELSE heard
    /\ Go(t, "idle", NoSocket)
    /\ UNCHANGED <<tries, losses, drops>>
\* The last attempt raises: the chunk is lost to the caller, and the receiver
\* stops for good.
ReopenFails(t) ==
    /\ doing[t] = "opening" /\ drops < MaxDrops
    /\ drops' = drops + 1
    /\ tries' = [tries EXCEPT ![t] = @ + 1]
    /\ IF tries'[t] < MaxReopens THEN UNCHANGED <<doing, held>>
       ELSE Go(t, IF t = "receiver" THEN "gone" ELSE "idle", NoSocket)
    /\ UNCHANGED <<socket, ws, keepalive, heard, losses>>

\* close(), after the consumer has been cancelled.
CloseStream ==
    /\ doing["closer"] = "idle"
    /\ LET next == IF keepalive # NoSocket THEN <<"stopping", keepalive>>
                   ELSE IF ws # NoSocket THEN <<"closing", ws>> ELSE <<"gone", NoSocket>> IN
       /\ doing' = [doing EXCEPT !["closer"] = next[1], !["receiver"] = "gone"]
       /\ held' = [held EXCEPT !["closer"] = next[2], !["receiver"] = NoSocket]
    /\ UNCHANGED <<socket, ws, keepalive, heard, tries, losses, drops>>

\* Deepgram drops a connection, with or without a close frame.
Dropped(s) ==
    /\ socket[s] = "open" /\ drops < MaxDrops
    /\ drops' = drops + 1
    /\ \E how \in {"lost", "closed"} : socket' = [socket EXCEPT ![s] = how]
    /\ UNCHANGED <<ws, keepalive, heard, doing, held, tries, losses>>
\* "Deepgram times out after ~12s of silence": a socket that the attribute
\* does not name gets neither audio nor keepalives.
SilenceDrops(s) ==
    /\ socket[s] = "open" /\ s # ws
    /\ \E how \in {"lost", "closed"} : socket' = [socket EXCEPT ![s] = how]
    /\ UNCHANGED <<ws, keepalive, heard, doing, held, tries, losses, drops>>

\* A name that nobody uses any more can be used again.
Forgotten(s) ==
    /\ socket[s] \in {"lost", "closed"}
    /\ s \notin {ws, keepalive, heard} \cup {held[t] : t \in Tasks}
    /\ socket' = [socket EXCEPT ![s] = "free"]
    /\ UNCHANGED <<ws, keepalive, heard, doing, held, tries, losses, drops>>

Unused == {s \in Sockets : socket[s] = "free"}
Advances(t) ==
    \/ SocketClosed(t) \/ KeepaliveStopped(t)
    \/ Unused # {} /\ Reopened(t, CHOOSE s \in Unused : TRUE)
StreamNext ==
    \/ SendFails \/ Hears \/ HearingEnds \/ CloseStream
    \/ \E t \in Tasks : Advances(t) \/ ReopenFails(t)
    \/ \E s \in Sockets : Dropped(s) \/ SilenceDrops(s) \/ Forgotten(s)
-----------------------------------------------------------------------------
\* Sender and receiver that both reconnect, close each other's sockets and
\* clear each other's attributes come to rest: in the end the receiver reads
\* the socket to which the sender writes, or it has stopped, and the bridge
\* replaces the provider (get_transcript, _reconnect).
TheyMeetAgain ==
    <>[](doing["receiver"] = "gone" \/ (heard = ws /\ socket[heard] = "open"))
=============================================================================
