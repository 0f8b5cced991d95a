------------------------------ MODULE McpServer ------------------------------
(***************************************************************************)
(* services/mcp-server: the tools an agent calls, one process.  Calls run   *)
(* concurrently and share the globals of main.py: the identity and the one  *)
(* GatewayClient, whose listener buffers what the gateway sends.  The       *)
(* gateway's side of such a connection is the session of agent_session.py,  *)
(* reduced to joining, leaving, subscribing and publishing; EventRelay      *)
(* feeds it.  What the tools do to turns, tasks and summaries is in         *)
(* TurnQueue and Records: here these calls only take their time.            *)
(***************************************************************************)
EXTENDS EventRelay, RateLimiter, SequencesExt

CONSTANTS Calls,     \* slots for concurrent calls
          Meetings,
          Scenes,    \* sets of tools that are used together, and what happens
          Granted,   \* scopes in the agent's token
          MaxOutbox, \* messages a socket takes before its sender must wait
          MaxStream  \* the longest stream of a scene
ASSUME McpAssumption ==
    /\ Conns # {}
    /\ Meeting \in Meetings /\ None \notin Meetings
    /\ MaxOutbox \in Nat \ {0}
    /\ \A s \in Scenes : /\ s.running \subseteq Gateways /\ IsFiniteSet(s.running)
                          /\ s.events \in 0 .. MaxStream /\ s.faults \in Nat

VARIABLES identity,  \* is there an _mcp_identity?
          client,    \* _gateway_client: a connection or None
          call,      \* call -> its tool, where it stands and what it has in hand
          gc,        \* connection -> its GatewayClient
          outbox,    \* connection -> messages on their way to the gateway
          replies,   \* connections whose session is about to send "joined"
          rooms,     \* meeting -> its status in the database
          clean      \* no session calls have overlapped, no join has failed
mcpVars == <<identity, client, call, gc, outbox, replies, rooms, clean>>
serverVars == <<relayVars, limiterVars, mcpVars>>

Joined == 0  \* the answer to a join; other messages are entries of the stream
NoCall == [tool |-> "none", at |-> "idle", conn |-> None, mid |-> None, now |-> 0]
NewClient == [ws |-> "new", meetingId |-> None, listening |-> FALSE, subscribed |-> {}, heard |-> <<>>]
InMeeting == IF client = None THEN FALSE ELSE gc[client].meetingId # None
Unused == {k \in Conns : gc[k].ws = "new" /\ client # k /\ \A c \in Calls : call[c].conn # k}

SessionTools == {"join_meeting", "leave_meeting", "join_or_create_meeting"}
\* These look whether there is a meeting before anything else.
Guarded == {"leave_meeting", "get_transcript", "get_participants", "subscribe_channel",
            "publish_to_channel", "get_channel_messages", "get_meeting_events"}
Managing == SessionTools \cup {"create_new_meeting", "start_meeting_session", "end_meeting_session"}
Chatting == {"send_chat_message", "publish_to_channel", "set_context"}
Turning == {"raise_hand", "mark_finished_speaking", "cancel_hand_raise", "speak"}
Scope(t) ==
    CASE t \in Managing -> "meetings:join" [] t \in Chatting -> "meetings:chat"
      [] t \in Turning -> "turns:manage" [] t = "create_task" -> "tasks:write"
      [] OTHER -> "meetings:read"

\* An agent that has no tool to join is in the meeting from the start.
AlwaysIn == scene.tools \cap {"join_meeting", "join_or_create_meeting"} = {}
McpInit ==
    LET k == CHOOSE k \in Conns : TRUE IN
    /\ identity = AlwaysIn
    /\ client = IF AlwaysIn THEN k ELSE None
    /\ call = [c \in Calls |-> NoCall]
    /\ gc = [x \in Conns |->
                IF AlwaysIn /\ x = k
                THEN [NewClient EXCEPT !.ws = "up", !.meetingId = Meeting, !.listening = TRUE]
                ELSE NewClient]
    /\ outbox = [x \in Conns |-> <<>>]
    /\ replies = {}
    /\ rooms = [m \in Meetings |-> IF AlwaysIn /\ m = Meeting THEN "active" ELSE "none"]
    /\ clean = TRUE
    /\ inside = [x \in Conns |-> gc[x].meetingId]
    /\ home \in [Conns -> scene.running \cup {None}]
    /\ \A x \in Conns : home[x] = None <=> gc[x].ws = "new"
    /\ wants = [x \in Conns |-> {}]
-----------------------------------------------------------------------------
(* Calls: identity, scope, rate limit, and then what the tool does.         *)

On(c, t, at) == call[c].tool = t /\ call[c].at = at
Goes(c, at) == call' = [call EXCEPT ![c].at = at]
Ends(c) == call' = [call EXCEPT ![c] = NoCall]

\* What a step leaves alone that moves calls, the client or the database.
Elsewhere == UNCHANGED <<relayVars, limiterVars, replies>>
CallOnly == UNCHANGED <<identity, client, gc, outbox, rooms, clean>> /\ Elsewhere

\* _security_check up to its await.  kutana_start_speaking has none.
SecurityCheck(c, t) ==
    call' = [call EXCEPT ![c] =
                 IF t = "start_speaking" THEN [NoCall EXCEPT !.tool = t, !.at = "act"]
                 ELSE IF Scope(t) \in Granted
                 THEN [NoCall EXCEPT !.tool = t, !.at = "limit", !.now = clock]
                 ELSE NoCall]

\* _ensure_authenticated: an identity is kept for good; without one the API
\* key is exchanged first.
Receive(c, t) ==
    /\ call[c] = NoCall /\ c \in scene.calls /\ t \in scene.tools
    /\ t \in Guarded => InMeeting
    /\ IF identity THEN SecurityCheck(c, t)
       ELSE call' = [call EXCEPT ![c] = [NoCall EXCEPT !.tool = t, !.at = "token"]]
    /\ clean' = (clean /\ (t \in SessionTools => \A d \in Calls : call[d].tool \notin SessionTools))
    /\ UNCHANGED <<identity, client, gc, outbox, rooms>> /\ Elsewhere
ExchangeForMcpToken(c) ==
    /\ call[c].at = "token"
    /\ \/ identity' = TRUE /\ SecurityCheck(c, call[c].tool)
       \/ Ends(c) /\ UNCHANGED identity
    /\ UNCHANGED <<client, gc, outbox, rooms, clean>> /\ Elsewhere

\* One tool is followed through its window; the others pass or do not.
RateLimit(c) ==
    /\ call[c].at = "limit"
    /\ \E allowed \in BOOLEAN :
           /\ IF call[c].tool = "raise_hand" THEN Check(call[c].now, allowed)
              ELSE UNCHANGED limiterVars
           /\ IF allowed THEN Goes(c, "act") ELSE Ends(c)
    /\ UNCHANGED <<identity, client, gc, outbox, replies, rooms, clean, relayVars>>
\* When Redis does not answer the call passes.
LimiterFails(c) == call[c].at = "limit" /\ Goes(c, "act") /\ CallOnly

TimePasses ==
    /\ "raise_hand" \in scene.tools
    /\ \A c \in Calls : call[c].at = "limit" => clock < call[c].now + Delay
    /\ Tick
    /\ UNCHANGED <<mcpVars, relayVars>>
-----------------------------------------------------------------------------
(* Joining and leaving.                                                     *)

\* Both ways to join meet here: another API key exchange, a GatewayClient
\* that becomes the global one, a socket, and a first message from the
\* gateway that must be "joined".
Joins(c, m) ==
    call' = [call EXCEPT ![c] = IF InMeeting THEN NoCall ELSE [@ EXCEPT !.at = "exchange", !.mid = m]]

kutana_join_meeting(c) ==
    /\ On(c, "join_meeting", "act")
    /\ \E m \in Meetings : Joins(c, m)
    /\ CallOnly

ExchangeForGatewayToken(c) ==
    /\ call[c].at = "exchange"
    /\ \/ \E k \in Unused :
              /\ client' = k
              /\ call' = [call EXCEPT ![c].at = "connect", ![c].conn = k]
       \/ Ends(c) /\ UNCHANGED client
    /\ UNCHANGED <<identity, gc, outbox, rooms, clean>> /\ Elsewhere

Connect(c) ==
    LET k == call[c].conn IN
    /\ call[c].at = "connect"
    /\ \/ /\ gc' = [gc EXCEPT ![k].ws = "up"]
          /\ \E g \in scene.running : home' = [home EXCEPT ![k] = g]
          /\ outbox' = [outbox EXCEPT ![k] = << <<"join", call[c].mid>> >>]
          /\ Goes(c, "joined")
          /\ UNCHANGED clean
       \/ Ends(c) /\ clean' = FALSE /\ UNCHANGED <<gc, home, outbox>>
    /\ UNCHANGED <<identity, client, replies, rooms, limiterVars,
                   scene, stream, group, hand, targets, inside, wants, wire, faults>>

\* Mutant: the answer is awaited without a timeout, and "disconnected" taken
\* for nothing new.
AwaitJoinedForever(c) ==
    LET k == call[c].conn IN
    /\ call[c].at = "joined"
    /\ wire[k] # <<>> /\ Head(wire[k]) = Joined
    /\ gc' = [gc EXCEPT ![k].meetingId = call[c].mid, ![k].listening = TRUE]
    /\ wire' = [wire EXCEPT ![k] = Tail(@)]
    /\ Ends(c)
    /\ UNCHANGED <<identity, client, outbox, replies, rooms, clean, limiterVars,
                   scene, stream, group, hand, targets, home, inside, wants, faults>>

\* After ten seconds, or when the socket is gone, the call ends with an
\* error; like a wrong first message that leaves the socket as it is.
AwaitJoined(c) ==
    LET k == call[c].conn IN
    /\ call[c].at = "joined"
    /\ \/ /\ wire[k] # <<>> /\ Head(wire[k]) = Joined
          /\ gc' = [gc EXCEPT ![k].meetingId = call[c].mid, ![k].listening = TRUE]
          /\ UNCHANGED <<faults, clean>>
       \/ /\ (wire[k] # <<>> /\ Head(wire[k]) # Joined) \/ home[k] = None
          /\ clean' = FALSE /\ UNCHANGED <<gc, faults>>
       \/ Fault /\ clean' = FALSE /\ UNCHANGED gc
    /\ wire' = [wire EXCEPT ![k] = IF @ = <<>> THEN @ ELSE Tail(@)]
    /\ Ends(c)
    /\ UNCHANGED <<identity, client, outbox, replies, rooms, limiterVars,
                   scene, stream, group, hand, targets, home, inside, wants>>

\* Mutant: the socket is left to the garbage collector.
LeaveWithoutClosing(c) ==
    /\ On(c, "leave_meeting", "act")
    /\ Ends(c)
    /\ client' = None
    /\ gc' = IF client = None THEN gc ELSE [gc EXCEPT ![client].meetingId = None]
    /\ UNCHANGED <<identity, outbox, rooms, clean>> /\ Elsewhere

\* leave(): "leave_meeting" is sent, whether it arrives or not, the socket
\* closed, the listener cancelled; the global is reset at the end, whatever
\* it has become.
kutana_leave_meeting(c) ==
    /\ On(c, "leave_meeting", "act")
    /\ IF client = None THEN Ends(c) /\ UNCHANGED outbox
       ELSE LET up == gc[client].ws = "up" IN
            /\ call' = [call EXCEPT ![c].at = IF up THEN "close" ELSE "unlisten", ![c].conn = client]
            /\ outbox' = IF up THEN [outbox EXCEPT ![client] = Append(@, <<"leave">>)] ELSE outbox
    /\ UNCHANGED <<identity, client, gc, rooms, clean>> /\ Elsewhere
\* Another call may have set _ws to None: then close() is no method of it.
CloseSocket(c) ==
    LET k == call[c].conn IN
    /\ call[c].at = "close"
    /\ IF gc[k].ws = "none" THEN Ends(c) ELSE Goes(c, "unlisten")
    /\ gc' = [gc EXCEPT ![k].ws = "none"]
    /\ UNCHANGED <<identity, client, outbox, rooms, clean>> /\ Elsewhere
StopListening(c) ==
    LET k == call[c].conn IN
    /\ call[c].at = "unlisten"
    /\ gc' = [gc EXCEPT ![k].listening = FALSE, ![k].meetingId = None]
    /\ client' = None
    /\ Ends(c)
    /\ UNCHANGED <<identity, outbox, rooms, clean>> /\ Elsewhere
-----------------------------------------------------------------------------
(* Meetings of one title at the API server.                                 *)

ApiOnly == UNCHANGED <<identity, client, gc, outbox, clean>> /\ Elsewhere
Room(m, from, to) == rooms[m] = from /\ rooms' = [rooms EXCEPT ![m] = to]

kutana_create_meeting(c) ==
    /\ On(c, "create_new_meeting", "act")
    /\ \E m \in Meetings : Room(m, "none", "new")
    /\ Ends(c) /\ ApiOnly
kutana_start_meeting(c) ==
    /\ On(c, "start_meeting_session", "act")
    /\ \E m \in Meetings : Room(m, "new", "active")
    /\ Ends(c) /\ ApiOnly
kutana_end_meeting(c) ==
    /\ On(c, "end_meeting_session", "act")
    /\ \E m \in Meetings : Room(m, "active", "completed")
    /\ Ends(c) /\ ApiOnly

\* Listing, creating and starting are three requests.
kutana_join_or_create_meeting(c) ==
    /\ call[c].tool = "join_or_create_meeting"
    /\ LET m == call[c].mid
           active == {x \in Meetings : rooms[x] = "active"} IN
       \/ /\ call[c].at = "act" /\ UNCHANGED rooms
          /\ IF active = {} THEN Goes(c, "create") ELSE \E x \in active : Joins(c, x)
       \/ /\ call[c].at = "create"
          /\ \E x \in Meetings :
                 /\ Room(x, "none", "new")
                 /\ call' = [call EXCEPT ![c].at = "start", ![c].mid = x]
       \/ call[c].at = "start" /\ Room(m, "new", "active") /\ Joins(c, m)
    /\ ApiOnly

\* A request is refused, or its answer is lost.
Requesting == {"list_meetings", "get_tasks", "create_task", "get_summary", "create_new_meeting",
               "start_meeting_session", "end_meeting_session", "join_or_create_meeting"}
ApiFails(c) ==
    /\ call[c].tool \in Requesting /\ call[c].at \in {"act", "create", "start"}
    /\ Ends(c)
    /\ CallOnly
-----------------------------------------------------------------------------
(* Tools that use the global client as it is when they get to it: another   *)
(* call may have replaced it, and without one they end with an error.       *)

SocketIsUp == IF client = None THEN FALSE ELSE gc[client].ws = "up" /\ home[client] # None

\* A socket that is up takes a message when there is room; one that is gone
\* raises.
Sends(msg) ==
    /\ SocketIsUp
    /\ Len(outbox[client]) < MaxOutbox
    /\ outbox' = [outbox EXCEPT ![client] = Append(@, msg)]
CannotSend == ~SocketIsUp /\ UNCHANGED outbox

kutana_subscribe_channel(c) ==
    /\ On(c, "subscribe_channel", "act")
    /\ \E ch \in Channels :
           /\ gc' = IF client = None THEN gc ELSE [gc EXCEPT ![client].subscribed = @ \cup {ch}]
           /\ Sends(<<"subscribe", ch>>) \/ CannotSend
    /\ Ends(c)
    /\ UNCHANGED <<identity, client, rooms, clean>> /\ Elsewhere
kutana_publish_to_channel(c) ==
    /\ On(c, "publish_to_channel", "act")
    /\ CannotSend \/ \E ch \in Channels : Sends(<<"data", ch>>)
    /\ Ends(c)
    /\ UNCHANGED <<identity, client, gc, rooms, clean>> /\ Elsewhere
\* The context goes to the meeting of the client, not to the one named.
kutana_set_context(c) ==
    /\ On(c, "set_context", "act")
    /\ (~InMeeting /\ UNCHANGED outbox) \/ CannotSend \/ \E ch \in Channels : Sends(<<"data", ch>>)
    /\ Ends(c)
    /\ UNCHANGED <<identity, client, gc, rooms, clean>> /\ Elsewhere

\* Three messages, each to the client of the moment, then the turn ends.
kutana_speak(c) ==
    LET says(at, msg, then) ==
            /\ call[c].at = at
            /\ \/ Sends(<<msg>>) /\ Goes(c, then)
               \/ CannotSend /\ Ends(c)
    IN
    /\ call[c].tool = "speak"
    /\ \/ call[c].at = "act" /\ ~InMeeting /\ Ends(c) /\ UNCHANGED outbox
       \/ InMeeting /\ says("act", "start_speaking", "text")
       \/ says("text", "spoken_text", "stop")
       \/ says("stop", "stop_speaking", "finish")
       \/ call[c].at = "finish" /\ Ends(c) /\ UNCHANGED outbox
    /\ UNCHANGED <<identity, client, gc, rooms, clean>> /\ Elsewhere

\* These look into a buffer of the client, or wait for the API, the turn
\* manager or the chat store; what they change there is modelled there.
Answers(c, t) == On(c, t, "act") /\ Ends(c) /\ CallOnly
kutana_get_transcript(c) == Answers(c, "get_transcript")
kutana_get_participants(c) == Answers(c, "get_participants")
kutana_get_channel_messages(c) == Answers(c, "get_channel_messages")
kutana_get_meeting_events(c) == Answers(c, "get_meeting_events")
kutana_list_meetings(c) == Answers(c, "list_meetings")
kutana_get_tasks(c) == Answers(c, "get_tasks")
kutana_create_task(c) == Answers(c, "create_task")
kutana_get_summary(c) == Answers(c, "get_summary")
kutana_raise_hand(c) == Answers(c, "raise_hand")
kutana_get_queue_status(c) == Answers(c, "get_queue_status")
kutana_start_speaking(c) == Answers(c, "start_speaking")
kutana_mark_finished_speaking(c) == Answers(c, "mark_finished_speaking")
kutana_cancel_hand_raise(c) == Answers(c, "cancel_hand_raise")
kutana_get_speaking_status(c) == Answers(c, "get_speaking_status")
kutana_send_chat_message(c) == Answers(c, "send_chat_message")
kutana_get_chat_messages(c) == Answers(c, "get_chat_messages")
kutana_get_meeting_status(c) == Answers(c, "get_meeting_status")
-----------------------------------------------------------------------------
(* The listener of the client and the session at the gateway.               *)

\* _listen keeps transcripts, and the channels the client has subscribed to.
Listen(k) ==
    /\ gc[k].listening /\ wire[k] # <<>>
    /\ LET n == Head(wire[k]) IN
       gc' = IF n # Joined /\ (stream[n] = "transcript" \/ stream[n] \in gc[k].subscribed)
             THEN [gc EXCEPT ![k].heard = Append(@, n)] ELSE gc
    /\ wire' = [wire EXCEPT ![k] = Tail(@)]
    /\ UNCHANGED <<identity, client, call, outbox, replies, rooms, clean, limiterVars,
                   scene, stream, group, hand, targets, sessionVars, faults>>

\* _dispatch, one message after the other.  A join enters the table of the
\* meeting first; pipeline, LiveKit and database come before its answer.
HandleMessage(k) ==
    LET msg == Head(outbox[k]) IN
    /\ home[k] # None /\ k \notin replies /\ outbox[k] # <<>>
    /\ outbox' = [outbox EXCEPT ![k] = Tail(@)]
    /\ \/ /\ msg[1] = "join"
          /\ inside' = [inside EXCEPT ![k] = msg[2]]
          /\ replies' = replies \cup {k} /\ UNCHANGED <<wants, stream>>
       \/ /\ msg[1] = "leave"
          /\ inside' = [inside EXCEPT ![k] = None] /\ UNCHANGED <<replies, wants, stream>>
       \/ /\ msg[1] = "subscribe"
          /\ wants' = [wants EXCEPT ![k] = @ \cup {msg[2]}] /\ UNCHANGED <<replies, inside, stream>>
       \/ /\ msg[1] = "data"
          /\ \/ inside[k] = Meeting /\ Len(stream) < scene.events /\ stream' = Append(stream, msg[2])
             \/ UNCHANGED stream  \* not in a meeting, or Redis failed
          /\ UNCHANGED <<replies, inside, wants>>
       \/ /\ msg[1] \in {"start_speaking", "spoken_text", "stop_speaking"}
          /\ UNCHANGED <<replies, inside, wants, stream>>
    /\ UNCHANGED <<identity, client, call, gc, rooms, clean, limiterVars,
                   scene, group, hand, targets, home, wire, faults>>
SendJoined(k) ==
    /\ k \in replies
    /\ replies' = replies \ {k}
    /\ wire' = [wire EXCEPT ![k] = Append(@, Joined)]
    /\ UNCHANGED <<identity, client, call, gc, outbox, rooms, clean, limiterVars,
                   scene, stream, group, hand, targets, sessionVars, faults>>

\* _cleanup, when the socket is closed or fails.
SessionEnds(k) ==
    /\ home[k] # None
    /\ (gc[k].ws = "none" /\ outbox[k] = <<>> /\ k \notin replies /\ UNCHANGED faults) \/ Fault
    /\ home' = [home EXCEPT ![k] = None]
    /\ inside' = [inside EXCEPT ![k] = None]
    /\ outbox' = [outbox EXCEPT ![k] = <<>>]
    /\ replies' = replies \ {k}
    /\ UNCHANGED <<identity, client, call, gc, rooms, clean, limiterVars,
                   scene, stream, group, hand, targets, wants, wire>>
-----------------------------------------------------------------------------
ServerInit == scene \in Scenes /\ McpInit /\ RelayInit /\ LimiterInit

ToolStep(c) ==
    \/ kutana_join_meeting(c) \/ kutana_leave_meeting(c) \/ kutana_join_or_create_meeting(c)
    \/ kutana_create_meeting(c) \/ kutana_start_meeting(c) \/ kutana_end_meeting(c)
    \/ kutana_subscribe_channel(c) \/ kutana_publish_to_channel(c) \/ kutana_set_context(c)
    \/ kutana_get_transcript(c) \/ kutana_get_participants(c)
    \/ kutana_get_channel_messages(c) \/ kutana_get_meeting_events(c)
    \/ kutana_list_meetings(c) \/ kutana_get_tasks(c) \/ kutana_create_task(c)
    \/ kutana_get_summary(c) \/ kutana_raise_hand(c) \/ kutana_get_queue_status(c)
    \/ kutana_start_speaking(c) \/ kutana_mark_finished_speaking(c)
    \/ kutana_cancel_hand_raise(c) \/ kutana_get_speaking_status(c) \/ kutana_speak(c)
    \/ kutana_send_chat_message(c) \/ kutana_get_chat_messages(c) \/ kutana_get_meeting_status(c)
CallStep(c) ==
    \/ ExchangeForMcpToken(c) \/ RateLimit(c) \/ LimiterFails(c) \/ ToolStep(c) \/ ApiFails(c)
    \/ ExchangeForGatewayToken(c) \/ Connect(c) \/ AwaitJoined(c)
    \/ CloseSocket(c) \/ StopListening(c)
SessionStep(k) == HandleMessage(k) \/ SendJoined(k)
GatewayStep(g) == RelayStep(g) /\ UNCHANGED <<mcpVars, limiterVars>>

\* What the sessions of a process were to send or read is gone with it.
ProcessDies(g) ==
    /\ GatewayDies(g)
    /\ outbox' = [k \in Conns |-> IF home[k] = g THEN <<>> ELSE outbox[k]]
    /\ replies' = {k \in replies : home[k] # g}
    /\ UNCHANGED <<identity, client, call, gc, rooms, clean, limiterVars>>

ServerNext ==
    \/ \E c \in Calls : CallStep(c) \/ \E t \in scene.tools : Receive(c, t)
    \/ \E k \in Conns : Listen(k) \/ SessionStep(k) \/ SessionEnds(k)
    \/ \E g \in scene.running : GatewayStep(g) \/ ProcessDies(g)
    \/ \E kind \in Kinds : Publish(kind) /\ UNCHANGED <<mcpVars, limiterVars>>
    \/ TimePasses

\* The event loops of the server and the gateway run every task.
ServerFairness ==
    /\ \A c \in Calls : SF_serverVars(CallStep(c))
    /\ \A k \in Conns : WF_serverVars(SessionStep(k))
ServerSpec == ServerInit /\ [][ServerNext]_serverVars /\ ServerFairness
-----------------------------------------------------------------------------
ServerTypeOK ==
    /\ RelayTypeOK
    /\ client \in Conns \cup {None}
    /\ \A k \in Conns : Len(outbox[k]) <= MaxOutbox + 2 /\ inside[k] \in Meetings \cup {None}
    /\ \A c \in Calls : call[c] # NoCall => call[c].tool \in scene.tools
    /\ replies \subseteq {k \in Conns : home[k] # None}

\* An agent hears of each event at most once and in the order of the stream.
\* Where a single gateway serves it and nothing fails, an agent that was in
\* the meeting from the start has heard of every transcript once nothing is
\* under way; one that joined, of every one between two it has heard of
\* (event_relay._run, agent_session.send_to_agent, GatewayClient._listen).
HeardInOrder ==
    \A k \in Conns :
        LET heard == gc[k].heard
            all(ns) == \A n \in ns : stream[n] = "transcript" => n \in ToSet(heard) IN
        /\ \A i, j \in DOMAIN heard : i < j => heard[i] < heard[j]
        /\ Cardinality(scene.running) = 1 /\ scene.faults = 0 =>
               /\ heard # <<>> => all(heard[1] .. heard[Len(heard)])
               /\ /\ AlwaysIn /\ gc[k].listening /\ inside[k] = Meeting /\ wire[k] = <<>>
                  /\ \A g \in scene.running : hand[g] = <<>>
                 => all(1 .. group.last)

\* Where an agent's calls to join and leave do not overlap and no join
\* fails, the socket of the client is the only one it has at the gateway
\* (kutana_join_meeting, kutana_leave_meeting).
OneConnection ==
    clean => \A k \in Conns : (gc[k].ws = "up" /\ home[k] # None) => k = client

\* Every call of a tool ends, whatever the gateway and the other calls do
\* (connect_and_join, leave, and the tools of main.py).
CallsEnd == \A c \in Calls : call[c] # NoCall ~> call[c] = NoCall
=============================================================================
