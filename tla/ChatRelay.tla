------------------------------ MODULE ChatRelay ------------------------------
(***************************************************************************)
(* Chat in one meeting: redis_chat_store.py appends a message to a stream   *)
(* and publishes it then; the chat bridge of every gateway process          *)
(* subscribes to the channel and shows each message to the sessions of the  *)
(* meeting.  Agents also publish without storing (agent_session._handle_    *)
(* data).                                                                   *)
(***************************************************************************)
EXTENDS Naturals, Sequences, SequencesExt

CONSTANTS Senders,   \* requests that send a message
          Viewers,   \* sessions of agents and browsers
          Bridges,   \* gateway processes
          BridgeOf,  \* session -> its process
          MaxChat,   \* bound on messages
          MaxLost    \* bound on connections to Redis that are lost

NotShowing == {{}}  \* no list of sessions has been made

ASSUME ChatAssumption ==
    /\ MaxChat \in Nat /\ MaxLost \in Nat
    /\ BridgeOf \in [Viewers -> Bridges]
    /\ NotShowing \notin SUBSET Viewers

VARIABLES stored,     \* the stream of the meeting: messages in their order
          composing,  \* sender -> the message it has stored and not published, or 0
          sent,       \* messages so far
          channel,    \* process -> what its subscription has not read yet
          listening,  \* processes whose loop runs
          showing,    \* process -> sessions that are still to see its first message
          present,    \* sessions in the meeting
          shown,      \* session -> messages it was shown
          since,      \* session -> the channel's messages when it came
          announced,  \* messages in the order in which they were published
          lost
chatVars == <<stored, composing, sent, channel, listening, showing, present, shown,
              since, announced, lost>>

ChatInit ==
    /\ stored = <<>> /\ sent = 0 /\ announced = <<>> /\ present = {} /\ lost = 0
    /\ composing = [s \in Senders |-> 0]
    /\ channel = [b \in Bridges |-> <<>>]
    /\ showing = [b \in Bridges |-> NotShowing]
    /\ listening = Bridges
    /\ shown = [v \in Viewers |-> <<>>]
    /\ since = [v \in Viewers |-> 0]

PublishChat(m) ==
    /\ announced' = Append(announced, m)
    /\ channel' = [b \in Bridges |-> IF b \in listening THEN Append(channel[b], m) ELSE channel[b]]

\* send_message: the entry first, the notification after it.
StoreMessage(s) ==
    /\ sent < MaxChat /\ composing[s] = 0
    /\ sent' = sent + 1
    /\ stored' = Append(stored, sent')
    /\ composing' = [composing EXCEPT ![s] = sent']
    /\ UNCHANGED <<channel, listening, showing, present, shown, since, announced, lost>>
NotifyChannel(s) ==
    /\ composing[s] # 0
    /\ composing' = [composing EXCEPT ![s] = 0]
    /\ \/ PublishChat(composing[s]) /\ UNCHANGED lost
       \/ lost < MaxLost /\ lost' = lost + 1 /\ UNCHANGED <<announced, channel>>
    /\ UNCHANGED <<stored, sent, listening, showing, present, shown, since>>
\* An agent's data channel "chat".
DataChannelChat ==
    /\ sent < MaxChat
    /\ sent' = sent + 1
    /\ PublishChat(sent')
    /\ UNCHANGED <<stored, composing, listening, showing, present, shown, since, lost>>
\* clear_meeting
ClearChat ==
    /\ stored # <<>>
    /\ stored' = <<>>
    /\ UNCHANGED <<composing, sent, channel, listening, showing, present, shown, since,
                   announced, lost>>

EnterChat(v) ==
    /\ v \notin present
    /\ present' = present \cup {v}
    /\ since' = [since EXCEPT ![v] = Len(announced)]
    /\ shown' = [shown EXCEPT ![v] = <<>>]
    /\ UNCHANGED <<stored, composing, sent, channel, listening, showing, announced, lost>>
LeaveChat(v) ==
    /\ v \in present
    /\ present' = present \ {v}
    /\ UNCHANGED <<stored, composing, sent, channel, listening, showing, shown, since,
                   announced, lost>>

\* _broadcast_message: the list of sessions, then one after the other.  A
\* send that fails is logged.
BeginBroadcast(b) ==
    /\ b \in listening /\ channel[b] # <<>> /\ showing[b] = NotShowing
    /\ showing' = [showing EXCEPT ![b] = {v \in present : BridgeOf[v] = b}]
    /\ UNCHANGED <<stored, composing, sent, channel, listening, present, shown, since,
                   announced, lost>>
ShowTo(b, v) ==
    /\ b \in listening /\ showing[b] # NotShowing /\ v \in showing[b]
    /\ showing' = [showing EXCEPT ![b] = @ \ {v}]
    /\ shown' = IF v \in present THEN [shown EXCEPT ![v] = Append(@, Head(channel[b]))] ELSE shown
    /\ UNCHANGED <<stored, composing, sent, channel, listening, present, since, announced, lost>>

\* Mutant: the next message is read while the last one is being shown.
EndBroadcastEarly(b) ==
    /\ b \in listening /\ showing[b] # NotShowing
    /\ channel' = [channel EXCEPT ![b] = Tail(@)]
    /\ showing' = [showing EXCEPT ![b] = NotShowing]
    /\ UNCHANGED <<stored, composing, sent, listening, present, shown, since, announced, lost>>

EndBroadcast(b) ==
    /\ b \in listening /\ showing[b] = {}
    /\ channel' = [channel EXCEPT ![b] = Tail(@)]
    /\ showing' = [showing EXCEPT ![b] = NotShowing]
    /\ UNCHANGED <<stored, composing, sent, listening, present, shown, since, announced, lost>>
\* The connection is lost between two messages: the loop is over for good.
LoseChannel(b) ==
    /\ b \in listening /\ showing[b] = NotShowing /\ lost < MaxLost
    /\ lost' = lost + 1
    /\ listening' = listening \ {b}
    /\ channel' = [channel EXCEPT ![b] = <<>>]
    /\ UNCHANGED <<stored, composing, sent, showing, present, shown, since, announced>>

BridgeStep(b) == BeginBroadcast(b) \/ EndBroadcast(b) \/ \E v \in Viewers : ShowTo(b, v)
ChatNext ==
    \/ \E s \in Senders : StoreMessage(s) \/ NotifyChannel(s)
    \/ DataChannelChat \/ ClearChat
    \/ \E v \in Viewers : EnterChat(v) \/ LeaveChat(v)
    \/ \E b \in Bridges : BridgeStep(b) \/ LoseChannel(b)
-----------------------------------------------------------------------------
\* Messages published while a session is in the meeting are shown to it once
\* and in their order, without a gap, after at most a few that were on their
\* way when it came; and once nothing is under way it has seen them all,
\* unless its process has lost the channel (ChatBridge._pubsub_loop).
ChatIsShown ==
    \A v \in present :
        LET b == BridgeOf[v] IN
        /\ \E i \in 0 .. Len(announced) : \E j \in i .. Len(announced) :
               i <= since[v] /\ shown[v] = SubSeq(announced, i + 1, j)
        /\ b \in listening /\ channel[b] = <<>> =>
               Len(shown[v]) >= Len(announced) - since[v]
=============================================================================
