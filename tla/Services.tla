------------------------------- MODULE Services -------------------------------
(***************************************************************************)
(* Services that do not act on each other: the message bus, the audio of a  *)
(* meeting, the voices of the agents, the chat, the agent of a feed, and a   *)
(* stream to Deepgram.                                                      *)
(* One of them is looked at (chosen initially).                             *)
(***************************************************************************)
EXTENDS BusBackends, AudioRoom, TtsBridge, ChatRelay, FeedAgent, DeepgramStream

CONSTANT Backends  \* of the message bus

VARIABLE focus
vars == <<focus, busVars, audioVars, ttsVars, chatVars, feedVars, streamVars>>

Init ==
    /\ focus \in {"bus", "audio", "tts", "chat", "feed", "stream"}
    /\ BusInit(Backends) /\ AudioInit /\ TtsInit /\ ChatInit /\ FeedInit
    /\ StreamInit
    /\ focus # "bus" => backend = "redis" /\ grouped
    /\ focus # "feed" => transport = "http" /\ ~stubborn
    /\ focus # "audio" => listener = CHOOSE s \in Listeners : TRUE

OnBus(A) ==
    focus = "bus" /\ A /\ UNCHANGED <<focus, audioVars, ttsVars, chatVars, feedVars, streamVars>>
InAudio(A) ==
    focus = "audio" /\ A /\ UNCHANGED <<focus, busVars, ttsVars, chatVars, feedVars, streamVars>>
InSpeech(A) ==
    focus = "tts" /\ A /\ UNCHANGED <<focus, busVars, audioVars, chatVars, feedVars, streamVars>>
InChat(A) ==
    focus = "chat" /\ A /\ UNCHANGED <<focus, busVars, audioVars, ttsVars, feedVars, streamVars>>
InFeed(A) ==
    focus = "feed" /\ A /\ UNCHANGED <<focus, busVars, audioVars, ttsVars, chatVars, streamVars>>
InStream(A) ==
    focus = "stream" /\ A /\ UNCHANGED <<focus, busVars, audioVars, ttsVars, chatVars, feedVars>>

Next ==
    OnBus(BusNext) \/ InAudio(AudioNext) \/ InSpeech(TtsNext) \/ InChat(ChatNext)
    \/ InFeed(FeedNext) \/ InStream(StreamNext)

\* The loops of the subscribers run, visibility timeouts pass, and a backend
\* hands out each message in the end although others come again and again.
BusFairness ==
    /\ \A s \in Subscribers : WF_vars(OnBus(Loop(s)))
    /\ \A m \in Msgs : SF_vars(OnBus(\E s \in Subscribers : Receive(s, m)))
    /\ \A q \in BusQueues, m \in Msgs : WF_vars(OnBus(Reappear(q, m)))
\* Timers fire; servers, plugins and the model need not answer.
FeedFairness == WF_vars(InFeed(Deadline)) /\ WF_vars(InFeed(PluginReaped \/ Kill))
\* Both tasks of a stream go on; Deepgram drops who is silent.
StreamFairness ==
    /\ \A t \in Tasks : WF_vars(InStream(Advances(t)))
    /\ WF_vars(InStream(HearingEnds))
    /\ \A s \in Sockets : WF_vars(InStream(SilenceDrops(s))) /\ WF_vars(InStream(Forgotten(s)))
Spec == Init /\ [][Next]_vars /\ BusFairness /\ FeedFairness /\ StreamFairness
-----------------------------------------------------------------------------
\* Every backend keeps the promises of MessageBus: a queue that is read is owed
\* what is published, what is owed stays owed until it is handled or nobody
\* subscribes, although handlers fail, acknowledgements are lost and processes
\* die; only Redis drops any (redis_streams.py, aws_sns_sqs.py,
\* gcp_pubsub.py, nats_jetstream.py against abc.py).
ImplementsMessageBus == Bus!Init /\ [][Bus!Next]_(Bus!vars)
\* What stays owed is handled with success in the end.
WhatIsOwedIsHandled == Bus!Fairness
=============================================================================
