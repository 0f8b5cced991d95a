SPECIFICATION Spec
CONSTANTS
    s1 = s1
    s2 = s2
    s3 = s3
    agent1 = agent1
    agent2 = agent2
    hello = hello
    bye = bye
    v1 = v1
    v2 = v2
    Subscribers = {s1, s2}
    MaxMessages = 2
    MaxFailures = 1
    Backends = {"redis", "sqs", "pubsub", "nats"}
    Sidecars = {s1, s2, s3}
    AgentOf <- MCAgentOf
    Listeners = {s3}
    QueueMax = 1
    Talkers = {s1, s2}
    Phrases = {hello, bye}
    PhraseSize <- MCPhraseSize
    Pool <- MCPool
    CharLimit = 3
    CacheMax = 1
    NoPhrase = NoPhrase
    Senders = {s1}
    Viewers = {v1, v2}
    Bridges = {"gateway"}
    BridgeOf <- MCBridgeOf
    MaxChat = 2
    MaxLost = 1
    MaxAgentTurns = 2
    MaxToolUses = 2
    Sockets = {w1, w2, w3, w4}
    NoSocket = NoSocket
    MaxReopens = 2
    MaxDrops = 2
INVARIANTS ViewsAreTrue SpendIsBounded ChatIsShown
PROPERTIES ImplementsMessageBus
    WhatIsOwedIsHandled RunLeavesNothing 
CHECK_DEADLOCK FALSE
