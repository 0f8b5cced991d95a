----------------------------- MODULE EventRelay -----------------------------
(***************************************************************************)
(* agent_gateway/event_relay.py: each gateway process reads kutana:events   *)
(* and forwards what belongs to a meeting to the sessions in it.  All       *)
(* processes read as one consumer of one group.  Connections and sessions   *)
(* come and go in the module that extends this one.                         *)
(***************************************************************************)
EXTENDS Naturals, Sequences, FiniteSets, ConsumerGroup

CONSTANTS Conns,      \* connections of agents to the gateway
          Meeting,    \* the meeting the stream is about
          Gateways,   \* gateway processes
          Channels,   \* data channels
          Batch,      \* count of XREADGROUP
          None
ASSUME RelayAssumption ==
    /\ Batch \in Nat \ {0}
    /\ None \notin Conns \cup Gateways \cup Channels /\ \A s \in SUBSET Conns : s # None
    /\ Channels \cap {"transcript", "broken"} = {}

\* A transcript segment, a message on a data channel, and what no agent gets:
\* broken JSON, an event without a meeting, tasks nobody asked for.
Kinds == {"transcript", "broken"} \cup Channels

\* What there is to see is chosen initially: which gateway processes run,
\* what is published and how much, how many faults there are, and (for the
\* module that extends this one) which tools the agent calls, how many at once.
VARIABLES scene,    \* [running, kinds, events, faults, tools, calls]
          stream,   \* kutana:events: the kinds of its entries, about one meeting
          group,    \* the position and the pending entries of the group
          hand,     \* gateway -> what is left of its batch
          targets,  \* gateway -> sessions still to be served, or None
          home,     \* connection -> the gateway that serves it, or None
          inside,   \* connection -> the meeting its session is in, or None
          wants,    \* connection -> channels its session is subscribed to
          wire,     \* connection -> messages on their way to the agent
          faults    \* faults so far
relayVars == <<scene, stream, group, hand, targets, home, inside, wants, wire, faults>>
sessionVars == <<home, inside, wants>>

Fault == faults < scene.faults /\ faults' = faults + 1

GroupOf(g) == [last |-> group.last, pending |-> group.pending, hand |-> hand[g]]
Store(g, v) ==
    /\ group' = [last |-> v.last, pending |-> v.pending]
    /\ hand' = [hand EXCEPT ![g] = v.hand]

\* The group starts at the first entry of the stream.
RelayInit ==
    /\ stream = <<>>
    /\ group = [last |-> 0, pending |-> {}]
    /\ hand = [g \in Gateways |-> <<>>]
    /\ targets = [g \in Gateways |-> None]
    /\ wire = [k \in Conns |-> <<>>]
    /\ faults = 0

Publish(kind) ==
    /\ kind \in scene.kinds /\ Len(stream) < scene.events
    /\ stream' = Append(stream, kind)
    /\ UNCHANGED <<scene, group, hand, targets, sessionVars, wire, faults>>

\* The answer may be lost: then the group has moved on, and nobody reads it.
ReadEvents(g) ==
    /\ \E k \in Batches(GroupOf(g), Len(stream), Batch) :
           \/ Store(g, ReadGroup(GroupOf(g), k)) /\ UNCHANGED faults
           \/ Store(g, Dropped(ReadGroup(GroupOf(g), k))) /\ Fault
    /\ UNCHANGED <<scene, stream, targets, sessionVars, wire>>

EntryAt(g) == Current(GroupOf(g))
\* get_meeting_sessions returns a list, and only then the first one is served.
Route(g) ==
    /\ Busy(GroupOf(g)) /\ targets[g] = None
    /\ targets' = [targets EXCEPT ![g] =
           IF stream[EntryAt(g)] = "broken" THEN {} ELSE {k \in Conns : inside[k] = Meeting /\ home[k] = g}]
    /\ UNCHANGED <<scene, stream, group, hand, sessionVars, wire, faults>>

\* A session without subscriptions gets every channel.
ShouldRelay(k, kind) == kind \in Channels => (wants[k] = {} \/ kind \in wants[k])

\* A session whose socket is gone swallows the message.
SendTo(g, k) ==
    /\ targets[g] # None /\ k \in targets[g]
    /\ targets' = [targets EXCEPT ![g] = @ \ {k}]
    /\ IF home[k] = g /\ ShouldRelay(k, stream[EntryAt(g)])
       THEN wire' = [wire EXCEPT ![k] = Append(@, EntryAt(g))]
       ELSE UNCHANGED wire
    /\ UNCHANGED <<scene, stream, group, hand, sessionVars, faults>>

\* Mutant: an entry that could not be acknowledged is handled again.
AcknowledgeRetries(g) ==
    /\ targets[g] = {}
    /\ targets' = [targets EXCEPT ![g] = None]
    /\ \/ Store(g, Acked(GroupOf(g))) /\ UNCHANGED faults
       \/ Fault /\ UNCHANGED <<group, hand>>
    /\ UNCHANGED <<scene, stream, sessionVars, wire>>

\* _ack swallows an error: the entry stays pending.
Acknowledge(g) ==
    /\ targets[g] = {}
    /\ targets' = [targets EXCEPT ![g] = None]
    /\ \/ Store(g, Acked(GroupOf(g))) /\ UNCHANGED faults
       \/ Store(g, Skipped(GroupOf(g))) /\ Fault
    /\ UNCHANGED <<scene, stream, sessionVars, wire>>

\* A process dies with its batch and its sessions, and comes back.
GatewayDies(g) ==
    /\ Fault
    /\ hand' = [hand EXCEPT ![g] = <<>>]
    /\ targets' = [targets EXCEPT ![g] = None]
    /\ inside' = [k \in Conns |-> IF home[k] = g THEN None ELSE inside[k]]
    /\ home' = [k \in Conns |-> IF home[k] = g THEN None ELSE home[k]]
    /\ UNCHANGED <<scene, stream, group, wants, wire>>

RelayStep(g) ==
    \/ ReadEvents(g) \/ Route(g) \/ Acknowledge(g)
    \/ \E k \in Conns : SendTo(g, k)

RelayTypeOK ==
    /\ stream \in Seq(Kinds) /\ Len(stream) <= scene.events
    /\ group.last \in 0 .. Len(stream) /\ group.pending \subseteq 1 .. group.last
    /\ \A g \in Gateways : \A i \in 1 .. Len(hand[g]) : hand[g][i] \in 1 .. group.last
    /\ home \in [Conns -> scene.running \cup {None}]
    /\ \A k \in Conns : inside[k] # None => home[k] # None
    /\ wants \in [Conns -> SUBSET Channels]
=============================================================================
