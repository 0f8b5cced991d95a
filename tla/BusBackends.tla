----------------------------- MODULE BusBackends -----------------------------
(***************************************************************************)
(* The four implementations of MessageBus in kutana_providers/messaging:    *)
(* Redis Streams, SNS with SQS, Google Pub/Sub and NATS JetStream, behind   *)
(* publish, subscribe, unsubscribe, the consume loop and the handler.       *)
(*                                                                         *)
(* One topic; the subscribers share a group, or each has a queue of its     *)
(* own.  Handlers that fail, acknowledgements that are lost and processes   *)
(* that die and subscribe again are failures.  ack(subscription, message.id)  *)
(* has no action: the id a handler sees is the one publish made up, and no  *)
(* backend knows it (Redis wants the entry's id, SQS a receipt handle,      *)
(* Pub/Sub an ack id; for NATS the method does nothing).                    *)
(***************************************************************************)
EXTENDS Naturals, Sequences, SequencesExt

CONSTANTS Subscribers,
          MaxMessages,  \* bound on messages published
          MaxFailures     \* bound on failures

ASSUME BusAssumption == MaxMessages \in Nat /\ MaxFailures \in Nat /\ "group" \notin Subscribers

VARIABLES backend,  \* "redis", "sqs", "pubsub" or "nats" (chosen initially)
          grouped,  \* do the subscribers share a group? (chosen initially)
          log,      \* messages published so far: 1 .. log
          queue,    \* queue -> message -> "out", "ready", "taken" or "gone"
          open,     \* queues that exist at the backend
          sub,      \* subscriber -> "new", "on" or "left"
          stage,    \* subscriber -> where its loop stands
          batch,    \* subscriber -> messages fetched and not yet dispatched
          acks,     \* subscriber -> ack_ids it has collected (Pub/Sub)
          done,     \* queue -> messages handled with success
          failures
busVars == <<backend, grouped, log, queue, open, sub, stage, batch, acks, done, failures>>

Msgs == 1 .. MaxMessages
BusQueues == Subscribers \cup {"group"}
QueueOf(s) == IF grouped THEN "group" ELSE s
MembersOf(q) == {s \in Subscribers : QueueOf(s) = q}
In(q, state) == {m \in Msgs : queue[q][m] = state}
Set(q, ms, state) ==
    queue' = [queue EXCEPT ![q] = [m \in Msgs |-> IF m \in ms THEN state ELSE @[m]]]
Failure == failures < MaxFailures /\ failures' = failures + 1

BusInit(backends) ==
    /\ backend \in backends
    /\ grouped \in BOOLEAN
    /\ log = 0
    /\ queue = [q \in BusQueues |-> [m \in Msgs |-> "out"]]
    /\ open = {}
    /\ sub = [s \in Subscribers |-> "new"]
    /\ stage = [s \in Subscribers |-> "idle"]
    /\ batch = [s \in Subscribers |-> <<>>]
    /\ acks = [s \in Subscribers |-> {}]
    /\ done = [q \in BusQueues |-> {}]
    /\ failures = 0

PublishMessage ==
    /\ log < MaxMessages
    /\ log' = log + 1
    /\ queue' = [q \in BusQueues |->
                    IF q \in open THEN [queue[q] EXCEPT ![log'] = "ready"] ELSE queue[q]]
    /\ UNCHANGED <<backend, grouped, open, sub, stage, batch, acks, done, failures>>

Subscribed(s) ==
    /\ sub[s] = "new"
    /\ sub' = [sub EXCEPT ![s] = "on"]
    /\ UNCHANGED <<backend, grouped, log, stage, batch, acks, done, failures>>
\* Redis makes a group here, and nothing for a subscription without one.
RedisSubscribe(s) ==
    /\ backend = "redis" /\ Subscribed(s)
    /\ open' = IF grouped THEN open \cup {"group"} ELSE open
    /\ UNCHANGED queue
\* Mutant: the queue is not bound to the topic.
SqsSubscribeUnbound(s) == backend = "sqs" /\ Subscribed(s) /\ UNCHANGED <<open, queue>>
\* The queue is created and bound to the SNS topic, or found.
SqsSubscribe(s) ==
    /\ backend = "sqs" /\ Subscribed(s)
    /\ open' = open \cup {QueueOf(s)}
    /\ UNCHANGED queue
PubSubSubscribe(s) ==
    /\ backend = "pubsub" /\ Subscribed(s)
    /\ open' = open \cup {QueueOf(s)}
    /\ UNCHANGED queue
\* A new JetStream consumer starts with what the stream holds.
NatsSubscribe(s) ==
    /\ backend = "nats" /\ Subscribed(s)
    /\ open' = open \cup {QueueOf(s)}
    /\ IF QueueOf(s) \in open THEN UNCHANGED queue ELSE Set(QueueOf(s), 1 .. log, "ready")
SubscribeTo(s) == RedisSubscribe(s) \/ SqsSubscribe(s) \/ PubSubSubscribe(s) \/ NatsSubscribe(s)

\* unsubscribe: the loop ends when it looks at _subscriptions again.
Unsubscribe(s) ==
    /\ sub[s] = "on"
    /\ sub' = [sub EXCEPT ![s] = "left"]
    /\ UNCHANGED <<backend, grouped, log, queue, open, stage, batch, acks, done, failures>>

Fetch(s, ms, state) ==
    /\ batch' = [batch EXCEPT ![s] = ms]
    /\ stage' = [stage EXCEPT ![s] = "dispatch"]
    /\ Set(QueueOf(s), ToSet(ms), state)
    /\ UNCHANGED <<backend, grouped, log, open, sub, acks, done, failures>>

\* How a stream gives its entries: in the order they were added.
Oldest(ms) ==
    {seq \in [1 .. Cardinality(ms) -> ms] :
        ToSet(seq) = ms /\ \A i, j \in DOMAIN seq : i < j => seq[i] < seq[j]}

\* _read_group: everything new, in order; what is read is pending for ever.
ReadGroup(s) ==
    /\ backend = "redis" /\ grouped /\ sub[s] = "on" /\ stage[s] = "idle"
    /\ In("group", "ready") # {}
    /\ \E new \in Oldest(In("group", "ready")) : Fetch(s, new, "taken")

\* _read_fanout: until an entry has been seen, each XREAD starts at "$", the
\* end of the stream when it is called.
BeginRead(s) ==
    /\ backend = "redis" /\ ~grouped /\ sub[s] = "on" /\ stage[s] = "idle"
    /\ stage' = [stage EXCEPT ![s] = "blocked"]
    /\ open' = open \cup {s}
    /\ IF In(s, "gone") = {} THEN Set(s, In(s, "ready"), "out") ELSE UNCHANGED queue
    /\ UNCHANGED <<backend, grouped, log, sub, batch, acks, done, failures>>
EndRead(s) ==
    /\ stage[s] = "blocked"
    /\ IF In(s, "ready") # {} THEN \E new \in Oldest(In(s, "ready")) : Fetch(s, new, "gone")
       ELSE /\ stage' = [stage EXCEPT ![s] = "idle"]
            /\ UNCHANGED <<backend, grouped, log, queue, open, sub, batch, acks, done, failures>>

Waiting(s, m) == sub[s] = "on" /\ stage[s] = "idle" /\ m \in In(QueueOf(s), "ready")
Some(s, m) ==
    \/ Fetch(s, <<m>>, "taken")
    \/ \E n \in In(QueueOf(s), "ready") \ {m} : Fetch(s, <<n, m>>, "taken")
\* _poll_queue and _pull_and_dispatch get some messages in any order, a NATS
\* consumer is pushed one at a time.
SqsPoll(s, m) == backend = "sqs" /\ Waiting(s, m) /\ Some(s, m)
PubSubPull(s, m) == backend = "pubsub" /\ Waiting(s, m) /\ Some(s, m)
NatsPush(s, m) == backend = "nats" /\ Waiting(s, m) /\ Fetch(s, <<m>>, "taken")
Receive(s, m) == SqsPoll(s, m) \/ PubSubPull(s, m) \/ NatsPush(s, m)

\* The message comes back when nobody has acknowledged it in time.
Reappear(q, m) ==
    /\ backend # "redis"
    /\ queue[q][m] = "taken"
    /\ Set(q, {m}, "ready")
    /\ UNCHANGED <<backend, grouped, log, open, sub, stage, batch, acks, done, failures>>

Rest(s) ==
    /\ batch' = [batch EXCEPT ![s] = Tail(@)]
    /\ stage' = [stage EXCEPT ![s] = IF Len(batch[s]) > 1 THEN "dispatch"
                               ELSE IF backend = "pubsub" /\ acks'[s] # {} THEN "ack" ELSE "idle"]
    /\ UNCHANGED <<backend, grouped, log, open, sub>>

\* A handled message: NATS acknowledges it; SQS deletes it, but only where
\* the subscription has no group; Pub/Sub collects its id; Redis does nothing.
NatsAcks(s, m) == backend = "nats" /\ Set(QueueOf(s), {m}, "gone") /\ UNCHANGED acks
SqsDeletes(s, m) ==
    /\ backend = "sqs"
    /\ IF grouped THEN UNCHANGED queue ELSE Set(s, {m}, "gone")
    /\ UNCHANGED acks
PubSubCollects(s, m) ==
    backend = "pubsub" /\ acks' = [acks EXCEPT ![s] = @ \cup {m}] /\ UNCHANGED queue
RedisKeeps(s, m) == backend = "redis" /\ UNCHANGED <<queue, acks>>
Acknowledged(s, m) ==
    NatsAcks(s, m) \/ SqsDeletes(s, m) \/ PubSubCollects(s, m) \/ RedisKeeps(s, m)

\* Mutant: the ack id is collected in front of the handler.
DispatchCollectsFirst(s) ==
    /\ stage[s] = "dispatch"
    /\ LET m == Head(batch[s]) q == QueueOf(s) IN
       /\ Acknowledged(s, m)
       /\ \/ done' = [done EXCEPT ![q] = @ \cup {m}] /\ UNCHANGED failures
          \/ Failure /\ UNCHANGED done
    /\ Rest(s)

\* The handler is awaited: it succeeds; or the message is handled and its
\* acknowledgement fails; or the handler raises, and NATS is told so.  The
\* callback of NATS looks whether it is still subscribed, the loops do not.
Dispatch(s) ==
    /\ stage[s] = "dispatch"
    /\ LET m == Head(batch[s]) q == QueueOf(s) IN
       \/ /\ backend = "nats" /\ sub[s] = "left"
          /\ UNCHANGED <<queue, acks, done, failures>>
       \/ /\ ~(backend = "nats" /\ sub[s] = "left")
          /\ \/ /\ done' = [done EXCEPT ![q] = @ \cup {m}]
                /\ \/ Acknowledged(s, m) /\ UNCHANGED failures
                   \/ backend \in {"sqs", "nats"} /\ Failure /\ UNCHANGED <<queue, acks>>
             \/ /\ Failure
                /\ IF backend = "nats" THEN Set(q, {m}, "ready") ELSE UNCHANGED queue
                /\ UNCHANGED <<done, acks>>
    /\ Rest(s)

\* The end of _pull_and_dispatch.
AcknowledgeBatch(s) ==
    /\ stage[s] = "ack"
    /\ \/ Set(QueueOf(s), acks[s], "gone") /\ UNCHANGED failures
       \/ Failure /\ UNCHANGED queue
    /\ acks' = [acks EXCEPT ![s] = {}]
    /\ stage' = [stage EXCEPT ![s] = "idle"]
    /\ UNCHANGED <<backend, grouped, log, open, sub, batch, done>>

\* The process dies and subscribes again: to the queue of its group, or to a
\* new one of its own.
Dies(s) ==
    /\ sub[s] = "on"
    /\ Failure
    /\ sub' = [sub EXCEPT ![s] = "new"]
    /\ stage' = [stage EXCEPT ![s] = "idle"]
    /\ batch' = [batch EXCEPT ![s] = <<>>]
    /\ acks' = [acks EXCEPT ![s] = {}]
    /\ IF grouped THEN UNCHANGED <<queue, open>>
       ELSE Set(s, Msgs, "out") /\ open' = open \ {s}
    /\ UNCHANGED <<backend, grouped, log, done>>

Loop(s) ==
    \/ SubscribeTo(s) \/ ReadGroup(s) \/ BeginRead(s) \/ EndRead(s)
    \/ Dispatch(s) \/ AcknowledgeBatch(s)
BusNext ==
    \/ PublishMessage
    \/ \E s \in Subscribers :
           Loop(s) \/ Unsubscribe(s) \/ Dies(s) \/ \E m \in Msgs : Receive(s, m)
    \/ \E q \in BusQueues, m \in Msgs : Reappear(q, m)
-----------------------------------------------------------------------------
\* The refinement.  Redis owes what it has not read, and what is in the
\* batch of a consumer; the others owe a message until it is handled.
Attended == {q \in BusQueues : \E s \in MembersOf(q) : sub[s] = "on"}
Listens(q) == \E s \in MembersOf(q) : sub[s] # "left"
Fetched(q) == UNION {ToSet(batch[s]) : s \in MembersOf(q)}
Owed(q) ==
    IF ~Listens(q) THEN {}
    ELSE IF backend = "redis" THEN (In(q, "ready") \cup Fetched(q)) \ done[q]
    ELSE (In(q, "ready") \cup In(q, "taken") \cup In(q, "gone")) \ done[q]

Bus == INSTANCE MessageBus WITH
    Queues <- BusQueues, Messages <- Msgs, published <- 1 .. log,
    subscribed <- Attended, owed <- [q \in BusQueues |-> Owed(q)], handled <- done,
    lossy <- backend = "redis"
=============================================================================
