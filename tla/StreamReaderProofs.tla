-------------------------- MODULE StreamReaderProofs --------------------------
(***************************************************************************)
(* Proofs about the two readers of the event stream: FeedDelivery, for any *)
(* feeds, events, batches and failures, and McpServer, for any tools,       *)
(* calls, connections, gateways and events.                                 *)
(***************************************************************************)
EXTENDS FeedDelivery, McpServer, FiniteSetTheorems, SequenceTheorems, TLAPS

-----------------------------------------------------------------------------
\* Consumer groups

\* The entries a group is done with, and a group of a stream of n entries:
\* its hand are the last entries it was given.
Done(g) == g.last - Len(g.hand)
GroupShape(g, n) ==
    /\ DOMAIN g = {"last", "pending", "hand"}
    /\ g.last \in Nat /\ g.last <= n
    /\ g.hand \in Seq(Nat) /\ Len(g.hand) <= g.last
    /\ \A i \in 1 .. Len(g.hand) : g.hand[i] = Done(g) + i

-----------------------------------------------------------------------------
\* Rows

\* The rows of event e have been written, or the dispatcher gave up on it.
Dispatched(e) == e <= Done(dgroup) \/ (lastRun # NoRun /\ e = Done(dgroup) + 1)
\* What entry i of the queue delivers.
Of(i) == <<queue[i].feed, queue[i].run[2]>>

RowTypes ==
    /\ events \in Seq(SUBSET Feeds) /\ Len(events) <= MaxEvents
    /\ queue \in Seq([run : Runs, feed : Feeds])
    /\ status \in [Runs -> Statuses]
    /\ posted \in [Runs -> Nat]
    /\ attempt \in 0 .. (MaxAttempts + 1)
    /\ GroupShape(dgroup, Len(events)) /\ GroupShape(rgroup, Len(queue))
Dispatching ==
    IF lastRun = NoRun THEN toSend = {}
    ELSE /\ Busy(dgroup)
         /\ toSend \subseteq events[Current(dgroup)]
         /\ \E f \in events[Current(dgroup)] : lastRun = <<f, Current(dgroup)>>

\* An entry is of a dispatched event and of a feed it has, and of none that is
\* still to send; each feed is enqueued at most once for an event.
EntryIsOwed(i) ==
    LET e == queue[i].run[2] IN
    /\ e \in DOMAIN events /\ Dispatched(e)
    /\ queue[i].feed \in events[e] /\ queue[i].run[1] \in events[e]
    /\ lastRun # NoRun /\ e = Done(dgroup) + 1 => queue[i].feed \notin toSend
QueuedOnce ==
    \A i, j \in 1 .. Len(queue) : Of(i) = Of(j) => i = j

\* Only what was executed, or is at an attempt, has been delivered.
PostsAreAttempts(r) ==
    /\ posted[r] <= MaxAttempts
    /\ posted[r] > 0 =>
          \/ \E i \in 1 .. Len(queue) : i <= Done(rgroup) /\ Of(i) = r
          \/ Busy(rgroup) /\ attempt > posted[r] /\ Delivery = r
RowIsTrue(r) ==
    /\ status[r] # "none" /\ r[2] > 0 => Dispatched(r[2])
    /\ Alone(r) /\ status[r] \in Settled =>
          \E i \in 1 .. Len(queue) : i <= Done(rgroup) /\ queue[i].run = r
    /\ Alone(r) /\ status[r] = "delivered" => posted[r] > 0

RowsInv ==
    /\ RowTypes
    /\ Dispatching
    /\ \A i \in 1 .. Len(queue) : EntryIsOwed(i)
    /\ QueuedOnce
    /\ attempt > 0 => Busy(rgroup)
    /\ \A r \in Runs : PostsAreAttempts(r) /\ RowIsTrue(r)
LEMMA GroupReads ==
    ASSUME NEW g, NEW n \in Nat, GroupShape(g, n), NEW size \in Nat, NEW k \in Batches(g, n, size)
    PROVE  /\ GroupShape(ReadGroup(g, k), n) /\ Done(ReadGroup(g, k)) = Done(g)
           /\ ~Busy(g)
<1>1. k \in Nat /\ k >= 1 /\ g.hand = <<>> /\ g.last \in Nat /\ g.last + k <= n
  BY DEF Batches, GroupShape
<1> DEFINE batch == [i \in 1 .. k |-> g.last + i]
<1>2. batch \in Seq(Nat) /\ Len(batch) = k /\ \A i \in 1 .. k : batch[i] = g.last + i
  <2>1. \A i \in 1 .. k : g.last + i \in Nat
    BY <1>1
  <2>2. batch \in [1 .. k -> Nat]
    BY <2>1
  <2> QED
    BY <1>1, <2>2
<1>3. /\ ReadGroup(g, k).last = g.last + k /\ ReadGroup(g, k).hand = batch
      /\ DOMAIN ReadGroup(g, k) = {"last", "pending", "hand"}
  BY DEF ReadGroup
<1> HIDE DEF batch
<1>4. Done(ReadGroup(g, k)) = g.last /\ Done(g) = g.last
  BY <1>1, <1>2, <1>3 DEF Done
<1> QED
  BY <1>1, <1>2, <1>3, <1>4 DEF GroupShape, Busy

LEMMA GroupWorks ==
    ASSUME NEW g, NEW n \in Nat, GroupShape(g, n), Busy(g)
    PROVE  /\ Done(g) \in Nat /\ Current(g) = Done(g) + 1 /\ Current(g) \in 1 .. n
           /\ GroupShape(Acked(g), n) /\ Done(Acked(g)) = Done(g) + 1
<1> DEFINE m == Len(g.hand)
<1>1. /\ g.hand \in Seq(Nat) /\ g.hand # <<>> /\ g.last \in Nat /\ g.last <= n /\ m <= g.last
      /\ \A i \in 1 .. m : g.hand[i] = g.last - m + i
  BY DEF GroupShape, Busy, Done
<1>2. m \in Nat \ {0} /\ Head(g.hand) = g.hand[1]
  BY <1>1, EmptySeq
<1>3. /\ Tail(g.hand) \in Seq(Nat) /\ Len(Tail(g.hand)) = m - 1
      /\ \A i \in 1 .. m - 1 : Tail(g.hand)[i] = g.hand[i + 1]
  BY <1>1, HeadTailProperties
<1>4. /\ Acked(g).last = g.last /\ Acked(g).hand = Tail(g.hand)
      /\ DOMAIN Acked(g) = {"last", "pending", "hand"}
  BY DEF Acked, GroupShape
<1>5. Done(g) = g.last - m /\ Done(Acked(g)) = g.last - (m - 1)
  BY <1>3, <1>4 DEF Done
<1>6. Current(g) = g.last - m + 1
  BY <1>1, <1>2 DEF Current
<1>7. \A i \in 1 .. m - 1 : i + 1 \in 1 .. m
  BY <1>2
<1> HIDE DEF m
<1>8. ASSUME NEW i \in 1 .. m - 1 PROVE Tail(g.hand)[i] = g.last - (m - 1) + i
  <2>1. Tail(g.hand)[i] = g.last - m + (i + 1)
    <3>1. i + 1 \in 1 .. m /\ Tail(g.hand)[i] = g.hand[i + 1]
      BY <1>3, <1>7
    <3> QED
      BY <1>1, <3>1
  <2>2. m \in Nat /\ i \in Nat /\ g.last \in Nat
    BY <1>1, <1>2
  <2>3. g.last - m + (i + 1) = g.last - (m - 1) + i
    BY <2>2
  <2> QED
    BY <2>1, <2>3
<1> QED
  BY <1>1, <1>2, <1>3, <1>4, <1>5, <1>6, <1>8 DEF GroupShape

LEMMA GroupDrops ==
    ASSUME NEW g, NEW n \in Nat, GroupShape(g, n)
    PROVE  /\ GroupShape(Dropped(g), n) /\ Done(Dropped(g)) = g.last
           /\ Done(g) \in Nat /\ Done(g) <= g.last /\ g.last <= n
           /\ Busy(g) => Done(g) + 1 <= g.last
<1>1. /\ DOMAIN Dropped(g) = {"last", "pending", "hand"}
      /\ Dropped(g).last = g.last /\ Dropped(g).hand = <<>>
  BY DEF Dropped, GroupShape
<1>2. g.last \in Nat /\ g.last <= n /\ Len(g.hand) \in Nat /\ Len(g.hand) <= g.last
  BY DEF GroupShape
<1>3. Busy(g) => Len(g.hand) # 0
  BY EmptySeq DEF GroupShape, Busy
<1> QED
  BY <1>1, <1>2, <1>3 DEF GroupShape, Done

LEMMA GroupGrows ==
    ASSUME NEW g, NEW n \in Nat, GroupShape(g, n), NEW m \in Nat, m >= n
    PROVE  GroupShape(g, m)
BY DEF GroupShape

-----------------------------------------------------------------------------
\* Steps

LEMMA RowsBegin == Init => RowsInv
<1> SUFFICES ASSUME Init PROVE RowsInv
  OBVIOUS
<1>1. /\ NewGroup(0).last = 0 /\ NewGroup(0).hand = <<>>
      /\ DOMAIN NewGroup(0) = {"last", "pending", "hand"}
  BY DEF NewGroup
<1>2. GroupShape(NewGroup(0), 0) /\ Done(NewGroup(0)) = 0
  <2>1. NewGroup(0).hand \in Seq(Nat) /\ Len(NewGroup(0).hand) = 0
    BY <1>1, EmptySeq
  <2> QED
    BY <1>1, <2>1 DEF GroupShape, Done
<1>3. Len(events) = 0 /\ Len(queue) = 0 /\ 1 .. Len(queue) = {}
  BY DEF Init
<1>4. RowTypes
  BY <1>2, <1>3, FDAssumption DEF Init, RowTypes, Statuses
<1>5. \A r \in Runs : status[r] = "none" /\ posted[r] = 0
  BY DEF Init
<1>6. \A r \in Runs : PostsAreAttempts(r) /\ RowIsTrue(r)
  BY <1>5, FDAssumption DEF PostsAreAttempts, RowIsTrue, Settled
<1> QED
  BY <1>3, <1>4, <1>6 DEF Init, RowsInv, Dispatching, QueuedOnce

LEMMA GroupsShape ==
    ASSUME RowsInv
    PROVE  /\ Len(events) \in Nat /\ Len(queue) \in Nat
           /\ GroupShape(dgroup, Len(events)) /\ GroupShape(rgroup, Len(queue))
           /\ Done(dgroup) \in Nat /\ Done(rgroup) \in Nat
           /\ Busy(dgroup) => Done(dgroup) + 1 <= dgroup.last
           /\ Busy(rgroup) => Done(rgroup) + 1 <= rgroup.last
           /\ dgroup.last >= Done(dgroup) /\ rgroup.last >= Done(rgroup)
           /\ dgroup.last \in Nat /\ rgroup.last \in Nat
           /\ Done(Dropped(dgroup)) = dgroup.last /\ Done(Dropped(rgroup)) = rgroup.last
<1>1. /\ Len(events) \in Nat /\ Len(queue) \in Nat
      /\ GroupShape(dgroup, Len(events)) /\ GroupShape(rgroup, Len(queue))
  BY DEF RowsInv, RowTypes
<1>2. dgroup.last \in Nat /\ rgroup.last \in Nat
  BY <1>1 DEF GroupShape
<1> QED
  BY <1>1, <1>2, GroupDrops

\* The entry in the runner's hand: nothing executed before it delivers the
\* same feed for the same event, and where the row is a feed's alone, it is
\* the row of that feed.
LEMMA EntryIsNew ==
    ASSUME RowsInv, Busy(rgroup), NEW c, c = Current(rgroup)
    PROVE  /\ c \in 1 .. Len(queue) /\ c = Done(rgroup) + 1 /\ Done(rgroup) \in Nat
           /\ Entry = queue[c] /\ Entry \in [run : Runs, feed : Feeds]
           /\ Delivery \in Runs /\ Delivery = Of(c)
           /\ \A i \in 1 .. Len(queue) : i <= Done(rgroup) => Of(i) # Delivery
           /\ posted[Delivery] = 0 \/ attempt > posted[Delivery]
           /\ Alone(Entry.run) =>
                 /\ Delivery = Entry.run
                 /\ \A i \in 1 .. Len(queue) : i <= Done(rgroup) => queue[i].run # Entry.run
<1>1. /\ c \in 1 .. Len(queue) /\ c = Done(rgroup) + 1 /\ Done(rgroup) \in Nat
  BY GroupWorks DEF RowsInv, RowTypes
<1>2. Entry = queue[c] /\ Entry \in [run : Runs, feed : Feeds] /\ Delivery = Of(c)
  <2>1. queue[c] \in [run : Runs, feed : Feeds]
    BY <1>1, ElementOfSeq DEF RowsInv, RowTypes
  <2> QED
    BY <2>1 DEF Entry, Delivery, Of
<1>3. Delivery \in Runs
  BY <1>2 DEF Delivery, Runs
<1>4. \A i \in 1 .. Len(queue) : i <= Done(rgroup) => Of(i) # Delivery
  BY <1>1, <1>2 DEF RowsInv, QueuedOnce
<1>5. posted[Delivery] = 0 \/ attempt > posted[Delivery]
  BY <1>3, <1>4 DEF RowsInv, RowTypes, PostsAreAttempts
<1>6. ASSUME Alone(Entry.run)
      PROVE  /\ Delivery = Entry.run
             /\ \A i \in 1 .. Len(queue) : i <= Done(rgroup) => queue[i].run # Entry.run
  <2>1. ASSUME NEW i \in 1 .. Len(queue), queue[i].run = Entry.run PROVE Of(i) = Entry.run
    <3>1. queue[i].run \in Runs /\ queue[i].feed \in events[queue[i].run[2]]
      <4>1. queue[i] \in [run : Runs, feed : Feeds]
        BY ElementOfSeq DEF RowsInv, RowTypes
      <4>2. EntryIsOwed(i)
        BY DEF RowsInv
      <4> QED
        BY <4>1, <4>2 DEF EntryIsOwed
    <3>2. queue[i].feed = Entry.run[1]
      BY <1>6, <2>1, <3>1 DEF Alone
    <3> QED
      BY <2>1, <3>1, <3>2 DEF Of, Runs
  <2>2. Delivery = Entry.run
    BY <1>1, <1>2, <2>1
  <2> QED
    BY <1>4, <2>1, <2>2
<1> QED
  BY <1>1, <1>2, <1>3, <1>4, <1>5, <1>6

\* A step that leaves the rows and the queue: the groups read on or drop what
\* they have.
LEMMA RowsRest ==
    ASSUME RowsInv, UNCHANGED <<events, queue, status, posted>>,
           GroupShape(dgroup', Len(events)), GroupShape(rgroup', Len(queue)),
           \/ UNCHANGED <<dgroup, toSend, lastRun>>
           \/ /\ lastRun' = NoRun /\ toSend' = {}
              /\ \A e \in Nat : Dispatched(e) => e <= Done(dgroup'),
           Done(rgroup') >= Done(rgroup),
           \/ UNCHANGED <<rgroup, attempt>>
           \/ attempt' = 0 /\ (attempt > 0 => Done(rgroup') >= Done(rgroup) + 1)
    PROVE  RowsInv'
<1>1. \A e \in Nat : Dispatched(e) => Dispatched(e)'
  BY DEF Dispatched
<1>2. RowTypes'
  BY FDAssumption DEF RowsInv, RowTypes
<1>3. Dispatching'
  BY DEF RowsInv, Dispatching
<1>4. ASSUME NEW i \in 1 .. Len(queue) PROVE EntryIsOwed(i)'
  <2>1. EntryIsOwed(i) /\ queue[i].run[2] \in Nat
    <3>1. queue[i] \in [run : Runs, feed : Feeds]
      BY ElementOfSeq DEF RowsInv, RowTypes
    <3> QED
      BY <3>1, FDAssumption DEF RowsInv, Runs, ByHand
  <2> QED
    BY <1>1, <2>1 DEF EntryIsOwed
<1>5. ASSUME NEW r \in Runs PROVE PostsAreAttempts(r)' /\ RowIsTrue(r)'
  <2>1. PostsAreAttempts(r) /\ RowIsTrue(r) /\ r[2] \in Nat
    BY FDAssumption DEF RowsInv, Runs, ByHand
  <2>2. Done(rgroup) \in Nat /\ Done(rgroup') \in Nat
    BY GroupsShape, GroupDrops
  <2>3. \A i \in 1 .. Len(queue) : i <= Done(rgroup) => i <= Done(rgroup')
    BY <2>2
  <2>4. RowIsTrue(r)'
    BY <1>1, <2>1, <2>3 DEF RowIsTrue, Alone
  <2>5. CASE UNCHANGED <<rgroup, attempt>>
    BY <2>1, <2>4, <2>5 DEF PostsAreAttempts, Of, Delivery, Entry
  <2>6. CASE attempt' = 0 /\ (attempt > 0 => Done(rgroup') >= Done(rgroup) + 1)
    <3> DEFINE c == Current(rgroup)
    <3>1. ASSUME Busy(rgroup), attempt > 0, Delivery = r
          PROVE  \E i \in 1 .. Len(queue) : i <= Done(rgroup') /\ Of(i) = r
      BY <2>2, <2>6, <3>1, EntryIsNew
    <3> QED
      BY <2>1, <2>3, <2>4, <3>1 DEF PostsAreAttempts, Of, RowsInv, RowTypes
  <2> QED
    BY <2>5, <2>6
<1>6. attempt' > 0 => Busy(rgroup')
  BY DEF RowsInv
<1>7. QueuedOnce'
  BY DEF RowsInv, QueuedOnce, Of
<1> QED
  BY <1>2, <1>3, <1>4, <1>5, <1>6, <1>7 DEF RowsInv

\* A step that rests, of the dispatcher, of the runner or of both.
LEMMA OthersKeepRows ==
    ASSUME RowsInv, DispatcherReads \/ DispatcherAcks \/ DispatcherFails \/ RunnerReads
                    \/ RunnerFails \/ Crash \/ UNCHANGED vars
    PROVE  RowsInv'
<1> DEFINE n == Len(events)
           m == Len(queue)
<1>1. /\ n \in Nat /\ m \in Nat /\ GroupShape(dgroup, n) /\ GroupShape(rgroup, m)
      /\ BatchSize \in Nat /\ Done(dgroup) \in Nat /\ Done(rgroup) \in Nat
  BY GroupsShape, FDAssumption
<1>2. /\ lastRun # NoRun => Busy(dgroup)
      /\ lastRun = NoRun => toSend = {}
      /\ attempt > 0 => Busy(rgroup)
      /\ attempt \in Nat
  BY FDAssumption DEF RowsInv, RowTypes, Dispatching
<1> HIDE DEF n, m
<1>3. GroupShape(Dropped(dgroup), n) /\ GroupShape(Dropped(rgroup), m)
  BY <1>1, GroupDrops
<1>4. \A e \in Nat : Dispatched(e) => e <= Done(Dropped(dgroup))
  BY <1>1, <1>2, GroupsShape DEF Dispatched
<1>5. Done(Dropped(rgroup)) >= Done(rgroup) /\ (attempt > 0 => Done(Dropped(rgroup)) >= Done(rgroup) + 1)
  BY <1>1, <1>2, GroupsShape
<1>6. CASE DispatcherReads
  <2>1. /\ UNCHANGED <<events, toSend, lastRun, status, queue, runner, posted, failures>>
        /\ \E k \in Batches(dgroup, n, BatchSize) : dgroup' = ReadGroup(dgroup, k)
    BY <1>6 DEF DispatcherReads, n
  <2>2. GroupShape(dgroup', n) /\ Done(dgroup') = Done(dgroup) /\ ~Busy(dgroup)
    BY <1>1, <2>1, GroupReads
  <2>3. lastRun' = NoRun /\ toSend' = {} /\ \A e \in Nat : Dispatched(e) => e <= Done(dgroup')
    BY <1>2, <2>1, <2>2 DEF Dispatched
  <2> QED
    BY <1>1, <2>1, <2>2, <2>3, RowsRest DEF runner, n, m
<1>7. CASE DispatcherAcks
  <2>1. /\ Busy(dgroup) /\ toSend = {} /\ dgroup' = Acked(dgroup) /\ lastRun' = NoRun
        /\ UNCHANGED <<events, toSend, status, queue, runner, posted, failures>>
    BY <1>7 DEF DispatcherAcks
  <2>2. GroupShape(dgroup', n) /\ Done(dgroup') = Done(dgroup) + 1
    BY <1>1, <2>1, GroupWorks
  <2>3. \A e \in Nat : Dispatched(e) => e <= Done(dgroup')
    BY <1>1, <2>2 DEF Dispatched
  <2> QED
    BY <1>1, <2>1, <2>2, <2>3, RowsRest DEF runner, n, m
<1>8. CASE DispatcherFails
  BY <1>1, <1>3, <1>4, <1>8, RowsRest DEF DispatcherFails, runner, n, m
<1>9. CASE RunnerReads
  <2>1. /\ UNCHANGED <<dispatcher, status, queue, attempt, posted, failures>>
        /\ \E k \in Batches(rgroup, m, BatchSize) : rgroup' = ReadGroup(rgroup, k)
    BY <1>9 DEF RunnerReads, m
  <2>2. GroupShape(rgroup', m) /\ Done(rgroup') = Done(rgroup) /\ ~Busy(rgroup)
    BY <1>1, <2>1, GroupReads
  <2>3. attempt' = 0 /\ ~(attempt > 0)
    BY <1>2, <2>1, <2>2
  <2> QED
    BY <1>1, <2>1, <2>2, <2>3, RowsRest DEF dispatcher, n, m
<1>10. CASE RunnerFails
  BY <1>1, <1>3, <1>5, <1>10, RowsRest DEF RunnerFails, dispatcher, n, m
<1>11. CASE Crash
  BY <1>1, <1>3, <1>4, <1>5, <1>11, RowsRest DEF Crash, n, m
<1>12. CASE UNCHANGED vars
  BY <1>1, <1>12, RowsRest DEF vars, n, m
<1> QED
  BY <1>6, <1>7, <1>8, <1>9, <1>10, <1>11, <1>12
LEMMA EventsKeepRows ==
    ASSUME RowsInv, MeetingEvent
    PROVE  RowsInv'
<1> DEFINE n == Len(events)
<1>1. PICK matching \in SUBSET Feeds \ {{}} :
          events' = Append(events, matching) /\ n < MaxEvents
  BY DEF MeetingEvent
<1>2. UNCHANGED <<dgroup, toSend, lastRun, status, queue, rgroup, attempt, posted>>
  BY DEF MeetingEvent, runner
<1>3. /\ events \in Seq(SUBSET Feeds) /\ n \in Nat
      /\ GroupShape(dgroup, n) /\ Done(dgroup) \in Nat /\ dgroup.last \in Nat
      /\ Done(dgroup) <= dgroup.last /\ dgroup.last <= n
      /\ Busy(dgroup) => Done(dgroup) + 1 <= dgroup.last
      /\ Busy(dgroup) => Current(dgroup) = Done(dgroup) + 1
  <2>1. GroupShape(dgroup, n) => dgroup.last <= n
    BY DEF GroupShape
  <2> QED
    BY <2>1, GroupsShape, GroupWorks DEF RowsInv, RowTypes
<1>4. /\ events' \in Seq(SUBSET Feeds) /\ Len(events') = n + 1
      /\ \A e \in 1 .. n : events'[e] = events[e]
      /\ DOMAIN events = 1 .. n /\ DOMAIN events' = 1 .. n + 1
  BY <1>1, <1>3, AppendProperties, LenProperties
<1>5. n + 1 \in Nat /\ n + 1 >= n /\ n + 1 <= MaxEvents /\ \A e \in 1 .. n : e \in 1 .. n + 1
  BY <1>1, <1>3, FDAssumption
<1> HIDE DEF n
<1>6. \A e \in Nat : (Dispatched(e)' <=> Dispatched(e)) /\ (Dispatched(e) => e <= n)
  <2>1. lastRun # NoRun => Busy(dgroup)
    BY DEF RowsInv, Dispatching
  <2> QED
    BY <1>2, <1>3, <2>1 DEF Dispatched
<1>7. RowTypes'
  <2>1. GroupShape(dgroup, Len(events'))
    BY <1>3, <1>4, <1>5, GroupGrows
  <2> QED
    BY <1>2, <1>4, <1>5, <2>1 DEF RowsInv, RowTypes
<1>8. Dispatching'
  <2> SUFFICES ASSUME lastRun # NoRun PROVE Dispatching'
    BY <1>2 DEF RowsInv, Dispatching
  <2>1. Busy(dgroup)
    BY DEF RowsInv, Dispatching
  <2>2. Current(dgroup) \in 1 .. n
    BY <1>3, <2>1
  <2> QED
    BY <1>2, <1>4, <2>1, <2>2 DEF RowsInv, Dispatching
<1>9. ASSUME NEW i \in 1 .. Len(queue) PROVE EntryIsOwed(i)'
  <2>1. EntryIsOwed(i)
    BY DEF RowsInv
  <2>2. queue[i].run[2] \in 1 .. n
    BY <1>4, <2>1 DEF EntryIsOwed
  <2>3. PICK e \in 1 .. n : e = queue[i].run[2]
    BY <2>2
  <2>4. Dispatched(e)' /\ e \in DOMAIN events' /\ events'[e] = events[e] /\ queue' = queue
    BY <1>2, <1>4, <1>5, <1>6, <2>1, <2>3 DEF EntryIsOwed
  <2> QED
    BY <1>2, <2>1, <2>3, <2>4 DEF EntryIsOwed
<1>10. ASSUME NEW r \in Runs PROVE PostsAreAttempts(r)' /\ RowIsTrue(r)'
  <2>1. PostsAreAttempts(r) /\ RowIsTrue(r) /\ r[2] \in Nat
    BY FDAssumption DEF RowsInv, Runs, ByHand
  <2>2. PostsAreAttempts(r)'
    BY <1>2, <2>1 DEF PostsAreAttempts, Of, Delivery, Entry
  <2>3. status[r] # "none" /\ r[2] > 0 => Dispatched(r[2])'
    BY <1>6, <2>1 DEF RowIsTrue
  <2>4. ASSUME Alone(r)', status[r] # "none" PROVE Alone(r)
    <3>1. r[2] \in 1 .. n + 1
      BY <1>4, <2>4 DEF Alone
    <3>2. r[2] \in 1 .. n
      BY <1>3, <1>6, <2>1, <2>4, <3>1 DEF RowIsTrue
    <3> QED
      BY <1>4, <2>4, <3>2 DEF Alone
  <2>5. RowIsTrue(r)'
    BY <1>2, <2>1, <2>3, <2>4 DEF RowIsTrue, Settled
  <2> QED
    BY <2>2, <2>5
<1>11. QueuedOnce' /\ (attempt' > 0 => Busy(rgroup'))
  BY <1>2 DEF RowsInv, QueuedOnce, Of
<1> QED
  BY <1>2, <1>7, <1>8, <1>9, <1>10, <1>11 DEF RowsInv

\* A row by hand is of no event.
LEMMA TriggersKeepRows ==
    ASSUME RowsInv, NEW f \in Feeds, TriggerFeed(f)
    PROVE  RowsInv'
<1>1. UNCHANGED <<events, dgroup, toSend, lastRun, queue, rgroup, attempt, posted>>
  BY DEF TriggerFeed, dispatcher, runner
<1>2. status' \in [Runs -> Statuses]
  BY DEF TriggerFeed, RowsInv, RowTypes, Statuses
<1>3. ASSUME NEW r \in Runs, r # <<f, ByHand>> PROVE status'[r] = status[r]
  BY <1>3 DEF TriggerFeed, RowsInv, RowTypes
<1>4. ASSUME NEW r \in Runs, r = <<f, ByHand>> PROVE r[2] = 0 /\ ~Alone(r)
  BY <1>4 DEF ByHand, Alone, RowsInv, RowTypes
<1>5. ASSUME NEW r \in Runs PROVE PostsAreAttempts(r)' /\ RowIsTrue(r)'
  <2>1. PostsAreAttempts(r) /\ RowIsTrue(r)
    BY DEF RowsInv
  <2>2. RowIsTrue(r)'
    BY <1>1, <1>3, <1>4, <2>1 DEF RowIsTrue, Alone, Dispatched
  <2> QED
    BY <1>1, <2>1, <2>2 DEF PostsAreAttempts, Of, Delivery, Entry
<1> QED
  BY <1>1, <1>2, <1>5 DEF RowsInv, RowTypes, Dispatching, EntryIsOwed, Dispatched, QueuedOnce, Of

LEMMA CommitsKeepRows ==
    ASSUME RowsInv, DispatcherCommits
    PROVE  RowsInv'
<1> DEFINE c == Current(dgroup)
<1>1. /\ Busy(dgroup) /\ lastRun = NoRun /\ toSend' = events[c]
      /\ \E f \in events[c] : lastRun' = <<f, c>>
      /\ UNCHANGED <<events, dgroup, queue, rgroup, attempt, posted>>
  BY DEF DispatcherCommits, runner
<1>2. c \in 1 .. Len(events) /\ c = Done(dgroup) + 1 /\ Done(dgroup) \in Nat
  BY <1>1, GroupsShape, GroupWorks
<1>3. status' = [r \in Runs |-> IF r[1] \in events[c] /\ r[2] = c THEN "pending" ELSE status[r]]
  BY DEF DispatcherCommits
<1> HIDE DEF c
<1>4. lastRun' # NoRun
  BY <1>1 DEF NoRun
<1>5. \A e \in Nat : (Dispatched(e)' <=> e <= c) /\ (Dispatched(e) <=> e < c)
  BY <1>1, <1>2, <1>4 DEF Dispatched
<1>6. RowTypes'
  BY <1>1, <1>3 DEF RowsInv, RowTypes, Statuses
<1>7. Dispatching'
  BY <1>1, <1>4 DEF Dispatching, c
<1>8. ASSUME NEW i \in 1 .. Len(queue) PROVE EntryIsOwed(i)'
  <2>1. EntryIsOwed(i)
    BY DEF RowsInv
  <2>2. queue[i].run[2] \in Nat
    <3>1. queue[i] \in [run : Runs, feed : Feeds]
      BY ElementOfSeq DEF RowsInv, RowTypes
    <3> QED
      BY <3>1, FDAssumption DEF Runs, ByHand
  <2>3. queue[i].run[2] < c
    BY <1>5, <2>1, <2>2 DEF EntryIsOwed
  <2> QED
    BY <1>1, <1>2, <1>5, <2>1, <2>2, <2>3 DEF EntryIsOwed
<1>9. ASSUME NEW r \in Runs PROVE PostsAreAttempts(r)' /\ RowIsTrue(r)'
  <2>1. PostsAreAttempts(r) /\ RowIsTrue(r) /\ r[2] \in Nat
    BY FDAssumption DEF RowsInv, Runs, ByHand
  <2>2. CASE r[1] \in events[c] /\ r[2] = c
    <3>1. status'[r] = "pending" /\ Dispatched(r[2])'
      BY <1>2, <1>3, <1>5, <2>2
    <3> QED
      BY <1>1, <2>1, <3>1 DEF RowIsTrue, PostsAreAttempts, Settled, Of, Delivery, Entry
  <2>3. CASE ~(r[1] \in events[c] /\ r[2] = c)
    <3>1. status'[r] = status[r] /\ (Dispatched(r[2]) => Dispatched(r[2])')
      BY <1>2, <1>3, <1>5, <2>1, <2>3
    <3> QED
      BY <1>1, <2>1, <3>1 DEF RowIsTrue, PostsAreAttempts, Alone, Of, Delivery, Entry
  <2> QED
    BY <2>2, <2>3
<1>10. QueuedOnce' /\ (attempt' > 0 => Busy(rgroup'))
  BY <1>1 DEF RowsInv, QueuedOnce, Of
<1> QED
  BY <1>1, <1>6, <1>7, <1>8, <1>9, <1>10 DEF RowsInv

LEMMA EnqueuesKeepRows ==
    ASSUME RowsInv, DispatcherEnqueues,
           NEW c, c = Current(dgroup), NEW m, m = Len(queue)
    PROVE  RowsInv'
<1>1. PICK f \in toSend :
          /\ queue' = Append(queue, [run |-> lastRun, feed |-> f])
          /\ toSend' = toSend \ {f}
  BY DEF DispatcherEnqueues
<1>2. UNCHANGED <<events, dgroup, lastRun, status, rgroup, attempt, posted>>
  BY DEF DispatcherEnqueues, runner
<1>3. /\ lastRun # NoRun /\ Busy(dgroup) /\ toSend \subseteq events[c]
      /\ \E g \in events[c] : lastRun = <<g, c>>
  BY <1>1 DEF RowsInv, Dispatching
<1>4. c \in 1 .. Len(events) /\ c = Done(dgroup) + 1 /\ Done(dgroup) \in Nat
  BY <1>3, GroupsShape, GroupWorks
<1>5. events[c] \subseteq Feeds /\ c \in 0 .. MaxEvents
  BY <1>4, ElementOfSeq, FDAssumption DEF RowsInv, RowTypes
<1>6. lastRun \in Runs /\ f \in Feeds /\ lastRun[1] \in events[c] /\ lastRun[2] = c
  BY <1>1, <1>3, <1>5 DEF Runs, ByHand
<1>7. /\ queue \in Seq([run : Runs, feed : Feeds]) /\ m \in Nat
      /\ queue' \in Seq([run : Runs, feed : Feeds]) /\ Len(queue') = m + 1
      /\ \A i \in 1 .. m : queue'[i] = queue[i]
      /\ queue'[m + 1] = [run |-> lastRun, feed |-> f]
  BY <1>1, <1>6, AppendProperties DEF RowsInv, RowTypes
<1>8. RowTypes'
  <2>1. GroupShape(rgroup, m)
    BY GroupsShape
  <2>2. GroupShape(rgroup, m + 1)
    BY <1>7, <2>1, GroupGrows
  <2> QED
    BY <1>2, <1>7, <2>2 DEF RowsInv, RowTypes
<1>9. Dispatching'
  BY <1>1, <1>2, <1>3 DEF Dispatching
<1>10. /\ queue'[m + 1].run = lastRun /\ queue'[m + 1].feed = f /\ Of(m + 1)' = <<f, c>>
       /\ \A i \in 1 .. m : Of(i)' = Of(i)
  <2>1. queue'[m + 1].run = lastRun /\ queue'[m + 1].feed = f
    BY <1>7
  <2> QED
    BY <1>6, <1>7, <2>1 DEF Of
<1>11. ASSUME NEW i \in 1 .. m + 1 PROVE EntryIsOwed(i)'
  <2>1. CASE i \in 1 .. m
    <3>1. EntryIsOwed(i) /\ queue'[i] = queue[i]
      BY <1>7, <2>1 DEF RowsInv
    <3> QED
      BY <1>1, <1>2, <3>1 DEF EntryIsOwed, Dispatched
  <2>2. CASE i = m + 1
    <3>1. c \in DOMAIN events /\ Dispatched(c)'
      BY <1>2, <1>3, <1>4 DEF Dispatched, RowsInv, RowTypes
    <3>2. queue'[i].run[2] = c /\ queue'[i].feed = f /\ queue'[i].run[1] \in events[c] /\ f \notin toSend'
      BY <1>1, <1>6, <1>10, <2>2
    <3> QED
      BY <1>1, <1>2, <1>3, <3>1, <3>2 DEF EntryIsOwed
  <2> QED
    BY <1>7, <2>1, <2>2
<1>12. \A i \in 1 .. m : Of(i) # <<f, c>>
  <2> SUFFICES ASSUME NEW i \in 1 .. m, Of(i) = <<f, c>> PROVE FALSE
    OBVIOUS
  <2>1. EntryIsOwed(i)
    BY DEF RowsInv
  <2> QED
    BY <1>1, <1>3, <1>4, <2>1 DEF EntryIsOwed, Of
<1>13. QueuedOnce'
  <2> SUFFICES ASSUME NEW i \in 1 .. m + 1, NEW j \in 1 .. m + 1, Of(i)' = Of(j)'
               PROVE  i = j
    BY <1>7 DEF QueuedOnce
  <2>1. (i \in 1 .. m \/ i = m + 1) /\ (j \in 1 .. m \/ j = m + 1)
    BY <1>7
  <2>2. CASE i \in 1 .. m /\ j \in 1 .. m
    BY <1>10, <2>2 DEF RowsInv, QueuedOnce
  <2> QED
    BY <1>10, <1>12, <2>1, <2>2
<1>14. ASSUME NEW r \in Runs PROVE PostsAreAttempts(r)' /\ RowIsTrue(r)'
  <2>1. PostsAreAttempts(r) /\ RowIsTrue(r)
    BY DEF RowsInv
  <2>2. \A i \in 1 .. m : i \in 1 .. m + 1
    BY <1>7
  <2>3. Busy(rgroup) => Delivery' = Delivery
    <3> SUFFICES ASSUME Busy(rgroup) PROVE Delivery' = Delivery
      OBVIOUS
    <3>1. Current(rgroup) \in 1 .. m
      BY EntryIsNew
    <3> QED
      BY <1>2, <1>7, <3>1 DEF Delivery, Entry
  <2>4. PostsAreAttempts(r)'
    BY <1>2, <1>7, <1>10, <2>1, <2>2, <2>3 DEF PostsAreAttempts
  <2>5. RowIsTrue(r)'
    BY <1>2, <1>7, <2>1, <2>2 DEF RowIsTrue, Alone, Dispatched
  <2> QED
    BY <2>4, <2>5
<1> QED
  BY <1>2, <1>7, <1>8, <1>9, <1>11, <1>13, <1>14 DEF RowsInv

\* What the runner has delivered: nothing new, or the feed of its entry once.
Posts ==
    \/ UNCHANGED posted
    \/ attempt \in 1 .. MaxAttempts /\ posted' = [posted EXCEPT ![Delivery] = @ + 1]

LEMMA PostsCount ==
    ASSUME RowsInv, Busy(rgroup), Posts
    PROVE  /\ posted' \in [Runs -> Nat]
           /\ \A r \in Runs : posted'[r] <= MaxAttempts /\ posted'[r] >= posted[r]
           /\ \A r \in Runs \ {Delivery} : posted'[r] = posted[r]
           /\ posted'[Delivery] > 0 => attempt + 1 > posted'[Delivery]
           /\ posted' # posted => posted'[Delivery] > 0
<1>1. Delivery \in Runs /\ (posted[Delivery] = 0 \/ attempt > posted[Delivery])
  BY EntryIsNew
<1>2. /\ posted \in [Runs -> Nat] /\ attempt \in Nat /\ MaxAttempts \in Nat
      /\ \A r \in Runs : posted[r] <= MaxAttempts
  BY FDAssumption DEF RowsInv, RowTypes, PostsAreAttempts
<1>3. CASE UNCHANGED posted
  BY <1>1, <1>2, <1>3
<1>4. CASE attempt \in 1 .. MaxAttempts /\ posted' = [posted EXCEPT ![Delivery] = @ + 1]
  <2>1. posted'[Delivery] = posted[Delivery] + 1 /\ posted[Delivery] \in Nat
    BY <1>1, <1>2, <1>4
  <2>2. posted'[Delivery] <= attempt /\ attempt <= MaxAttempts
    BY <1>1, <1>2, <1>4, <2>1
  <2>3. \A r \in Runs \ {Delivery} : posted'[r] = posted[r]
    BY <1>2, <1>4
  <2> QED
    BY <1>1, <1>2, <1>4, <2>1, <2>2, <2>3
<1> QED
  BY <1>3, <1>4 DEF Posts

\* A step of the runner leaves the dispatcher's side as it is.
LEMMA DispatchedStays ==
    ASSUME RowsInv, UNCHANGED <<events, dgroup, toSend, lastRun, queue>>
    PROVE  /\ Dispatching' /\ QueuedOnce'
           /\ \A i \in 1 .. Len(queue') : EntryIsOwed(i)'
           /\ \A e : Dispatched(e)' <=> Dispatched(e)
           /\ \A r : Alone(r)' <=> Alone(r)
           /\ \A i : Of(i)' = Of(i)
BY DEF RowsInv, Dispatching, QueuedOnce, EntryIsOwed, Dispatched, Alone, Of

\* The runner goes on with its entry.
LEMMA AttemptsKeepRows ==
    ASSUME RowsInv, Busy(rgroup), UNCHANGED <<events, dgroup, toSend, lastRun, queue, rgroup>>,
           Posts, attempt' = attempt + 1, attempt <= MaxAttempts,
           UNCHANGED status \/ status' = [status EXCEPT ![Entry.run] = "running"]
    PROVE  RowsInv'
<1>1. /\ \A e : Dispatched(e)' <=> Dispatched(e)
      /\ \A r : Alone(r)' <=> Alone(r)
      /\ \A i : Of(i)' = Of(i)
  BY DispatchedStays
<1>2. /\ posted' \in [Runs -> Nat]
      /\ \A r \in Runs : posted'[r] <= MaxAttempts /\ posted'[r] >= posted[r]
      /\ \A r \in Runs \ {Delivery} : posted'[r] = posted[r]
      /\ posted'[Delivery] > 0 => attempt' > posted'[Delivery]
  BY PostsCount
<1>3. Entry.run \in Runs /\ Delivery \in Runs /\ Delivery' = Delivery
  BY EntryIsNew DEF Delivery, Entry
<1>4. /\ status' \in [Runs -> Statuses] /\ status[Entry.run] \in Statuses
      /\ \A r \in Runs : \/ status'[r] = status[r]
                         \/ r = Entry.run /\ status'[r] = "running"
  BY <1>3 DEF RowsInv, RowTypes, Statuses
<1>5. RowTypes'
  BY <1>2, <1>4, FDAssumption DEF RowsInv, RowTypes
<1>6. Dispatched(Entry.run[2])
  <2>1. Entry = queue[Current(rgroup)] /\ Current(rgroup) \in 1 .. Len(queue)
    BY EntryIsNew
  <2> QED
    BY <2>1 DEF RowsInv, EntryIsOwed
<1>7. ASSUME NEW r \in Runs PROVE PostsAreAttempts(r)' /\ RowIsTrue(r)'
  <2>1. PostsAreAttempts(r) /\ RowIsTrue(r)
    BY DEF RowsInv
  <2>2. PostsAreAttempts(r)'
    <3>1. CASE r = Delivery
      BY <1>2, <1>3, <3>1 DEF PostsAreAttempts
    <3>2. CASE r # Delivery
      BY <1>1, <1>2, <2>1, <3>2 DEF PostsAreAttempts
    <3> QED
      BY <3>1, <3>2
  <2>3. RowIsTrue(r)'
    <3>1. CASE status'[r] = status[r]
      <4>1. posted[r] \in Nat /\ posted'[r] \in Nat /\ posted'[r] >= posted[r]
        BY <1>2 DEF RowsInv, RowTypes
      <4> QED
        BY <1>1, <2>1, <3>1, <4>1 DEF RowIsTrue
    <3>2. CASE r = Entry.run /\ status'[r] = "running"
      BY <1>1, <1>6, <3>2 DEF RowIsTrue, Settled
    <3> QED
      BY <1>4, <3>1, <3>2
  <2> QED
    BY <2>2, <2>3
<1> QED
  BY <1>5, <1>7, DispatchedStays DEF RowsInv

\* The runner is done with its entry.
LEMMA SettlementsKeepRows ==
    ASSUME RowsInv, Busy(rgroup), UNCHANGED <<events, dgroup, toSend, lastRun, queue>>,
           Posts, attempt' = 0, rgroup' = Acked(rgroup), NEW row \in Settled,
           status' = [status EXCEPT ![Entry.run] = row],
           row = "delivered" => posted' # posted
    PROVE  RowsInv'
<1> DEFINE c == Current(rgroup)
<1>1. /\ \A e : Dispatched(e)' <=> Dispatched(e)
      /\ \A r : Alone(r)' <=> Alone(r)
      /\ \A i : Of(i)' = Of(i)
  BY DispatchedStays
<1>2. /\ posted' \in [Runs -> Nat]
      /\ \A r \in Runs : posted'[r] <= MaxAttempts /\ posted'[r] >= posted[r]
      /\ \A r \in Runs \ {Delivery} : posted'[r] = posted[r]
      /\ posted' # posted => posted'[Delivery] > 0
  BY PostsCount
<1>3. /\ c \in 1 .. Len(queue) /\ c = Done(rgroup) + 1 /\ Done(rgroup) \in Nat
      /\ Entry = queue[c] /\ Entry.run \in Runs /\ Delivery \in Runs /\ Of(c) = Delivery
      /\ Alone(Entry.run) => Delivery = Entry.run
  BY EntryIsNew
<1>4. GroupShape(rgroup', Len(queue)) /\ Done(rgroup') = c
  BY <1>3, GroupsShape, GroupWorks
<1> HIDE DEF c
<1>5. \A i \in 1 .. Len(queue) : i <= Done(rgroup) => i <= Done(rgroup')
  BY <1>3, <1>4
<1>6. c <= Done(rgroup')
  BY <1>3, <1>4
<1>7. /\ status' \in [Runs -> Statuses] /\ status'[Entry.run] = row
      /\ \A r \in Runs \ {Entry.run} : status'[r] = status[r]
  BY <1>3 DEF RowsInv, RowTypes, Statuses, Settled
<1>8. RowTypes'
  BY <1>2, <1>4, <1>7, FDAssumption DEF RowsInv, RowTypes
<1>9. Dispatched(Entry.run[2])
  BY <1>3 DEF RowsInv, EntryIsOwed
<1>10. ASSUME NEW r \in Runs PROVE PostsAreAttempts(r)' /\ RowIsTrue(r)'
  <2>1. PostsAreAttempts(r) /\ RowIsTrue(r)
    BY DEF RowsInv
  <2>2. PostsAreAttempts(r)'
    <3>1. CASE r = Delivery
      <4>1. \E i \in 1 .. Len(queue') : i <= Done(rgroup') /\ Of(i)' = r
        BY <1>1, <1>3, <1>6, <3>1
      <4> QED
        BY <1>2, <4>1 DEF PostsAreAttempts
    <3>2. CASE r # Delivery
      <4>1. posted'[r] > 0 => \E i \in 1 .. Len(queue') : i <= Done(rgroup') /\ Of(i)' = r
        BY <1>1, <1>2, <1>5, <2>1, <3>2 DEF PostsAreAttempts
      <4> QED
        BY <1>2, <4>1 DEF PostsAreAttempts
    <3> QED
      BY <3>1, <3>2
  <2>3. RowIsTrue(r)'
    <3>1. posted[r] \in Nat /\ posted'[r] \in Nat /\ posted'[r] >= posted[r]
      BY <1>2 DEF RowsInv, RowTypes
    <3>2. CASE r # Entry.run
      BY <1>1, <1>5, <1>7, <2>1, <3>1, <3>2 DEF RowIsTrue
    <3>3. CASE r = Entry.run
      <4>1. Alone(r) => \E i \in 1 .. Len(queue') : i <= Done(rgroup') /\ queue'[i].run = r
        BY <1>3, <1>6, <3>3
      <4>2. Alone(r) /\ status'[r] = "delivered" => posted'[r] > 0
        BY <1>2, <1>3, <1>7, <3>3
      <4> QED
        BY <1>1, <1>9, <3>3, <4>1, <4>2 DEF RowIsTrue
    <3> QED
      BY <3>2, <3>3
  <2> QED
    BY <2>2, <2>3
<1> QED
  BY <1>8, <1>10, DispatchedStays DEF RowsInv

LEMMA RunnerKeepsRows ==
    ASSUME RowsInv, RunnerLoads \/ AttemptSucceeds \/ AttemptFails \/ RunnerGivesUp
    PROVE  RowsInv'
<1>1. /\ Busy(rgroup) /\ MaxAttempts \in Nat \ {0}
      /\ UNCHANGED <<events, dgroup, toSend, lastRun, queue>>
  BY FDAssumption
     DEF RowsInv, RunnerLoads, AttemptSucceeds, AttemptFails, RunnerGivesUp, dispatcher
<1>2. CASE RunnerLoads
  <2>1. attempt = 0 /\ Posts
    BY <1>2 DEF RunnerLoads, Posts
  <2>2. CASE /\ status' = [status EXCEPT ![Entry.run] = "running"]
             /\ attempt' = 1 /\ UNCHANGED rgroup
    BY <1>1, <2>1, <2>2, AttemptsKeepRows
  <2>3. CASE /\ status' = [status EXCEPT ![Entry.run] = "failed"]
             /\ rgroup' = Acked(rgroup) /\ UNCHANGED attempt
    BY <1>1, <2>1, <2>3, SettlementsKeepRows DEF Settled
  <2> QED
    BY <1>2, <2>2, <2>3 DEF RunnerLoads
<1>3. CASE AttemptSucceeds
  <2>1. /\ Posts /\ attempt' = 0 /\ rgroup' = Acked(rgroup)
        /\ posted' = [posted EXCEPT ![Delivery] = @ + 1]
        /\ status' = [status EXCEPT ![Entry.run] = "delivered"]
    BY <1>3 DEF AttemptSucceeds, Posts
  <2>2. posted' # posted
    <3>1. Delivery \in Runs
      BY <1>1, EntryIsNew
    <3>2. posted[Delivery] \in Nat /\ posted'[Delivery] = posted[Delivery] + 1
      BY <2>1, <3>1 DEF RowsInv, RowTypes
    <3> QED
      BY <3>2
  <2> QED
    BY <1>1, <2>1, <2>2, SettlementsKeepRows DEF Settled
<1>4. CASE AttemptFails
  <2>1. Posts /\ attempt' = attempt + 1 /\ attempt <= MaxAttempts /\ UNCHANGED <<status, rgroup>>
    BY <1>1, <1>4 DEF AttemptFails, Posts
  <2> QED
    BY <1>1, <2>1, AttemptsKeepRows
<1>5. CASE RunnerGivesUp
  BY <1>1, <1>5, SettlementsKeepRows DEF RunnerGivesUp, Posts, Settled
<1> QED
  BY <1>2, <1>3, <1>4, <1>5

LEMMA RowsStay == ASSUME RowsInv, [Next]_vars PROVE RowsInv'
BY EventsKeepRows, TriggersKeepRows, CommitsKeepRows, EnqueuesKeepRows, OthersKeepRows,
   RunnerKeepsRows DEF Next, DispatcherNext, RunnerNext

\* A row of one feed is executed by one entry, which is new to the runner.
LEMMA SettledRowsRest ==
    ASSUME RowsInv, [Next]_vars, NEW r \in Runs, Alone(r), status[r] \in Settled
    PROVE  status'[r] = status[r]
<1>1. RowIsTrue(r) /\ status[r] # "none" /\ r[2] \in Nat \ {0}
  BY FDAssumption DEF RowsInv, Settled, Alone, RowTypes
<1>2. Dispatched(r[2])
  BY <1>1 DEF RowIsTrue
<1>3. PICK i \in 1 .. Len(queue) : i <= Done(rgroup) /\ queue[i].run = r
  BY <1>1 DEF RowIsTrue
<1>4. CASE RunnerLoads \/ AttemptSucceeds \/ RunnerGivesUp
  <2>1. Busy(rgroup)
    BY <1>4, FDAssumption DEF RowsInv, RunnerLoads, AttemptSucceeds, RunnerGivesUp
  <2>2. Entry.run # r
    BY <1>3, <2>1, EntryIsNew
  <2>3. \E row : status' = [status EXCEPT ![Entry.run] = row]
    BY <1>4 DEF RunnerLoads, AttemptSucceeds, RunnerGivesUp
  <2> QED
    BY <2>2, <2>3 DEF RowsInv, RowTypes
<1>5. CASE DispatcherCommits
  <2>1. r[2] # Current(dgroup)
    <3>1. Busy(dgroup) /\ lastRun = NoRun
      BY <1>5 DEF DispatcherCommits
    <3>2. Current(dgroup) = Done(dgroup) + 1 /\ Done(dgroup) \in Nat
      BY <3>1, GroupsShape, GroupWorks
    <3> QED
      BY <1>2, <3>1, <3>2 DEF Dispatched
  <2> QED
    BY <1>5, <2>1 DEF DispatcherCommits
<1>6. ASSUME NEW f \in Feeds, TriggerFeed(f) PROVE status'[r] = status[r]
  <2>1. r # <<f, ByHand>>
    BY <1>1 DEF ByHand
  <2> QED
    BY <1>6, <2>1 DEF TriggerFeed, RowsInv, RowTypes
<1> QED
  BY <1>4, <1>5, <1>6
     DEF Next, DispatcherNext, RunnerNext, vars, MeetingEvent, DispatcherFails, RunnerFails, Crash,
         DispatcherReads, DispatcherEnqueues, DispatcherAcks, RunnerReads, AttemptFails

\* What the rows of feed_runs say stays true, for any feeds, events, batches,
\* restarts and failing calls: no delivery beyond the attempts of the runner,
\* none of a settled row, and none that a row invents (FeedDispatcher,
\* FeedRunner._execute_run).
THEOREM RowsStayTrue == Spec => RowsTellTheTruth
<1>1. RowsInv => PostsAreBounded /\ DeliveredWasPosted
  BY DEF RowsInv, PostsAreBounded, DeliveredWasPosted, PostsAreAttempts, RowIsTrue
<1>2. RowsInv /\ [Next]_vars =>
          [\A r \in Runs : Alone(r) /\ status[r] \in Settled => status'[r] = status[r]]_vars
  BY SettledRowsRest
<1> QED
  BY <1>1, <1>2, RowsBegin, RowsStay, PTL DEF Spec, RowsTellTheTruth, SettledStays
-----------------------------------------------------------------------------
\* McpServer: the calls of the server and the sessions of its client

\* A call is a record of its tool, where it stands and what it has in hand.
CallShape ==
    /\ call = [c \in Calls |-> call[c]]
    /\ \A c \in Calls : DOMAIN call[c] = {"tool", "at", "conn", "mid", "now"}
ClientShape ==
    /\ gc = [k \in Conns |-> gc[k]]
    /\ \A k \in Conns : DOMAIN gc[k] = {"ws", "meetingId", "listening", "subscribed", "heard"}
SessionShape ==
    /\ outbox = [k \in Conns |-> outbox[k]] /\ wire = [k \in Conns |-> wire[k]]
    /\ home = [k \in Conns |-> home[k]] /\ inside = [k \in Conns |-> inside[k]]

Joiners == {"join_meeting", "join_or_create_meeting"}

Opening(c) == call[c].at \in {"connect", "joined"}
Leaving(c) == call[c].at \in {"close", "unlisten"}
\* Which tool stands where, and what it has in hand there.
CallIsPlaced(c) ==
    /\ call[c].tool \in scene.tools \cup {"none"}
    /\ call[c].at # "idle" => call[c].tool \in scene.tools
    /\ call[c].at \in {"create", "start"} => call[c].tool = "join_or_create_meeting"
    /\ call[c].at \in {"start", "exchange", "connect", "joined"} => call[c].mid \in Meetings
    /\ call[c].at = "exchange" \/ Opening(c) => call[c].tool \in Joiners
    /\ Leaving(c) => call[c].tool = "leave_meeting"
    /\ Opening(c) \/ Leaving(c) => call[c].conn \in Conns
\* The client of a call that joins has nothing yet, and is no other such
\* call's.
JoinerIsAlone(c) ==
    /\ ~gc[call[c].conn].listening /\ gc[call[c].conn].heard = <<>>
    /\ gc[call[c].conn].ws = "new" <=> call[c].at = "connect"
    /\ \A d \in Calls : Opening(d) /\ call[d].conn = call[c].conn => d = c
\* A client whose socket was never opened.
ClientIsNew(k) ==
    /\ home[k] = None /\ wire[k] = <<>> /\ outbox[k] = <<>> /\ k \notin replies
    /\ ~gc[k].listening /\ gc[k].heard = <<>>
Messages == ({"join"} \X Meetings) \cup ({"subscribe", "data"} \X Channels)
                \cup {<<"leave">>, <<"start_speaking">>, <<"spoken_text">>, <<"stop_speaking">>}
CallInv ==
    /\ CallShape /\ ClientShape /\ SessionShape
    /\ scene \in Scenes /\ client \in Conns \cup {None}
    /\ \A c \in Calls :
           /\ CallIsPlaced(c) /\ (Opening(c) => JoinerIsAlone(c))
           /\ call[c].at = "close" => gc[call[c].conn].ws # "new"
    /\ \A k \in Conns :
           /\ outbox[k] \in Seq(Messages)
           /\ gc[k].ws = "new" => ClientIsNew(k)
           /\ home[k] \in scene.running \cup {None} /\ inside[k] \in Meetings \cup {None}
           /\ inside[k] # None => home[k] # None

-----------------------------------------------------------------------------
\* Calls

\* One call takes a step.
Calling(c) == CallShape' /\ \A d \in Calls \ {c} : call'[d] = call[d]
\* It begins to work, is on its way, or is done.
Entering(c) ==
    /\ call'[c].tool \in scene.tools /\ call'[c].conn = None
    /\ call'[c].at \in {"token", "act"} \/ (call'[c].at = "limit" /\ call'[c].now = clock)
Working(c) ==
    /\ call[c].at # "idle" /\ call'[c].tool = call[c].tool /\ call'[c].conn = call[c].conn
    /\ call'[c].at \in {"act", "text", "stop", "finish"}
Preparing(c) ==
    /\ call[c].at # "idle" /\ call'[c].tool = call[c].tool /\ call'[c].conn = call[c].conn
    /\ call[c].tool \in Joiners
    /\ \/ call'[c].at = "create" /\ call[c].tool = "join_or_create_meeting"
       \/ call'[c].at = "start" /\ call[c].tool = "join_or_create_meeting" /\ call'[c].mid \in Meetings
       \/ call'[c].at = "exchange" /\ call'[c].mid \in Meetings /\ ~InMeeting
\* A message is sent to the session; it is not about to join.
Says(k) ==
    \/ outbox'[k] = outbox[k]
    \/ /\ gc[k].ws = "up"
       /\ \E msg \in Messages : msg[1] # "join" /\ outbox'[k] = Append(outbox[k], msg)
\* Its client, its socket and the gateway see nothing of it but messages.
Unseen ==
    /\ ClientShape' /\ SessionShape'
    /\ \A k \in Conns :
           /\ gc'[k].ws = gc[k].ws /\ gc'[k].meetingId = gc[k].meetingId
           /\ gc'[k].listening = gc[k].listening /\ gc'[k].heard = gc[k].heard
           /\ Says(k)
    /\ UNCHANGED <<client, replies, relayVars>>
\* Session calls of others are noticed.
StaysClean(c) ==
    clean' => /\ clean
              /\ \/ call'[c].tool \in {call[c].tool, "none"} \/ call'[c].tool \notin SessionTools
                 \/ \A d \in Calls : call[d].tool \notin SessionTools
Quiet(c) ==
    /\ Calling(c) /\ Unseen /\ StaysClean(c) /\ ~Opening(c) /\ ~Leaving(c)
    /\ call'[c] = NoCall \/ Entering(c) \/ Working(c) \/ Preparing(c)

LEMMA EndsCalls ==
    ASSUME CallShape, NEW c \in Calls, Ends(c)
    PROVE  Calling(c) /\ call'[c] = NoCall
BY DEF CallShape, Ends, Calling, NoCall

LEMMA GoesCalls ==
    ASSUME CallShape, NEW c \in Calls, NEW at, Goes(c, at)
    PROVE  /\ Calling(c) /\ call'[c].tool = call[c].tool /\ call'[c].conn = call[c].conn
           /\ call'[c].mid = call[c].mid /\ call'[c].now = call[c].now /\ call'[c].at = at
BY DEF CallShape, Goes, Calling

LEMMA SecurityCheckCalls ==
    ASSUME CallShape, NEW c \in Calls, NEW t \in scene.tools, SecurityCheck(c, t)
    PROVE  Calling(c) /\ (call'[c] = NoCall \/ Entering(c)) /\ call'[c].tool \in {t, "none"}
<1>1. call' = [call EXCEPT ![c] = call'[c]] /\ call'[c] \in
          {[NoCall EXCEPT !.tool = t, !.at = "act"], NoCall,
           [NoCall EXCEPT !.tool = t, !.at = "limit", !.now = clock]}
  BY DEF SecurityCheck, CallShape
<1>2. DOMAIN call'[c] = {"tool", "at", "conn", "mid", "now"}
  BY <1>1 DEF NoCall
<1>3. Calling(c)
  BY <1>1, <1>2 DEF CallShape, Calling
<1>4. call'[c] = NoCall \/ Entering(c)
  BY <1>1 DEF Entering, NoCall
<1>5. call'[c].tool \in {t, "none"}
  <2>1. /\ NoCall.tool = "none" /\ [NoCall EXCEPT !.tool = t, !.at = "act"].tool = t
        /\ [NoCall EXCEPT !.tool = t, !.at = "limit", !.now = clock].tool = t
    BY DEF NoCall
  <2> QED
    BY <1>1, <2>1
<1> QED
  BY <1>3, <1>4, <1>5

LEMMA JoinsCalls ==
    ASSUME CallShape, NEW c \in Calls, NEW m \in Meetings, Joins(c, m), call[c].tool \in Joiners,
           call[c].at # "idle"
    PROVE  Calling(c) /\ (call'[c] = NoCall \/ Preparing(c))
<1>1. CASE InMeeting
  BY <1>1 DEF Joins, CallShape, Calling, NoCall
<1>2. CASE ~InMeeting
  BY <1>2 DEF Joins, CallShape, Calling, Preparing
<1> QED
  BY <1>1, <1>2

LEMMA UnseenIfSame ==
    ASSUME ClientShape, SessionShape, UNCHANGED <<client, gc, outbox, replies, relayVars>>
    PROVE  Unseen
BY DEF ClientShape, SessionShape, Unseen, Says, relayVars

LEMMA SendsUnseen ==
    ASSUME ClientShape, SessionShape, client \in Conns \cup {None},
           NEW msg \in Messages, Sends(msg), msg[1] # "join", UNCHANGED <<client, gc, replies, relayVars>>
    PROVE  Unseen
<1>1. client \in Conns /\ gc[client].ws = "up" /\ outbox' = [outbox EXCEPT ![client] = Append(outbox[client], msg)]
  BY RelayAssumption DEF Sends, SocketIsUp
<1>2. SessionShape' /\ ClientShape'
  BY <1>1 DEF SessionShape, ClientShape, relayVars
<1>3. \A k \in Conns : Says(k)
  BY <1>1 DEF SessionShape, Says
<1> QED
  BY <1>2, <1>3 DEF Unseen

\* Tools that look into a buffer or ask another service.
Asking(c) ==
    \/ kutana_get_transcript(c) \/ kutana_get_participants(c)
    \/ kutana_get_channel_messages(c) \/ kutana_get_meeting_events(c)
    \/ kutana_list_meetings(c) \/ kutana_get_tasks(c) \/ kutana_create_task(c)
    \/ kutana_get_summary(c) \/ kutana_raise_hand(c) \/ kutana_get_queue_status(c)
    \/ kutana_start_speaking(c) \/ kutana_mark_finished_speaking(c)
    \/ kutana_cancel_hand_raise(c) \/ kutana_get_speaking_status(c)
    \/ kutana_send_chat_message(c) \/ kutana_get_chat_messages(c) \/ kutana_get_meeting_status(c)
\* Steps that nobody sees but who gets the messages.
QuietStep(c) ==
    \/ ExchangeForMcpToken(c) \/ RateLimit(c) \/ LimiterFails(c) \/ ApiFails(c) \/ Asking(c)
    \/ kutana_join_meeting(c) \/ kutana_join_or_create_meeting(c)
    \/ kutana_create_meeting(c) \/ kutana_start_meeting(c) \/ kutana_end_meeting(c)
    \/ kutana_subscribe_channel(c) \/ kutana_publish_to_channel(c) \/ kutana_set_context(c)
    \/ kutana_speak(c)

\* The tool of a call is no matter of its steps.
Quieted(c) == ~Opening(c) /\ ~Leaving(c) /\ UNCHANGED clean

LEMMA IsQuiet ==
    ASSUME NEW c \in Calls, Quieted(c), Calling(c), Unseen,
           call'[c] = NoCall \/ Working(c) \/ Preparing(c)
    PROVE  Quiet(c)
<1>1. call'[c].tool \in {call[c].tool, "none"}
  BY DEF Working, Preparing, NoCall
<1> QED
  BY <1>1 DEF Quiet, Quieted, StaysClean

LEMMA QuietSteps ==
    ASSUME CallShape, ClientShape, SessionShape, client \in Conns \cup {None}, NEW c \in Calls,
           call[c].at # "idle" => call[c].tool \in scene.tools,
           call[c].at = "start" => call[c].mid \in Meetings, QuietStep(c)
    PROVE  Quiet(c)
<1>1. CASE ExchangeForMcpToken(c)
  <2>1. /\ Calling(c) /\ (call'[c] = NoCall \/ Entering(c)) /\ call'[c].tool \in {call[c].tool, "none"}
    BY <1>1, EndsCalls, SecurityCheckCalls DEF ExchangeForMcpToken, NoCall
  <2> QED
    BY <1>1, <2>1, UnseenIfSame
       DEF Quiet, StaysClean, Opening, Leaving, ExchangeForMcpToken, Elsewhere
<1>2. CASE RateLimit(c) \/ LimiterFails(c)
  <2>1. Calling(c) /\ (call'[c] = NoCall \/ Working(c))
    BY <1>2, EndsCalls, GoesCalls DEF RateLimit, LimiterFails, Working
  <2>2. Quieted(c)
    BY <1>2 DEF Quieted, Opening, Leaving, RateLimit, LimiterFails, CallOnly
  <2> QED
    BY <1>2, <2>1, <2>2, IsQuiet, UnseenIfSame DEF RateLimit, LimiterFails, CallOnly, Elsewhere
<1>3. CASE ApiFails(c) \/ Asking(c)
  <2>1. Ends(c) /\ CallOnly
    BY <1>3
       DEF ApiFails, Asking, Answers, kutana_get_transcript, kutana_get_participants,
           kutana_get_channel_messages, kutana_get_meeting_events, kutana_list_meetings,
           kutana_get_tasks, kutana_create_task, kutana_get_summary, kutana_raise_hand,
           kutana_get_queue_status, kutana_start_speaking, kutana_mark_finished_speaking,
           kutana_cancel_hand_raise, kutana_get_speaking_status, kutana_send_chat_message,
           kutana_get_chat_messages, kutana_get_meeting_status
  <2>2. Quieted(c)
    BY <1>3, <2>1
       DEF ApiFails, Asking, Answers, On, Quieted, Opening, Leaving, CallOnly, kutana_get_transcript,
           kutana_get_participants, kutana_get_channel_messages, kutana_get_meeting_events,
           kutana_list_meetings, kutana_get_tasks, kutana_create_task, kutana_get_summary,
           kutana_raise_hand, kutana_get_queue_status, kutana_start_speaking,
           kutana_mark_finished_speaking, kutana_cancel_hand_raise, kutana_get_speaking_status,
           kutana_send_chat_message, kutana_get_chat_messages, kutana_get_meeting_status
  <2> QED
    BY <2>1, <2>2, IsQuiet, EndsCalls, UnseenIfSame DEF CallOnly, Elsewhere
<1>4. CASE kutana_join_meeting(c)
  <2>1. PICK m \in Meetings : Joins(c, m)
    BY <1>4 DEF kutana_join_meeting
  <2>2. Calling(c) /\ (call'[c] = NoCall \/ Preparing(c))
    BY <1>4, <2>1, JoinsCalls DEF kutana_join_meeting, On, Joiners
  <2> QED
    BY <1>4, <2>2, IsQuiet, UnseenIfSame DEF Quieted, Opening, Leaving, On, kutana_join_meeting, CallOnly, Elsewhere
<1>5. CASE kutana_join_or_create_meeting(c)
  <2>1. call[c].tool = "join_or_create_meeting" /\ call[c].at # "idle" /\ ApiOnly
    BY <1>5 DEF kutana_join_or_create_meeting
  <2>2. Calling(c) /\ (call'[c] = NoCall \/ Preparing(c))
    <3>1. CASE Goes(c, "create")
      BY <2>1, <3>1, GoesCalls DEF Preparing, Joiners
    <3>2. CASE \E m \in Meetings : call' = [call EXCEPT ![c].at = "start", ![c].mid = m]
      BY <2>1, <3>2 DEF CallShape, Calling, Preparing, Joiners
    <3>3. CASE \E m \in Meetings : Joins(c, m)
      BY <2>1, <3>3, JoinsCalls DEF Joiners
    <3>4. call[c].at = "start" /\ Room(call[c].mid, "new", "active") /\ Joins(c, call[c].mid) =>
              \E m \in Meetings : Joins(c, m)
      OBVIOUS
    <3> QED
      BY <1>5, <3>1, <3>2, <3>3, <3>4 DEF kutana_join_or_create_meeting
  <2>3. Quieted(c)
    BY <1>5, <2>1 DEF Quieted, Opening, Leaving, ApiOnly, kutana_join_or_create_meeting
  <2> QED
    BY <2>1, <2>2, <2>3, IsQuiet, UnseenIfSame DEF ApiOnly, Elsewhere
<1>6. CASE kutana_create_meeting(c) \/ kutana_start_meeting(c) \/ kutana_end_meeting(c)
  BY <1>6, IsQuiet, EndsCalls, UnseenIfSame
     DEF Quieted, Opening, Leaving, On, kutana_create_meeting, kutana_start_meeting, kutana_end_meeting, ApiOnly, Elsewhere
<1>7. ASSUME CannotSend, UNCHANGED <<client, gc, replies, relayVars>> PROVE Unseen
  BY <1>7, UnseenIfSame DEF CannotSend
<1>8. /\ \A ch \in Channels : /\ <<"subscribe", ch>> \in Messages /\ <<"subscribe", ch>>[1] # "join"
                             /\ <<"data", ch>> \in Messages /\ <<"data", ch>>[1] # "join"
      /\ <<"start_speaking">> \in Messages /\ <<"start_speaking">>[1] # "join"
      /\ <<"spoken_text">> \in Messages /\ <<"spoken_text">>[1] # "join"
      /\ <<"stop_speaking">> \in Messages /\ <<"stop_speaking">>[1] # "join"
  BY DEF Messages
<1>9. CASE kutana_subscribe_channel(c)
  <2>1. PICK ch \in Channels :
          /\ gc' = IF client = None THEN gc ELSE [gc EXCEPT ![client].subscribed = @ \cup {ch}]
          /\ Sends(<<"subscribe", ch>>) \/ CannotSend
    BY <1>9 DEF kutana_subscribe_channel
  <2>2. Ends(c) /\ UNCHANGED <<client, clean, replies, relayVars>>
    BY <1>9 DEF kutana_subscribe_channel, Elsewhere
  <2>3. /\ ClientShape'
        /\ \A k \in Conns : /\ gc'[k].ws = gc[k].ws /\ gc'[k].meetingId = gc[k].meetingId
                            /\ gc'[k].listening = gc[k].listening /\ gc'[k].heard = gc[k].heard
    BY <2>1 DEF ClientShape
  <2>4. /\ SessionShape'
        /\ \A k \in Conns : Says(k)
    <3>1. CASE CannotSend
      BY <2>2, <3>1 DEF CannotSend, SessionShape, relayVars, Says
    <3>2. CASE Sends(<<"subscribe", ch>>)
      <4>1. /\ client \in Conns /\ gc[client].ws = "up"
            /\ outbox' = [outbox EXCEPT ![client] = Append(outbox[client], <<"subscribe", ch>>)]
        BY <3>2 DEF Sends, SocketIsUp
      <4> QED
        BY <1>8, <2>2, <4>1 DEF SessionShape, relayVars, Says
    <3> QED
      BY <2>1, <3>1, <3>2
  <2>5. Unseen
    BY <2>2, <2>3, <2>4 DEF Unseen
  <2>6. Quieted(c)
    BY <1>9, <2>2 DEF Quieted, Opening, Leaving, On, kutana_subscribe_channel
  <2> QED
    BY <2>2, <2>5, <2>6, IsQuiet, EndsCalls
<1>10. CASE kutana_publish_to_channel(c) \/ kutana_set_context(c)
  <2>1. Ends(c) /\ UNCHANGED <<client, gc, clean, replies, relayVars>>
    BY <1>10 DEF kutana_publish_to_channel, kutana_set_context, Elsewhere
  <2>2. UNCHANGED outbox \/ CannotSend \/ \E ch \in Channels : Sends(<<"data", ch>>)
    BY <1>10 DEF kutana_publish_to_channel, kutana_set_context
  <2>3. Unseen
    BY <1>7, <1>8, <2>1, <2>2, SendsUnseen, UnseenIfSame
  <2>4. Quieted(c)
    BY <1>10, <2>1 DEF Quieted, Opening, Leaving, On, kutana_publish_to_channel, kutana_set_context
  <2> QED
    BY <2>1, <2>3, <2>4, IsQuiet, EndsCalls
<1>11. CASE kutana_speak(c)
  <2>1. /\ UNCHANGED <<client, gc, clean, replies, relayVars>>
        /\ \/ Ends(c) /\ UNCHANGED outbox
           \/ Ends(c) /\ CannotSend
           \/ Goes(c, "text") /\ Sends(<<"start_speaking">>)
           \/ Goes(c, "stop") /\ Sends(<<"spoken_text">>)
           \/ Goes(c, "finish") /\ Sends(<<"stop_speaking">>)
    BY <1>11 DEF kutana_speak, Elsewhere
  <2>2. Calling(c) /\ (call'[c] = NoCall \/ Working(c))
    <3>1. call[c].at # "idle"
      BY <1>11 DEF kutana_speak
    <3> QED
      BY <2>1, <3>1, EndsCalls, GoesCalls DEF Working
  <2>3. Unseen
    BY <1>7, <1>8, <2>1, SendsUnseen, UnseenIfSame
  <2>4. Quieted(c)
    BY <1>11, <2>1 DEF Quieted, Opening, Leaving, kutana_speak
  <2> QED
    BY <2>2, <2>3, <2>4, IsQuiet
<1> QED
  BY <1>1, <1>2, <1>3, <1>4, <1>5, <1>6, <1>9, <1>10, <1>11 DEF QuietStep

LEMMA ReceiveIsQuiet ==
    ASSUME CallShape, ClientShape, SessionShape, NEW c \in Calls, NEW t \in scene.tools, Receive(c, t)
    PROVE  Quiet(c)
<1>1. Calling(c) /\ (call'[c] = NoCall \/ Entering(c)) /\ call'[c].tool \in {t, "none"}
  <2>1. CASE identity
    BY <2>1, SecurityCheckCalls DEF Receive
  <2>2. CASE ~identity
    <3>1. call' = [call EXCEPT ![c] = [NoCall EXCEPT !.tool = t, !.at = "token"]]
      BY <2>2 DEF Receive
    <3>2. /\ [NoCall EXCEPT !.tool = t, !.at = "token"].tool = t
          /\ [NoCall EXCEPT !.tool = t, !.at = "token"].at = "token"
          /\ [NoCall EXCEPT !.tool = t, !.at = "token"].conn = None
          /\ DOMAIN [NoCall EXCEPT !.tool = t, !.at = "token"] = {"tool", "at", "conn", "mid", "now"}
      BY DEF NoCall
    <3>3. call'[c] = [NoCall EXCEPT !.tool = t, !.at = "token"] /\ Calling(c)
      BY <3>1, <3>2 DEF CallShape, Calling
    <3> QED
      BY <3>2, <3>3 DEF Entering
  <2> QED
    BY <2>1, <2>2
<1>2. ~Opening(c) /\ ~Leaving(c)
  BY DEF Receive, NoCall, Opening, Leaving
<1>3. StaysClean(c)
  <2>1. "none" \notin SessionTools
    BY DEF SessionTools
  <2> QED
    BY <1>1, <2>1 DEF Receive, StaysClean
<1> QED
  BY <1>1, <1>2, <1>3, UnseenIfSame DEF Quiet, Receive, Elsewhere

-----------------------------------------------------------------------------
\* Where the calls are

\* A call that stands where it is looks at its client only.
LEMMA OthersRest ==
    ASSUME NEW c \in Calls, Calling(c), UNCHANGED scene, \A d \in Calls : CallIsPlaced(d)
    PROVE  \A d \in Calls \ {c} : /\ CallIsPlaced(d)' /\ call'[d] = call[d]
                                  /\ Opening(d)' <=> Opening(d)
                                  /\ Leaving(d)' <=> Leaving(d)
BY DEF Calling, CallIsPlaced, Opening, Leaving

\* One call moves: what is left to see is the call, the clients and the
\* sessions.
SessionsArePlaced ==
    \A k \in Conns :
        /\ gc[k].ws = "new" => ClientIsNew(k)
        /\ outbox[k] \in Seq(Messages)
        /\ home[k] \in scene.running \cup {None} /\ inside[k] \in Meetings \cup {None}
        /\ inside[k] # None => home[k] # None

LEMMA OneCallMoves ==
    ASSUME CallInv, NEW c \in Calls, Calling(c), UNCHANGED scene,
           ClientShape', SessionShape', client' \in Conns \cup {None},
           CallIsPlaced(c)', Opening(c)' => JoinerIsAlone(c)',
           call'[c].at = "close" => gc'[call'[c].conn].ws # "new",
           \A d \in Calls \ {c} : Opening(d) =>
               /\ gc'[call[d].conn].ws = "new" <=> gc[call[d].conn].ws = "new"
               /\ gc'[call[d].conn].heard = gc[call[d].conn].heard
               /\ ~gc'[call[d].conn].listening
               /\ Opening(c)' => call'[c].conn # call[d].conn,
           \A k \in Conns : gc'[k].ws = "new" => gc[k].ws = "new",
           SessionsArePlaced'
    PROVE  CallInv'
<1>1. ASSUME NEW d \in Calls
      PROVE  /\ CallIsPlaced(d)' /\ (Opening(d)' => JoinerIsAlone(d)')
             /\ call'[d].at = "close" => gc'[call'[d].conn].ws # "new"
  <2>1. CASE d = c
    BY <2>1
  <2>2. CASE d # c
    <3>1. CallIsPlaced(d)' /\ call'[d] = call[d] /\ (Opening(d)' <=> Opening(d))
      BY <2>2, OthersRest DEF CallInv
    <3>2. ASSUME Opening(d) PROVE JoinerIsAlone(d)'
      <4>1. JoinerIsAlone(d) /\ call[d].conn \in Conns
        BY <3>2 DEF CallInv, CallIsPlaced
      <4>2. \A e \in Calls \ {c} : (Opening(e)' <=> Opening(e)) /\ call'[e] = call[e]
        BY OthersRest DEF CallInv
      <4>3. \A e \in Calls : Opening(e)' /\ call'[e].conn = call'[d].conn => e = d
        BY <2>2, <3>1, <3>2, <4>1, <4>2 DEF JoinerIsAlone
      <4> QED
        BY <2>2, <3>1, <3>2, <4>1, <4>3 DEF JoinerIsAlone
    <3>3. call[d].at = "close" => gc'[call[d].conn].ws # "new"
      <4>1. call[d].at = "close" => call[d].conn \in Conns /\ gc[call[d].conn].ws # "new"
        BY DEF CallInv, CallIsPlaced, Leaving
      <4> QED
        BY <4>1
    <3> QED
      BY <3>1, <3>2, <3>3
  <2> QED
    BY <2>1, <2>2
<1>2. scene' \in Scenes /\ CallShape'
  BY DEF CallInv, Calling
<1> QED
  BY <1>1, <1>2 DEF CallInv, SessionsArePlaced

LEMMA MessagesAppend ==
    ASSUME NEW k \in Conns, outbox[k] \in Seq(Messages), Says(k)
    PROVE  outbox'[k] \in Seq(Messages)
BY AppendProperties DEF Says

LEMMA QuietPlaces ==
    ASSUME CallInv, NEW c \in Calls, Quiet(c)
    PROVE  CallInv'
<1>1. UNCHANGED <<scene, client, replies, targets, home, inside, wire>> /\ Calling(c)
  BY DEF Quiet, Unseen, relayVars
<1>2. CallIsPlaced(c)' /\ ~Opening(c)' /\ call'[c].at # "close"
  <2>1. CASE call'[c] = NoCall
    BY <2>1 DEF NoCall, CallIsPlaced, Opening, Leaving
  <2>2. CASE Entering(c)
    BY <1>1, <2>2 DEF Entering, CallIsPlaced, Opening, Leaving
  <2>3. CASE Working(c)
    BY <1>1, <2>3 DEF Working, CallIsPlaced, Opening, Leaving, CallInv
  <2>4. CASE Preparing(c)
    BY <1>1, <2>4 DEF Preparing, CallIsPlaced, Opening, Leaving, CallInv
  <2> QED
    BY <2>1, <2>2, <2>3, <2>4 DEF Quiet
<1>3. \A k \in Conns : /\ gc'[k].ws = gc[k].ws /\ gc'[k].listening = gc[k].listening
                       /\ gc'[k].heard = gc[k].heard /\ Says(k)
  BY DEF Quiet, Unseen
<1>4. \A d \in Calls : Opening(d) => call[d].conn \in Conns /\ ~gc[call[d].conn].listening
  BY DEF CallInv, CallIsPlaced, JoinerIsAlone
<1>5. SessionsArePlaced'
  <2>1. ASSUME NEW k \in Conns, gc'[k].ws = "new" PROVE ClientIsNew(k)'
    <3>1. gc[k].ws = "new" /\ gc'[k].listening = gc[k].listening /\ gc'[k].heard = gc[k].heard
          /\ outbox'[k] = outbox[k]
      BY <1>3, <2>1 DEF Says
    <3> QED
      BY <1>1, <3>1 DEF CallInv, ClientIsNew
  <2> QED
    BY <1>1, <1>3, <2>1, MessagesAppend DEF CallInv, SessionsArePlaced
<1> QED
  BY <1>1, <1>2, <1>3, <1>4, <1>5, OneCallMoves DEF CallInv, Quiet, Unseen

\* What call c has at a client, before a step.
LEMMA CallStands ==
    ASSUME CallInv, NEW c \in Calls
    PROVE  /\ CallIsPlaced(c)
           /\ Opening(c) \/ Leaving(c) => call[c].conn \in Conns
           /\ Opening(c) => JoinerIsAlone(c)
           /\ \A k \in Conns : gc[k].ws = "new" => ClientIsNew(k)
           /\ None \notin Conns /\ None \notin scene.running /\ scene.running \subseteq Gateways
           /\ \A d \in Calls \ {c} : Opening(d) =>
                  call[d].conn \in Conns /\ ~gc[call[d].conn].listening
           /\ \A d \in Calls \ {c} : Opening(d) /\ Opening(c) => call[c].conn # call[d].conn
<1>1. scene.running \subseteq Gateways /\ None \notin Conns /\ None \notin Gateways
  BY McpAssumption, RelayAssumption DEF CallInv
<1> QED
  BY <1>1 DEF CallInv, CallIsPlaced, JoinerIsAlone

LEMMA ExchangePlaces ==
    ASSUME CallInv, NEW c \in Calls, ExchangeForGatewayToken(c)
    PROVE  CallInv' /\ Calling(c)
<1>1. UNCHANGED <<scene, gc, outbox, replies, targets, home, inside, wire>>
  BY DEF ExchangeForGatewayToken, Elsewhere, relayVars
<1>2. ClientShape' /\ SessionShape' /\ SessionsArePlaced'
  BY <1>1 DEF CallInv, ClientShape, SessionShape, SessionsArePlaced, ClientIsNew
<1>3. \A d \in Calls \ {c} : Opening(d) =>
          call[d].conn \in Conns /\ ~gc[call[d].conn].listening
  BY CallStands
<1>4. CASE Ends(c) /\ UNCHANGED client
  <2>1. Calling(c) /\ call'[c] = NoCall
    BY <1>4, EndsCalls DEF CallInv
  <2>2. CallIsPlaced(c)' /\ ~Opening(c)' /\ call'[c].at # "close"
    BY <2>1 DEF NoCall, CallIsPlaced, Opening, Leaving
  <2> QED
    BY <1>1, <1>2, <1>3, <1>4, <2>1, <2>2, OneCallMoves DEF CallInv
<1>5. CASE ~(Ends(c) /\ UNCHANGED client)
  <2>1. PICK k \in Unused : /\ client' = k
                            /\ call' = [call EXCEPT ![c].at = "connect", ![c].conn = k]
    BY <1>5 DEF ExchangeForGatewayToken
  <2>2. k \in Conns /\ gc[k].ws = "new" /\ \A d \in Calls : call[d].conn # k
    BY <2>1 DEF Unused
  <2>3. /\ Calling(c) /\ call'[c].at = "connect" /\ call'[c].conn = k
        /\ call'[c].tool = call[c].tool /\ call'[c].mid = call[c].mid
    BY <2>1 DEF CallInv, CallShape, Calling
  <2>4. CallIsPlaced(c)'
    BY <1>1, <2>2, <2>3 DEF CallInv, CallIsPlaced, ExchangeForGatewayToken, Opening, Leaving
  <2>5. JoinerIsAlone(c)'
    <3>1. \A d \in Calls \ {c} : call'[d].conn # k
      BY <2>2, <2>3 DEF Calling
    <3>2. ~gc[k].listening /\ gc[k].heard = <<>>
      BY <2>2 DEF CallInv, ClientIsNew
    <3> QED
      BY <1>1, <2>2, <2>3, <3>1, <3>2 DEF JoinerIsAlone
  <2>6. \A d \in Calls \ {c} : Opening(d) => call'[c].conn # call[d].conn
    BY <2>2, <2>3
  <2>7. client' \in Conns \cup {None} /\ call'[c].at # "close"
    BY <2>1, <2>2, <2>3
  <2>8. \A x \in Conns : gc'[x].ws = "new" => gc[x].ws = "new"
    BY <1>1
  <2> QED
    BY <1>1, <1>2, <1>3, <2>3, <2>4, <2>5, <2>6, <2>7, <2>8, OneCallMoves
<1> QED
  BY <1>4, <1>5

\* The socket is open and "join" on its way, or the call is over.
ConnectSucceeds(c) ==
    LET k == call[c].conn IN
    /\ gc' = [gc EXCEPT ![k].ws = "up"]
    /\ \E g \in scene.running : home' = [home EXCEPT ![k] = g]
    /\ outbox' = [outbox EXCEPT ![k] = << <<"join", call[c].mid>> >>]
    /\ Goes(c, "joined") /\ UNCHANGED clean

LEMMA ConnectChanges ==
    ASSUME CallInv, NEW c \in Calls, call[c].at = "connect", ConnectSucceeds(c),
           NEW k, k = call[c].conn, UNCHANGED <<inside, wire>>
    PROVE  /\ k \in Conns /\ gc[k].ws = "new" /\ ClientIsNew(k) /\ ClientShape' /\ SessionShape'
           /\ gc'[k].ws = "up" /\ home'[k] \in scene.running
           /\ outbox'[k] = << <<"join", call[c].mid>> >> /\ outbox'[k] \in Seq(Messages)
           /\ call[c].mid \in Meetings
           /\ gc'[k].heard = gc[k].heard /\ gc'[k].listening = gc[k].listening
           /\ gc'[k].meetingId = gc[k].meetingId
           /\ \A x \in Conns \ {k} : gc'[x] = gc[x] /\ home'[x] = home[x] /\ outbox'[x] = outbox[x]
           /\ Calling(c) /\ call'[c].tool = call[c].tool /\ call'[c].conn = k
           /\ call'[c].mid = call[c].mid /\ call'[c].at = "joined"
<1>1. k \in Conns /\ gc[k].ws = "new" /\ ClientIsNew(k) /\ call[c].mid \in Meetings
  BY DEF CallInv, CallIsPlaced, JoinerIsAlone, Opening
<1>2. ClientShape' /\ SessionShape'
  BY <1>1 DEF ConnectSucceeds, CallInv, ClientShape, SessionShape
<1>3. <<"join", call[c].mid>> \in Messages
  BY <1>1 DEF Messages
<1>4. << <<"join", call[c].mid>> >> \in Seq(Messages)
  BY <1>3
<1>5. \A x \in Conns \ {k} : gc'[x] = gc[x] /\ home'[x] = home[x] /\ outbox'[x] = outbox[x]
  BY <1>1 DEF ConnectSucceeds, CallInv, ClientShape, SessionShape
<1>6. /\ gc'[k].ws = "up" /\ home'[k] \in scene.running
      /\ outbox'[k] = << <<"join", call[c].mid>> >>
      /\ gc'[k].heard = gc[k].heard /\ gc'[k].listening = gc[k].listening
      /\ gc'[k].meetingId = gc[k].meetingId
  BY <1>1 DEF ConnectSucceeds, CallInv, ClientShape, SessionShape
<1> QED
  BY <1>1, <1>2, <1>4, <1>5, <1>6, GoesCalls DEF ConnectSucceeds, CallInv

LEMMA ConnectPlaces ==
    ASSUME CallInv, NEW c \in Calls, Connect(c)
    PROVE  CallInv' /\ Calling(c)
<1>1. UNCHANGED <<scene, client, replies, targets, inside, wire>> /\ call[c].at = "connect"
  BY DEF Connect
<1>2. CASE ConnectSucceeds(c)
  <2> DEFINE k == call[c].conn
  <2>1. /\ k \in Conns /\ gc[k].ws = "new" /\ ClientIsNew(k) /\ ClientShape' /\ SessionShape'
        /\ gc'[k].ws = "up" /\ home'[k] \in scene.running
        /\ outbox'[k] \in Seq(Messages)
        /\ gc'[k].heard = gc[k].heard /\ gc'[k].listening = gc[k].listening
        /\ \A x \in Conns \ {k} : gc'[x] = gc[x] /\ home'[x] = home[x] /\ outbox'[x] = outbox[x]
        /\ Calling(c) /\ call'[c].tool = call[c].tool /\ call'[c].conn = k
        /\ call'[c].mid = call[c].mid /\ call'[c].at = "joined"
    BY <1>1, <1>2, ConnectChanges
  <2>2. CallIsPlaced(c)'
    BY <1>1, <2>1 DEF CallInv, CallIsPlaced, Opening, Leaving
  <2>3. \A d \in Calls \ {c} : Opening(d) => /\ call[d].conn \in Conns \ {k}
                                            /\ ~gc[call[d].conn].listening
    BY <1>1, CallStands DEF Opening
  <2>4. JoinerIsAlone(c)'
    <3>1. \A d \in Calls \ {c} : Opening(d)' => Opening(d) /\ call'[d] = call[d]
      BY <2>1 DEF Calling, Opening
    <3>2. gc'[k].ws # "new" /\ gc'[k].heard = <<>> /\ ~gc'[k].listening
      BY <2>1 DEF ClientIsNew
    <3> QED
      BY <2>1, <2>3, <3>1, <3>2 DEF JoinerIsAlone
  <2>5. SessionsArePlaced'
    <3>1. ASSUME NEW x \in Conns, gc'[x].ws = "new" PROVE ClientIsNew(x)'
      <4>1. x # k /\ gc[x].ws = "new"
        BY <2>1, <3>1
      <4>2. ClientIsNew(x)
        BY <4>1 DEF CallInv
      <4> QED
        BY <1>1, <2>1, <4>1, <4>2 DEF ClientIsNew
    <3>2. \A x \in Conns : home'[x] \in scene.running \cup {None} /\ outbox'[x] \in Seq(Messages)
      BY <2>1 DEF CallInv
    <3>3. \A x \in Conns : inside[x] # None => home'[x] # None
      BY <2>1, CallStands DEF CallInv
    <3> QED
      BY <1>1, <3>1, <3>2, <3>3 DEF CallInv, SessionsArePlaced
  <2> QED
    BY <1>1, <2>1, <2>2, <2>3, <2>4, <2>5, OneCallMoves DEF CallInv
<1>3. CASE Ends(c) /\ UNCHANGED <<gc, home, outbox>>
  <2>1. Calling(c) /\ call'[c] = NoCall
    BY <1>3, EndsCalls DEF CallInv
  <2>2. CallIsPlaced(c)' /\ ~Opening(c)' /\ call'[c].at # "close"
    BY <2>1 DEF NoCall, CallIsPlaced, Opening, Leaving
  <2>3. ClientShape' /\ SessionShape' /\ SessionsArePlaced'
    BY <1>1, <1>3 DEF CallInv, ClientShape, SessionShape, SessionsArePlaced, ClientIsNew
  <2>4. \A d \in Calls \ {c} : Opening(d) =>
            call[d].conn \in Conns /\ ~gc[call[d].conn].listening
    BY CallStands
  <2> QED
    BY <1>1, <1>3, <2>1, <2>2, <2>3, <2>4, OneCallMoves DEF CallInv
<1> QED
  BY <1>2, <1>3 DEF Connect, ConnectSucceeds

LEMMA AwaitChanges ==
    ASSUME CallInv, NEW c \in Calls, AwaitJoined(c), NEW k, k = call[c].conn
    PROVE  /\ k \in Conns /\ gc[k].ws # "new" /\ gc[k].heard = <<>> /\ ClientShape' /\ SessionShape'
           /\ gc'[k].ws = gc[k].ws /\ gc'[k].heard = gc[k].heard
           /\ wire'[k] = wire[k] \/ (wire[k] # <<>> /\ wire'[k] = Tail(wire[k]))
           /\ \A x \in Conns \ {k} : gc'[x] = gc[x] /\ wire'[x] = wire[x]
           /\ Calling(c) /\ call'[c] = NoCall /\ call[c].mid \in Meetings
           /\ clean' => clean /\ gc'[k].meetingId = call[c].mid
<1>1. k \in Conns /\ gc[k].ws # "new" /\ gc[k].heard = <<>> /\ call[c].mid \in Meetings
  BY DEF AwaitJoined, CallInv, CallIsPlaced, JoinerIsAlone, Opening
<1>2. \/ gc' = [gc EXCEPT ![k].meetingId = call[c].mid, ![k].listening = TRUE] /\ UNCHANGED clean
      \/ UNCHANGED gc /\ clean' = FALSE
  BY DEF AwaitJoined
<1>3. wire' = [wire EXCEPT ![k] = IF @ = <<>> THEN @ ELSE Tail(@)] /\ UNCHANGED <<outbox, home, inside>>
  BY DEF AwaitJoined
<1>4. ClientShape'
  BY <1>1, <1>2 DEF CallInv, ClientShape
<1>5. SessionShape' /\ wire'[k] = IF wire[k] = <<>> THEN wire[k] ELSE Tail(wire[k])
  BY <1>1, <1>3 DEF CallInv, SessionShape
<1>6. /\ gc'[k].ws = gc[k].ws /\ gc'[k].heard = gc[k].heard
      /\ \A x \in Conns \ {k} : gc'[x] = gc[x]
  BY <1>1, <1>2 DEF CallInv, ClientShape
<1>7. \A x \in Conns \ {k} : wire'[x] = wire[x]
  BY <1>1, <1>3 DEF CallInv, SessionShape
<1>8. Calling(c) /\ call'[c] = NoCall
  BY EndsCalls DEF CallInv, AwaitJoined
<1>9. clean' => clean /\ gc'[k].meetingId = call[c].mid
  <2>1. gc' = [gc EXCEPT ![k].meetingId = call[c].mid, ![k].listening = TRUE] =>
            gc'[k].meetingId = call[c].mid
    BY <1>1 DEF CallInv, ClientShape
  <2>2. CASE clean' = FALSE
    BY <2>2
  <2>3. CASE UNCHANGED clean /\ gc'[k].meetingId = call[c].mid
    BY <2>3
  <2> QED
    BY <1>2, <2>1, <2>2, <2>3
<1> QED
  BY <1>1, <1>4, <1>5, <1>6, <1>7, <1>8, <1>9

LEMMA AwaitPlaces ==
    ASSUME CallInv, NEW c \in Calls, AwaitJoined(c)
    PROVE  CallInv'
<1> DEFINE k == call[c].conn
<1>1. UNCHANGED <<scene, client, replies, targets, home, inside, outbox>> /\ Opening(c)
  BY DEF AwaitJoined, Opening
<1>2. /\ k \in Conns /\ gc[k].ws # "new" /\ ClientShape' /\ SessionShape'
      /\ gc'[k].ws = gc[k].ws
      /\ \A x \in Conns \ {k} : gc'[x] = gc[x] /\ wire'[x] = wire[x]
      /\ Calling(c) /\ call'[c] = NoCall
  BY AwaitChanges
<1>3. CallIsPlaced(c)' /\ ~Opening(c)' /\ call'[c].at # "close"
  BY <1>2 DEF NoCall, CallIsPlaced, Opening, Leaving
<1>4. \A d \in Calls \ {c} : Opening(d) =>
          call[d].conn \in Conns \ {k} /\ ~gc[call[d].conn].listening
  BY <1>1, CallStands
<1>5. SessionsArePlaced'
  <2>1. ASSUME NEW x \in Conns, gc'[x].ws = "new" PROVE ClientIsNew(x)'
    <3>1. x # k /\ ClientIsNew(x)
      BY <1>2, <2>1 DEF CallInv
    <3> QED
      BY <1>1, <1>2, <3>1 DEF ClientIsNew
  <2> QED
    BY <1>1, <2>1 DEF CallInv, SessionsArePlaced
<1>6. \A x \in Conns : gc'[x].ws = "new" => gc[x].ws = "new"
  BY <1>2
<1>7. client' \in Conns \cup {None}
  BY <1>1 DEF CallInv
<1> QED
  BY <1>1, <1>2, <1>3, <1>4, <1>5, <1>6, <1>7, OneCallMoves

LEMMA LeaveChanges ==
    ASSUME CallInv, NEW c \in Calls, kutana_leave_meeting(c)
    PROVE  /\ Calling(c) /\ ClientShape' /\ SessionShape' /\ \A k \in Conns : Says(k)
           /\ call[c].tool = "leave_meeting" /\ call[c].at = "act"
           /\ \/ client = None /\ call'[c] = NoCall
              \/ /\ client \in Conns /\ call'[c].conn = client /\ call'[c].tool = "leave_meeting"
                 /\ call'[c].at = IF gc[client].ws = "up" THEN "close" ELSE "unlisten"
<1>1. call[c].tool = "leave_meeting" /\ call[c].at = "act" /\ None \notin Conns
  BY CallStands DEF kutana_leave_meeting, On
<1>2. UNCHANGED <<gc, home, inside, wire>>
  BY DEF kutana_leave_meeting, Elsewhere, relayVars
<1>3. ClientShape'
  BY <1>2 DEF CallInv, ClientShape
<1>4. CASE client = None
  <2>1. Ends(c) /\ UNCHANGED outbox
    BY <1>4 DEF kutana_leave_meeting
  <2> QED
    BY <1>1, <1>2, <1>3, <1>4, <2>1, EndsCalls DEF CallInv, SessionShape, Says
<1>5. CASE client # None
  <2> DEFINE up == gc[client].ws = "up"
  <2>1. /\ client \in Conns
        /\ call' = [call EXCEPT ![c].at = IF up THEN "close" ELSE "unlisten", ![c].conn = client]
        /\ outbox' = IF up THEN [outbox EXCEPT ![client] = Append(outbox[client], <<"leave">>)] ELSE outbox
    BY <1>5 DEF CallInv, kutana_leave_meeting
  <2>2. /\ Calling(c) /\ call'[c].tool = call[c].tool /\ call'[c].conn = client
        /\ call'[c].at = IF up THEN "close" ELSE "unlisten"
    BY <2>1 DEF CallInv, CallShape, Calling
  <2>3. <<"leave">> \in Messages /\ <<"leave">>[1] # "join"
    BY DEF Messages
  <2>4. SessionShape'
    BY <1>2, <2>1 DEF CallInv, SessionShape
  <2>5. \A k \in Conns : Says(k)
    BY <2>1, <2>3 DEF CallInv, SessionShape, Says
  <2> QED
    BY <1>1, <1>3, <2>1, <2>2, <2>4, <2>5
<1> QED
  BY <1>4, <1>5

LEMMA LeavePlaces ==
    ASSUME CallInv, NEW c \in Calls, kutana_leave_meeting(c)
    PROVE  CallInv'
<1>1. UNCHANGED <<scene, client, gc, replies, targets, home, inside, wire>>
  BY DEF kutana_leave_meeting, Elsewhere, relayVars
<1>2. /\ Calling(c) /\ ClientShape' /\ SessionShape' /\ \A k \in Conns : Says(k)
      /\ call[c].tool = "leave_meeting" /\ call[c].at = "act"
      /\ \/ client = None /\ call'[c] = NoCall
         \/ /\ client \in Conns /\ call'[c].conn = client /\ call'[c].tool = "leave_meeting"
            /\ call'[c].at = IF gc[client].ws = "up" THEN "close" ELSE "unlisten"
  BY LeaveChanges
<1>3. CallIsPlaced(c)' /\ ~Opening(c)' /\ (call'[c].at = "close" => gc'[call'[c].conn].ws # "new")
  <2>1. CASE call'[c] = NoCall
    BY <2>1 DEF NoCall, CallIsPlaced, Opening, Leaving
  <2>2. CASE call'[c] # NoCall
    BY <1>1, <1>2, <2>2 DEF CallInv, CallIsPlaced, Opening, Leaving
  <2> QED
    BY <2>1, <2>2
<1>4. \A d \in Calls \ {c} : Opening(d) =>
          call[d].conn \in Conns /\ ~gc[call[d].conn].listening
  BY CallStands
<1>5. SessionsArePlaced'
  <2>1. ASSUME NEW k \in Conns, gc'[k].ws = "new" PROVE ClientIsNew(k)'
    <3>1. ClientIsNew(k) /\ outbox'[k] = outbox[k]
      BY <1>1, <1>2, <2>1 DEF CallInv, Says
    <3> QED
      BY <1>1, <3>1 DEF ClientIsNew
  <2> QED
    BY <1>1, <1>2, <2>1, MessagesAppend DEF CallInv, SessionsArePlaced
<1>6. client' \in Conns \cup {None}
  BY <1>1 DEF CallInv
<1> QED
  BY <1>1, <1>2, <1>3, <1>4, <1>5, <1>6, OneCallMoves

LEMMA CloseChanges ==
    ASSUME CallInv, NEW c \in Calls, CloseSocket(c), NEW k, k = call[c].conn
    PROVE  /\ k \in Conns /\ gc[k].ws # "new" /\ ClientShape' /\ SessionShape'
           /\ gc'[k].ws = "none" /\ gc'[k].meetingId = gc[k].meetingId
           /\ gc'[k].listening = gc[k].listening /\ gc'[k].heard = gc[k].heard
           /\ \A x \in Conns \ {k} : gc'[x] = gc[x]
           /\ Calling(c) /\ call[c].tool = "leave_meeting"
           /\ \/ call'[c] = NoCall /\ gc[k].ws = "none"
              \/ call'[c].tool = call[c].tool /\ call'[c].conn = k /\ call'[c].at = "unlisten"
<1>1. k \in Conns /\ call[c].tool = "leave_meeting" /\ gc[k].ws # "new"
  BY DEF CloseSocket, CallInv, CallIsPlaced, Leaving
<1>2. gc' = [gc EXCEPT ![k].ws = "none"] /\ UNCHANGED <<outbox, home, inside, wire>>
  BY DEF CloseSocket, Elsewhere, relayVars
<1>3. ClientShape' /\ SessionShape'
  BY <1>1, <1>2 DEF CallInv, ClientShape, SessionShape
<1>4. /\ gc'[k].ws = "none" /\ gc'[k].meetingId = gc[k].meetingId
      /\ gc'[k].listening = gc[k].listening /\ gc'[k].heard = gc[k].heard
      /\ \A x \in Conns \ {k} : gc'[x] = gc[x]
  BY <1>1, <1>2 DEF CallInv, ClientShape
<1>5. /\ Calling(c)
      /\ \/ call'[c] = NoCall /\ gc[k].ws = "none"
         \/ call'[c].tool = call[c].tool /\ call'[c].conn = k /\ call'[c].at = "unlisten"
  BY EndsCalls, GoesCalls DEF CloseSocket, CallInv
<1> QED
  BY <1>1, <1>3, <1>4, <1>5

LEMMA StopChanges ==
    ASSUME CallInv, NEW c \in Calls, StopListening(c), NEW k, k = call[c].conn
    PROVE  /\ k \in Conns /\ ClientShape' /\ SessionShape'
           /\ gc'[k].ws = gc[k].ws /\ ~gc'[k].listening /\ gc'[k].heard = gc[k].heard
           /\ \A x \in Conns \ {k} : gc'[x] = gc[x]
           /\ Calling(c) /\ call'[c] = NoCall /\ call[c].tool = "leave_meeting"
<1>1. k \in Conns /\ call[c].tool = "leave_meeting"
  BY DEF StopListening, CallInv, CallIsPlaced, Leaving
<1>2. /\ gc' = [gc EXCEPT ![k].listening = FALSE, ![k].meetingId = None]
      /\ UNCHANGED <<outbox, home, inside, wire>>
  BY DEF StopListening, Elsewhere, relayVars
<1>3. ClientShape' /\ SessionShape'
  BY <1>1, <1>2 DEF CallInv, ClientShape, SessionShape
<1>4. /\ gc'[k].ws = gc[k].ws /\ ~gc'[k].listening /\ gc'[k].heard = gc[k].heard
      /\ \A x \in Conns \ {k} : gc'[x] = gc[x]
  BY <1>1, <1>2 DEF CallInv, ClientShape
<1>5. Calling(c) /\ call'[c] = NoCall
  BY EndsCalls DEF StopListening, CallInv
<1> QED
  BY <1>1, <1>3, <1>4, <1>5

LEMMA ClosePlaces ==
    ASSUME CallInv, NEW c \in Calls, CloseSocket(c) \/ StopListening(c)
    PROVE  CallInv'
<1> DEFINE k == call[c].conn
<1>1. UNCHANGED <<scene, outbox, replies, targets, home, inside, wire>>
  BY DEF CloseSocket, StopListening, Elsewhere, relayVars
<1>2. /\ k \in Conns /\ ClientShape' /\ SessionShape' /\ Calling(c)
      /\ gc'[k].ws = "new" <=> gc[k].ws = "new"
      /\ gc'[k].heard = gc[k].heard /\ (~gc[k].listening => ~gc'[k].listening)
      /\ \A x \in Conns \ {k} : gc'[x] = gc[x]
      /\ call[c].tool = "leave_meeting"
      /\ \/ call'[c] = NoCall
         \/ call'[c].tool = "leave_meeting" /\ call'[c].conn = k /\ call'[c].at = "unlisten"
  BY CloseChanges, StopChanges
<1>3. CallIsPlaced(c)' /\ ~Opening(c)' /\ call'[c].at # "close"
  <2>1. CASE call'[c] = NoCall
    BY <2>1 DEF NoCall, CallIsPlaced, Opening, Leaving
  <2>2. CASE call'[c] # NoCall
    <3>1. call[c].tool \in scene.tools
      BY DEF CallInv, CallIsPlaced, CloseSocket, StopListening
    <3> QED
      BY <1>1, <1>2, <2>2, <3>1 DEF CallIsPlaced, Opening, Leaving
  <2> QED
    BY <2>1, <2>2
<1>4. \A d \in Calls \ {c} : Opening(d) =>
          call[d].conn \in Conns /\ ~gc[call[d].conn].listening
  BY CallStands
<1>5. SessionsArePlaced'
  <2>1. ASSUME NEW x \in Conns, gc'[x].ws = "new" PROVE ClientIsNew(x)'
    <3>1. /\ ClientIsNew(x) /\ gc'[x].heard = gc[x].heard
          /\ ~gc[x].listening => ~gc'[x].listening
      BY <1>2, <2>1 DEF CallInv
    <3> QED
      BY <1>1, <3>1 DEF ClientIsNew
  <2> QED
    BY <1>1, <2>1 DEF CallInv, SessionsArePlaced
<1>6. \A x \in Conns : gc'[x].ws = "new" <=> gc[x].ws = "new"
  BY <1>2
<1>7. client' \in Conns \cup {None}
  BY DEF CallInv, CloseSocket, StopListening
<1>8. \A d \in Calls \ {c} : Opening(d) =>
          /\ gc'[call[d].conn].heard = gc[call[d].conn].heard
          /\ ~gc'[call[d].conn].listening
  BY <1>2, <1>4
<1> QED
  BY <1>1, <1>2, <1>3, <1>4, <1>5, <1>6, <1>7, <1>8, OneCallMoves

-----------------------------------------------------------------------------
\* The gateway's side

LEMMA CallsRest ==
    ASSUME CallInv, UNCHANGED <<call, client, scene>>, ClientShape', SessionShape', SessionsArePlaced',
           \A k \in Conns :
               /\ gc'[k].ws = gc[k].ws /\ gc'[k].listening = gc[k].listening
               /\ gc'[k].heard = gc[k].heard \/ gc[k].listening
    PROVE  CallInv'
<1>1. ASSUME NEW c \in Calls
      PROVE  /\ CallIsPlaced(c)' /\ (Opening(c)' => JoinerIsAlone(c)')
             /\ call'[c].at = "close" => gc'[call'[c].conn].ws # "new"
  <2>1. CallIsPlaced(c) /\ (Opening(c) \/ Leaving(c) => call[c].conn \in Conns)
    BY CallStands
  <2>2. CallIsPlaced(c)'
    BY <2>1 DEF CallIsPlaced, Opening, Leaving
  <2>3. Opening(c)' => JoinerIsAlone(c)'
    BY <2>1 DEF CallInv, JoinerIsAlone, Opening
  <2>4. call'[c].at = "close" => gc'[call'[c].conn].ws # "new"
    BY <2>1 DEF CallInv, Leaving
  <2> QED
    BY <2>2, <2>3, <2>4
<1> QED
  BY <1>1 DEF CallInv, SessionsArePlaced, CallShape

LEMMA ListenChanges ==
    ASSUME CallInv, NEW k \in Conns, Listen(k)
    PROVE  /\ wire[k] # <<>> /\ wire'[k] = Tail(wire[k]) /\ ClientShape' /\ SessionShape'
           /\ gc[k].listening
           /\ \A x \in Conns : /\ gc'[x].ws = gc[x].ws /\ gc'[x].meetingId = gc[x].meetingId
                               /\ gc'[x].listening = gc[x].listening
           /\ \A x \in Conns \ {k} : wire'[x] = wire[x] /\ gc'[x].heard = gc[x].heard
           /\ LET n == Head(wire[k]) IN
              \/ n # Joined /\ gc'[k].heard = Append(gc[k].heard, n)
              \/ (n = Joined \/ stream[n] # "transcript") /\ gc'[k].heard = gc[k].heard
<1>1. /\ wire[k] # <<>> /\ gc[k].listening
      /\ wire' = [wire EXCEPT ![k] = Tail(wire[k])] /\ UNCHANGED <<outbox, home, inside>>
  BY DEF Listen, sessionVars
<1>2. SessionShape' /\ wire'[k] = Tail(wire[k]) /\ \A x \in Conns \ {k} : wire'[x] = wire[x]
  BY <1>1 DEF CallInv, SessionShape
<1> DEFINE n == Head(wire[k])
<1>3. \/ /\ n # Joined /\ gc' = [gc EXCEPT ![k].heard = Append(gc[k].heard, n)]
      \/ (n = Joined \/ stream[n] # "transcript") /\ gc' = gc
  BY DEF Listen
<1>4. ClientShape'
  BY <1>3 DEF CallInv, ClientShape
<1>5. /\ \A x \in Conns : /\ gc'[x].ws = gc[x].ws /\ gc'[x].meetingId = gc[x].meetingId
                          /\ gc'[x].listening = gc[x].listening
      /\ \A x \in Conns \ {k} : gc'[x].heard = gc[x].heard
      /\ \/ n # Joined /\ gc'[k].heard = Append(gc[k].heard, n)
         \/ (n = Joined \/ stream[n] # "transcript") /\ gc'[k].heard = gc[k].heard
  BY <1>3 DEF CallInv, ClientShape
<1> QED
  BY <1>1, <1>2, <1>4, <1>5

LEMMA ListenPlaces ==
    ASSUME CallInv, NEW k \in Conns, Listen(k)
    PROVE  CallInv'
<1>1. UNCHANGED <<call, client, scene, outbox, replies, home, inside>>
  BY DEF Listen, sessionVars
<1>2. /\ ClientShape' /\ SessionShape' /\ gc[k].listening
      /\ \A x \in Conns : gc'[x].ws = gc[x].ws /\ gc'[x].listening = gc[x].listening
      /\ \A x \in Conns \ {k} : wire'[x] = wire[x] /\ gc'[x].heard = gc[x].heard
  BY ListenChanges
<1>3. SessionsArePlaced'
  <2>1. ASSUME NEW x \in Conns, gc'[x].ws = "new" PROVE ClientIsNew(x)'
    <3>1. ClientIsNew(x) /\ x # k
      BY <1>2, <2>1 DEF CallInv, ClientIsNew
    <3> QED
      BY <1>1, <1>2, <3>1 DEF ClientIsNew
  <2> QED
    BY <1>1, <2>1 DEF CallInv, SessionsArePlaced
<1> QED
  BY <1>1, <1>2, <1>3, CallsRest

\* The message of a session that is handled, and where it leads.
LEMMA MessageChanges ==
    ASSUME CallInv, NEW k \in Conns, HandleMessage(k), NEW msg, msg = Head(outbox[k])
    PROVE  /\ home[k] # None /\ gc[k].ws # "new" /\ msg \in Messages /\ SessionShape'
           /\ outbox[k] # <<>> /\ outbox'[k] = Tail(outbox[k]) /\ outbox'[k] \in Seq(Messages)
           /\ \A x \in Conns \ {k} : outbox'[x] = outbox[x] /\ inside'[x] = inside[x]
           /\ replies' = replies \/ replies' = replies \cup {k}
           /\ \/ msg[1] = "join" /\ msg[2] \in Meetings /\ inside'[k] = msg[2] /\ UNCHANGED stream
              \/ msg[1] # "join" /\ inside'[k] \in {inside[k], None} /\ UNCHANGED stream
              \/ /\ msg[1] # "join" /\ inside'[k] = inside[k]
                 /\ \E ch \in Channels : stream' = Append(stream, ch)
<1>1. home[k] # None /\ outbox[k] # <<>> /\ gc[k].ws # "new" /\ outbox[k] \in Seq(Messages)
  BY DEF HandleMessage, CallInv, ClientIsNew
<1>2. msg \in Messages /\ Tail(outbox[k]) \in Seq(Messages)
  BY <1>1, HeadTailProperties
<1>3. UNCHANGED <<home, wire>> /\ outbox' = [outbox EXCEPT ![k] = Tail(outbox[k])]
  BY DEF HandleMessage
<1>4. msg[1] = "join" => msg[2] \in Meetings
  BY <1>2 DEF Messages
<1>5. msg[1] = "data" => msg[2] \in Channels
  BY <1>2 DEF Messages
<1>6. \/ inside' = inside
      \/ msg[1] = "join" /\ inside' = [inside EXCEPT ![k] = msg[2]]
      \/ inside' = [inside EXCEPT ![k] = None]
  BY DEF HandleMessage
<1>7. SessionShape' /\ outbox'[k] = Tail(outbox[k])
      /\ \A x \in Conns \ {k} : outbox'[x] = outbox[x] /\ inside'[x] = inside[x]
  BY <1>3, <1>6 DEF CallInv, SessionShape
<1>8. \/ msg[1] = "join" /\ inside'[k] = msg[2] /\ UNCHANGED stream
      \/ msg[1] # "join" /\ inside'[k] \in {inside[k], None} /\ UNCHANGED stream
      \/ /\ msg[1] # "join" /\ inside'[k] = inside[k]
         /\ \E ch \in Channels : stream' = Append(stream, ch)
  <2>1. CASE msg[1] = "join"
    BY <2>1 DEF HandleMessage, CallInv, SessionShape
  <2>2. CASE msg[1] = "leave"
    BY <2>2 DEF HandleMessage, CallInv, SessionShape
  <2>3. CASE msg[1] = "data"
    BY <1>5, <2>3 DEF HandleMessage
  <2>4. CASE msg[1] \in {"subscribe", "start_speaking", "spoken_text", "stop_speaking"}
    BY <2>4 DEF HandleMessage
  <2> QED
    BY <2>1, <2>2, <2>3, <2>4 DEF HandleMessage
<1>9. replies' = replies \/ replies' = replies \cup {k}
  BY DEF HandleMessage
<1> QED
  BY <1>1, <1>2, <1>4, <1>7, <1>8, <1>9

LEMMA MessagePlaces ==
    ASSUME CallInv, NEW k \in Conns, HandleMessage(k)
    PROVE  CallInv'
<1>1. UNCHANGED <<call, client, gc, scene, home, wire>>
  BY DEF HandleMessage
<1>2. /\ home[k] # None /\ gc[k].ws # "new" /\ SessionShape'
      /\ outbox'[k] \in Seq(Messages) /\ inside'[k] \in Meetings \cup {None}
      /\ \A x \in Conns \ {k} : outbox'[x] = outbox[x] /\ inside'[x] = inside[x]
      /\ replies' = replies \/ replies' = replies \cup {k}
  BY MessageChanges DEF CallInv
<1>3. SessionsArePlaced'
  <2>1. ASSUME NEW x \in Conns, gc'[x].ws = "new" PROVE ClientIsNew(x)'
    <3>1. ClientIsNew(x) /\ x # k
      BY <1>1, <1>2, <2>1 DEF CallInv
    <3> QED
      BY <1>1, <1>2, <3>1 DEF ClientIsNew
  <2> QED
    BY <1>1, <1>2, <2>1 DEF CallInv, SessionsArePlaced
<1> QED
  BY <1>1, <1>2, <1>3, CallsRest DEF CallInv, ClientShape

LEMMA SendJoinedPlaces ==
    ASSUME CallInv, NEW k \in Conns, SendJoined(k)
    PROVE  /\ CallInv' /\ gc[k].ws # "new" /\ wire'[k] = Append(wire[k], Joined)
           /\ \A x \in Conns \ {k} : wire'[x] = wire[x]
<1>1. UNCHANGED <<call, client, gc, scene, home, inside, outbox>> /\ gc[k].ws # "new"
  BY DEF SendJoined, sessionVars, CallInv, ClientIsNew
<1>2. wire' = [wire EXCEPT ![k] = Append(wire[k], Joined)] /\ replies' \subseteq replies
  BY DEF SendJoined
<1>3. SessionShape' /\ wire'[k] = Append(wire[k], Joined) /\ \A x \in Conns \ {k} : wire'[x] = wire[x]
  BY <1>1, <1>2 DEF CallInv, SessionShape
<1>4. SessionsArePlaced'
  <2>1. ASSUME NEW x \in Conns, gc'[x].ws = "new" PROVE ClientIsNew(x)'
    <3>1. ClientIsNew(x) /\ x # k
      BY <1>1, <2>1 DEF CallInv
    <3> QED
      BY <1>1, <1>2, <1>3, <3>1 DEF ClientIsNew
  <2> QED
    BY <1>1, <2>1 DEF CallInv, SessionsArePlaced
<1>5. ClientShape'
  BY <1>1 DEF CallInv, ClientShape
<1> QED
  BY <1>1, <1>3, <1>4, <1>5, CallsRest

\* Sessions end, one alone or all that a process has.
SomeEnd ==
    /\ UNCHANGED <<call, client, gc, scene, wire>> /\ SessionShape'
    /\ replies' \subseteq replies
    /\ \A k \in Conns : \/ UNCHANGED <<home[k], inside[k], outbox[k]>>
                        \/ home'[k] = None /\ inside'[k] = None /\ outbox'[k] = <<>>

LEMMA SessionEndsSome ==
    ASSUME CallInv, NEW k \in Conns, SessionEnds(k)
    PROVE  SomeEnd
<1>1. /\ UNCHANGED <<call, client, gc, scene, wire>>
      /\ home' = [home EXCEPT ![k] = None] /\ inside' = [inside EXCEPT ![k] = None]
      /\ outbox' = [outbox EXCEPT ![k] = <<>>] /\ replies' = replies \ {k}
  BY DEF SessionEnds
<1> QED
  BY <1>1 DEF CallInv, SessionShape, SomeEnd

LEMMA ProcessEndsSome ==
    ASSUME CallInv, NEW g \in scene.running, ProcessDies(g)
    PROVE  SomeEnd
<1>1. /\ UNCHANGED <<call, client, gc, scene, wire>>
      /\ home' = [k \in Conns |-> IF home[k] = g THEN None ELSE home[k]]
      /\ inside' = [k \in Conns |-> IF home[k] = g THEN None ELSE inside[k]]
      /\ outbox' = [k \in Conns |-> IF home[k] = g THEN <<>> ELSE outbox[k]]
      /\ replies' = {k \in replies : home[k] # g}
  BY DEF ProcessDies, GatewayDies
<1> QED
  BY <1>1 DEF CallInv, SessionShape, SomeEnd

LEMMA EndPlaces ==
    ASSUME CallInv, SomeEnd
    PROVE  CallInv'
<1>1. UNCHANGED <<call, client, gc, scene, wire>> /\ SessionShape' /\ replies' \subseteq replies
  BY DEF SomeEnd
<1>2. SessionsArePlaced'
  <2>1. ASSUME NEW k \in Conns
        PROVE  /\ gc'[k].ws = "new" => ClientIsNew(k)'
               /\ outbox'[k] \in Seq(Messages)
               /\ home'[k] \in scene.running \cup {None} /\ inside'[k] \in Meetings \cup {None}
               /\ inside'[k] # None => home'[k] # None
    <3>1. /\ gc[k].ws = "new" => ClientIsNew(k)
          /\ outbox[k] \in Seq(Messages) /\ <<>> \in Seq(Messages)
          /\ home[k] \in scene.running \cup {None} /\ inside[k] \in Meetings \cup {None}
          /\ inside[k] # None => home[k] # None
      BY EmptySeq DEF CallInv
    <3>2. CASE UNCHANGED <<home[k], inside[k], outbox[k]>>
      BY <1>1, <3>1, <3>2 DEF ClientIsNew
    <3>3. CASE home'[k] = None /\ inside'[k] = None /\ outbox'[k] = <<>>
      BY <1>1, <3>1, <3>3 DEF ClientIsNew
    <3> QED
      BY <3>2, <3>3 DEF SomeEnd
  <2> QED
    BY <1>1, <2>1 DEF SessionsArePlaced
<1>3. ClientShape'
  BY <1>1 DEF CallInv, ClientShape
<1> QED
  BY <1>1, <1>2, <1>3, CallsRest

\* The relay, the publishers and the clock see no client.
LEMMA RelayPlaces ==
    ASSUME CallInv, UNCHANGED <<mcpVars, scene, home, inside>>, SessionShape',
           \A k \in Conns : wire'[k] = wire[k] \/ home[k] # None
    PROVE  CallInv'
<1>1. UNCHANGED <<call, client, gc, scene, home, inside, outbox, replies>>
  BY DEF mcpVars
<1>2. SessionsArePlaced'
  <2>1. ASSUME NEW k \in Conns, gc'[k].ws = "new" PROVE ClientIsNew(k)'
    BY <1>1, <2>1 DEF CallInv, ClientIsNew
  <2> QED
    BY <1>1, <2>1 DEF CallInv, SessionsArePlaced
<1>3. ClientShape'
  BY <1>1 DEF CallInv, ClientShape
<1> QED
  BY <1>1, <1>2, <1>3, CallsRest

RelayMoves(g) ==
    /\ g \in Gateways /\ g # None /\ UNCHANGED <<mcpVars, limiterVars>>
    /\ ReadEvents(g) \/ Route(g) \/ Acknowledge(g) \/ \E k \in Conns : SendTo(g, k)
Publishes == (\E kind \in Kinds : Publish(kind)) /\ UNCHANGED <<mcpVars, limiterVars>>
\* The steps that move a client or a session.
ClientStep(c) ==
    \/ ExchangeForGatewayToken(c) \/ Connect(c) \/ AwaitJoined(c)
    \/ kutana_leave_meeting(c) \/ CloseSocket(c) \/ StopListening(c)

LEMMA StepKinds ==
    ASSUME CallInv, ServerNext
    PROVE  \/ \E c \in Calls : Quiet(c) \/ ClientStep(c)
           \/ \E k \in Conns : Listen(k) \/ HandleMessage(k) \/ SendJoined(k)
           \/ SomeEnd /\ \E k \in Conns : SessionEnds(k)
           \/ SomeEnd /\ \E g \in scene.running : ProcessDies(g)
           \/ \E g \in scene.running : RelayMoves(g)
           \/ Publishes \/ TimePasses
<1>1. CASE \E c \in Calls : CallStep(c) \/ \E t \in scene.tools : Receive(c, t)
  <2>1. PICK c \in Calls : CallStep(c) \/ \E t \in scene.tools : Receive(c, t)
    BY <1>1
  <2>2. QuietStep(c) => Quiet(c)
    BY QuietSteps DEF CallInv, CallIsPlaced
  <2>3. ToolStep(c) => QuietStep(c) \/ ClientStep(c)
    BY DEF ToolStep, QuietStep, ClientStep, Asking
  <2>4. CallStep(c) => QuietStep(c) \/ ClientStep(c)
    BY <2>3 DEF CallStep, QuietStep, ClientStep
  <2> QED
    BY <2>1, <2>2, <2>4, ReceiveIsQuiet DEF CallInv
<1>2. CASE \E k \in Conns : Listen(k) \/ SessionStep(k) \/ SessionEnds(k)
  BY <1>2, SessionEndsSome DEF SessionStep
<1>3. CASE \E g \in scene.running : GatewayStep(g) \/ ProcessDies(g)
  <2>1. None \notin Gateways /\ scene.running \subseteq Gateways
    BY McpAssumption, RelayAssumption DEF CallInv
  <2> QED
    BY <1>3, <2>1, ProcessEndsSome DEF GatewayStep, RelayStep, RelayMoves
<1> QED
  BY <1>1, <1>2, <1>3 DEF ServerNext, Publishes

LEMMA RelayMovesPlace ==
    ASSUME CallInv, NEW g \in scene.running, RelayMoves(g)
    PROVE  CallInv'
<1>1. UNCHANGED <<mcpVars, scene, home, inside>>
  BY DEF RelayMoves, ReadEvents, Route, Acknowledge, SendTo, sessionVars
<1>2. ASSUME NEW k \in Conns, SendTo(g, k)
      PROVE  SessionShape' /\ \A x \in Conns : wire'[x] = wire[x] \/ home[x] # None
  <2>1. UNCHANGED wire \/ (home[k] = g /\ wire' = [wire EXCEPT ![k] = Append(wire[k], EntryAt(g))])
    BY <1>2 DEF SendTo
  <2> QED
    BY <1>1, <2>1 DEF CallInv, SessionShape, mcpVars, RelayMoves
<1>3. CASE UNCHANGED wire
  BY <1>1, <1>3, RelayPlaces DEF CallInv, SessionShape, mcpVars
<1>4. CASE \E k \in Conns : SendTo(g, k)
  BY <1>1, <1>2, <1>4, RelayPlaces
<1> QED
  BY <1>3, <1>4 DEF RelayMoves, ReadEvents, Route, Acknowledge

LEMMA StepPlaces == CallInv /\ [ServerNext]_serverVars => CallInv'
<1> SUFFICES ASSUME CallInv, [ServerNext]_serverVars PROVE CallInv'
  OBVIOUS
<1>1. CASE UNCHANGED <<mcpVars, scene, home, inside, wire>>
  <2>1. SessionShape'
    BY <1>1 DEF CallInv, SessionShape, mcpVars
  <2> QED
    BY <1>1, <2>1, RelayPlaces
<1>2. CASE ServerNext
  <2>1. ASSUME NEW c \in Calls, ClientStep(c) PROVE CallInv'
    BY <2>1, ExchangePlaces, ConnectPlaces, AwaitPlaces, LeavePlaces, ClosePlaces DEF ClientStep
  <2>2. Publishes \/ TimePasses => UNCHANGED <<mcpVars, scene, home, inside, wire>>
    BY DEF Publishes, Publish, TimePasses, relayVars, sessionVars
  <2> QED
    BY <1>1, <1>2, <2>1, <2>2, StepKinds, QuietPlaces, ListenPlaces, MessagePlaces,
       SendJoinedPlaces, EndPlaces, RelayMovesPlace
<1>3. CASE UNCHANGED serverVars
  BY <1>1, <1>3 DEF serverVars, relayVars
<1> QED
  BY <1>2, <1>3

LEMMA CallsBegin == ServerInit => CallInv
<1> SUFFICES ASSUME ServerInit PROVE CallInv
  OBVIOUS
<1> DEFINE k0 == CHOOSE k \in Conns : TRUE
<1>1. k0 \in Conns /\ scene \in Scenes /\ Meeting \in Meetings /\ None \notin scene.running
  BY McpAssumption, RelayAssumption DEF ServerInit
<1> HIDE DEF k0
<1>2. /\ \A c \in Calls : call[c] = NoCall /\ DOMAIN call[c] = {"tool", "at", "conn", "mid", "now"}
      /\ call = [c \in Calls |-> NoCall] /\ CallShape
  BY DEF ServerInit, McpInit, NoCall, CallShape
<1>3. \A k \in Conns : gc[k] = IF AlwaysIn /\ k = k0
                THEN [NewClient EXCEPT !.ws = "up", !.meetingId = Meeting, !.listening = TRUE]
                ELSE NewClient
  BY DEF ServerInit, McpInit, k0
<1>4. ClientShape
  BY <1>3 DEF ServerInit, McpInit, ClientShape, NewClient
<1>5. SessionShape
  BY DEF ServerInit, McpInit, RelayInit, SessionShape
<1>6. client \in Conns \cup {None}
  BY <1>1 DEF ServerInit, McpInit, k0
<1>7. \A c \in Calls : CallIsPlaced(c) /\ ~Opening(c) /\ call[c].at # "close"
  BY <1>2 DEF CallIsPlaced, Opening, Leaving, NoCall
<1>8. ASSUME NEW k \in Conns
      PROVE  /\ outbox[k] = <<>> /\ wire[k] = <<>> /\ k \notin replies
             /\ home[k] \in scene.running \cup {None} /\ (home[k] = None <=> gc[k].ws = "new")
             /\ inside[k] = gc[k].meetingId
  BY DEF ServerInit, McpInit, RelayInit
<1>9. ASSUME NEW k \in Conns
      PROVE  /\ gc[k].heard = <<>>
             /\ \/ gc[k].ws = "new" /\ gc[k].meetingId = None /\ ~gc[k].listening
                \/ gc[k].ws = "up" /\ gc[k].meetingId = Meeting /\ AlwaysIn /\ k = client
  <2>1. client = IF AlwaysIn THEN k0 ELSE None
    BY DEF ServerInit, McpInit, k0
  <2>2. CASE AlwaysIn /\ k = k0
    BY <1>3, <2>1, <2>2 DEF NewClient
  <2>3. CASE ~(AlwaysIn /\ k = k0)
    BY <1>3, <2>3 DEF NewClient
  <2> QED
    BY <2>2, <2>3
<1>10. ASSUME NEW k \in Conns
       PROVE  /\ gc[k].ws = "new" => ClientIsNew(k)
              /\ outbox[k] \in Seq(Messages)
              /\ home[k] \in scene.running \cup {None} /\ inside[k] \in Meetings \cup {None}
              /\ inside[k] # None => home[k] # None
  BY <1>1, <1>8, <1>9, EmptySeq DEF ClientIsNew
<1> QED
  BY <1>1, <1>2, <1>4, <1>5, <1>6, <1>7, <1>10 DEF CallInv

\* A call that joins has a connection of its own, and a client that never had
\* a socket has no session, no messages and no listener: what the other
\* theorems about the server start from (kutana_join_meeting,
\* GatewayClient.connect_and_join).
THEOREM CallsArePlaced == ServerSpec => []CallInv
BY CallsBegin, StepPlaces, PTL DEF ServerSpec

-----------------------------------------------------------------------------
\* One socket at a time

\* While nothing overlaps.
CleanInv ==
    /\ \A c, d \in Calls : call[c].tool \in SessionTools /\ call[d].tool \in SessionTools => c = d
    /\ \A k \in Conns : gc[k].ws = "up" /\ home[k] # None => k = client
    /\ client # None =>
           gc[client].meetingId # None \/ \E c \in Calls : Opening(c) /\ call[c].conn = client
    /\ \A c \in Calls :
           /\ call[c].at = "exchange" => client = None
           /\ Opening(c) \/ Leaving(c) => call[c].conn = client
           /\ call[c].at = "unlisten" => gc[call[c].conn].ws # "up"

\* The tools of calls that join or leave.
LEMMA SessionCalls ==
    ASSUME CallInv, NEW c \in Calls
    PROVE  /\ call[c].at = "exchange" \/ Opening(c) \/ Leaving(c) => call[c].tool \in SessionTools
           /\ Joiners \subseteq SessionTools /\ "none" \notin SessionTools
BY CallStands DEF CallIsPlaced, Joiners, SessionTools

LEMMA CleanWithoutCalls ==
    ASSUME CallInv, CleanInv, UNCHANGED <<call, client>>,
           \A k \in Conns : /\ gc'[k].ws = gc[k].ws /\ gc'[k].meetingId = gc[k].meetingId
                            /\ home'[k] \in {home[k], None}
    PROVE  CleanInv'
<1>1. \A c \in Calls : Opening(c) \/ Leaving(c) => call[c].conn \in Conns
  BY CallStands
<1>2. client # None => client \in Conns
  BY DEF CallInv
<1>3. \A c \in Calls : /\ call'[c].at = "exchange" => client' = None
                       /\ Opening(c)' \/ Leaving(c)' => call'[c].conn = client'
                       /\ call'[c].at = "unlisten" => gc'[call'[c].conn].ws # "up"
  BY <1>1 DEF CleanInv, Opening, Leaving
<1>4. client' # None =>
           gc'[client'].meetingId # None \/ \E c \in Calls : Opening(c)' /\ call'[c].conn = client'
  BY <1>2 DEF CleanInv, Opening
<1>5. \A k \in Conns : gc'[k].ws = "up" /\ home'[k] # None => k = client'
  BY DEF CleanInv
<1> QED
  BY <1>3, <1>4, <1>5 DEF CleanInv

\* A session call that is alone: no other call is joining or leaving.
LEMMA OthersAreNoSessionCalls ==
    ASSUME CallInv, CleanInv, NEW c \in Calls, call[c].tool \in SessionTools
    PROVE  \A d \in Calls \ {c} : /\ call[d].tool \notin SessionTools
                                  /\ call[d].at # "exchange" /\ ~Opening(d) /\ ~Leaving(d)
BY SessionCalls DEF CleanInv

LEMMA QuietStaysClean ==
    ASSUME CallInv, CleanInv, NEW c \in Calls, Quiet(c), clean'
    PROVE  CleanInv'
<1>1. /\ Calling(c) /\ StaysClean(c) /\ UNCHANGED <<client, home>> /\ ~Opening(c) /\ ~Leaving(c)
      /\ \A k \in Conns : gc'[k].ws = gc[k].ws /\ gc'[k].meetingId = gc[k].meetingId
  BY DEF Quiet, Unseen, relayVars
<1>2. call'[c] = NoCall \/ Entering(c) \/ Working(c) \/ Preparing(c)
  BY DEF Quiet
<1>3. \A d, e \in Calls : call'[d].tool \in SessionTools /\ call'[e].tool \in SessionTools => d = e
  <2>1. \A d \in Calls \ {c} : call'[d] = call[d]
    BY <1>1 DEF Calling
  <2>2. "none" \notin SessionTools
    BY SessionCalls
  <2> QED
    BY <1>1, <2>1, <2>2 DEF StaysClean, CleanInv
<1>4. ~Opening(c)' /\ ~Leaving(c)' /\ (call'[c].at = "exchange" => ~InMeeting /\ call[c].tool \in SessionTools)
  <2>1. CASE call'[c] = NoCall
    BY <2>1 DEF NoCall, Opening, Leaving
  <2>2. CASE Entering(c)
    BY <2>2 DEF Entering, Opening, Leaving
  <2>3. CASE Working(c)
    BY <2>3 DEF Working, Opening, Leaving
  <2>4. CASE Preparing(c)
    BY <2>4, SessionCalls DEF Preparing, Opening, Leaving
  <2> QED
    BY <1>2, <2>1, <2>2, <2>3, <2>4
<1>5. call'[c].at = "exchange" => client = None
  <2> SUFFICES ASSUME call'[c].at = "exchange", client # None PROVE FALSE
    OBVIOUS
  <2>1. gc[client].meetingId = None
    BY <1>4 DEF InMeeting
  <2>2. PICK d \in Calls : Opening(d)
    BY <2>1 DEF CleanInv
  <2> QED
    BY <1>1, <1>4, <2>2, OthersAreNoSessionCalls
<1>6. \A d \in Calls : /\ call'[d].at = "exchange" => client' = None
                       /\ Opening(d)' \/ Leaving(d)' => call'[d].conn = client'
                       /\ call'[d].at = "unlisten" => gc'[call'[d].conn].ws # "up"
  <2>1. ASSUME NEW d \in Calls \ {c}
        PROVE  /\ call'[d].at = "exchange" => client' = None
               /\ Opening(d)' \/ Leaving(d)' => call'[d].conn = client'
               /\ call'[d].at = "unlisten" => gc'[call'[d].conn].ws # "up"
    <3>1. call'[d] = call[d]
      BY <1>1 DEF Calling
    <3>2. call[d].at = "unlisten" => call[d].conn \in Conns
      BY CallStands DEF Leaving
    <3> QED
      BY <1>1, <3>1, <3>2 DEF CleanInv, Opening, Leaving
  <2>2. call'[c].at # "unlisten"
    BY <1>4 DEF Leaving
  <2> QED
    BY <1>1, <1>4, <1>5, <2>1, <2>2
<1>7. client' # None =>
           gc'[client'].meetingId # None \/ \E d \in Calls : Opening(d)' /\ call'[d].conn = client'
  <2> SUFFICES ASSUME client # None, gc'[client].meetingId = None
               PROVE  \E d \in Calls : Opening(d)' /\ call'[d].conn = client
    BY <1>1
  <2>1. gc[client].meetingId = None
    BY <1>1 DEF CallInv
  <2>2. PICK d \in Calls : Opening(d) /\ call[d].conn = client
    BY <2>1 DEF CleanInv
  <2>3. call'[d] = call[d]
    BY <1>1, <2>2 DEF Calling
  <2> QED
    BY <2>2, <2>3 DEF Opening
<1>8. \A k \in Conns : gc'[k].ws = "up" /\ home'[k] # None => k = client'
  BY <1>1 DEF CleanInv
<1> QED
  BY <1>3, <1>6, <1>7, <1>8 DEF CleanInv

\* The only session call moves, and what is left to show is about it.
LEMMA SessionCallMoves ==
    ASSUME CallInv, CleanInv, NEW c \in Calls, Calling(c), call[c].tool \in SessionTools,
           call'[c] = NoCall \/ call'[c].tool = call[c].tool,
           \A k \in Conns : gc'[k].ws = "up" /\ home'[k] # None => k = client',
           client' # None => gc'[client'].meetingId # None \/ (Opening(c)' /\ call'[c].conn = client'),
           call'[c].at # "exchange", Opening(c)' \/ Leaving(c)' => call'[c].conn = client',
           call'[c].at = "unlisten" => gc'[call'[c].conn].ws # "up"
    PROVE  CleanInv'
<1>1. \A d \in Calls \ {c} : call'[d] = call[d]
  BY DEF Calling
<1>2. \A d \in Calls \ {c} : /\ call'[d].tool \notin SessionTools
                             /\ call'[d].at # "exchange" /\ ~Opening(d)' /\ ~Leaving(d)'
  BY <1>1, OthersAreNoSessionCalls DEF Opening, Leaving
<1>3. \A d, e \in Calls : call'[d].tool \in SessionTools /\ call'[e].tool \in SessionTools => d = e
  BY <1>2
<1>4. \A d \in Calls : /\ call'[d].at = "exchange" => client' = None
                       /\ Opening(d)' \/ Leaving(d)' => call'[d].conn = client'
                       /\ call'[d].at = "unlisten" => gc'[call'[d].conn].ws # "up"
  BY <1>2 DEF Leaving
<1> QED
  BY <1>3, <1>4 DEF CleanInv

LEMMA ClientStepStaysClean ==
    ASSUME CallInv, CleanInv, NEW c \in Calls, ClientStep(c), clean'
    PROVE  CleanInv'
<1> DEFINE k == call[c].conn
<1>1. "idle" \notin {"exchange", "connect", "joined", "close", "unlisten"} /\ NoCall.at = "idle"
  BY DEF NoCall
<1>2. CASE ExchangeForGatewayToken(c)
  <2>1. /\ UNCHANGED <<gc, home>> /\ Calling(c) /\ call[c].tool \in SessionTools /\ client = None
    BY <1>2, ExchangePlaces, SessionCalls DEF ExchangeForGatewayToken, Elsewhere, relayVars, CleanInv
  <2>2. CASE Ends(c) /\ UNCHANGED client
    <3>1. call'[c] = NoCall
      BY <2>2, EndsCalls DEF CallInv
    <3> QED
      BY <1>1, <2>1, <2>2, <3>1, SessionCallMoves DEF CleanInv, Opening, Leaving
  <2>3. CASE ~(Ends(c) /\ UNCHANGED client)
    <3>1. PICK x \in Unused : /\ client' = x
                              /\ call' = [call EXCEPT ![c].at = "connect", ![c].conn = x]
      BY <1>2, <2>3 DEF ExchangeForGatewayToken
    <3>2. call'[c].at = "connect" /\ call'[c].conn = client' /\ call'[c].tool = call[c].tool
      BY <3>1 DEF CallInv, CallShape
    <3>3. \A y \in Conns : gc'[y].ws = "up" /\ home'[y] # None => y = client'
      BY <2>1, CallStands DEF CleanInv
    <3> QED
      BY <2>1, <3>2, <3>3, SessionCallMoves DEF Opening, Leaving
  <2> QED
    BY <2>2, <2>3
<1>3. CASE Connect(c)
  <2>1. ConnectSucceeds(c) /\ call[c].at = "connect" /\ UNCHANGED <<client, inside, wire>>
    BY <1>3 DEF Connect, ConnectSucceeds
  <2>2. /\ k \in Conns /\ gc'[k].meetingId = gc[k].meetingId
        /\ \A x \in Conns \ {k} : gc'[x] = gc[x] /\ home'[x] = home[x]
        /\ Calling(c) /\ call'[c].tool = call[c].tool /\ call'[c].conn = k
        /\ call'[c].at = "joined"
    BY <2>1, ConnectChanges
  <2>3. call[c].tool \in SessionTools /\ k = client
    BY <2>1, SessionCalls DEF Opening, CleanInv
  <2>4. \A y \in Conns : gc'[y].ws = "up" /\ home'[y] # None => y = client'
    BY <2>1, <2>2, <2>3 DEF CleanInv
  <2> QED
    BY <2>1, <2>2, <2>3, <2>4, SessionCallMoves DEF Opening, Leaving
<1>4. CASE AwaitJoined(c)
  <2>1. Opening(c) /\ UNCHANGED <<client, home>>
    BY <1>4 DEF AwaitJoined, Opening
  <2>2. /\ k \in Conns /\ gc'[k].ws = gc[k].ws /\ gc'[k].meetingId = call[c].mid
        /\ \A x \in Conns \ {k} : gc'[x] = gc[x]
        /\ Calling(c) /\ call'[c] = NoCall /\ call[c].mid \in Meetings
    BY <1>4, AwaitChanges
  <2>3. call[c].tool \in SessionTools /\ k = client /\ None \notin Meetings
    BY <2>1, SessionCalls, McpAssumption DEF CleanInv
  <2>4. \A y \in Conns : gc'[y].ws = "up" /\ home'[y] # None => y = client'
    BY <2>1, <2>2, <2>3 DEF CleanInv
  <2> QED
    BY <1>1, <2>1, <2>2, <2>3, <2>4, SessionCallMoves DEF Opening, Leaving
<1>5. CASE kutana_leave_meeting(c)
  <2>1. UNCHANGED <<client, gc, home>>
    BY <1>5 DEF kutana_leave_meeting, Elsewhere, relayVars
  <2>2. /\ Calling(c) /\ call[c].tool = "leave_meeting" /\ call[c].at = "act"
        /\ \/ client = None /\ call'[c] = NoCall
           \/ /\ client \in Conns /\ call'[c].conn = client /\ call'[c].tool = "leave_meeting"
              /\ call'[c].at = IF gc[client].ws = "up" THEN "close" ELSE "unlisten"
    BY <1>5, LeaveChanges
  <2>3. call[c].tool \in SessionTools /\ ~Opening(c)
    BY <2>2 DEF SessionTools, Opening
  <2>4. client # None => gc[client].meetingId # None
    BY <2>3, OthersAreNoSessionCalls DEF CleanInv
  <2>5. \A y \in Conns : gc'[y].ws = "up" /\ home'[y] # None => y = client'
    BY <2>1 DEF CleanInv
  <2>6. CASE call'[c] = NoCall
    BY <1>1, <2>1, <2>2, <2>3, <2>4, <2>5, <2>6, SessionCallMoves DEF Opening, Leaving
  <2>7. CASE call'[c] # NoCall
    BY <2>1, <2>2, <2>3, <2>4, <2>5, <2>7, SessionCallMoves DEF Opening, Leaving
  <2> QED
    BY <2>6, <2>7
<1>6. CASE CloseSocket(c)
  <2>1. Leaving(c) /\ UNCHANGED <<client, home>>
    BY <1>6 DEF CloseSocket, Leaving, Elsewhere, relayVars
  <2>2. /\ k \in Conns /\ gc'[k].ws = "none" /\ gc'[k].meetingId = gc[k].meetingId
        /\ \A x \in Conns \ {k} : gc'[x] = gc[x]
        /\ Calling(c)
        /\ \/ call'[c] = NoCall /\ gc[k].ws = "none"
           \/ call'[c].tool = call[c].tool /\ call'[c].conn = k /\ call'[c].at = "unlisten"
    BY <1>6, CloseChanges
  <2>3. call[c].tool \in SessionTools /\ k = client /\ ~Opening(c)
    BY <1>6, <2>1, SessionCalls DEF CleanInv, CloseSocket, Opening
  <2>4. client # None => gc[client].meetingId # None
    BY <2>3, OthersAreNoSessionCalls DEF CleanInv
  <2>5. \A y \in Conns : gc'[y].ws = "up" /\ home'[y] # None => y = client'
    BY <2>1, <2>2, <2>3 DEF CleanInv
  <2>6. CASE call'[c] = NoCall
    BY <1>1, <2>1, <2>2, <2>3, <2>4, <2>5, <2>6, SessionCallMoves DEF Opening, Leaving
  <2>7. CASE call'[c] # NoCall
    BY <2>1, <2>2, <2>3, <2>4, <2>5, <2>7, SessionCallMoves DEF Opening, Leaving
  <2> QED
    BY <2>6, <2>7
<1>7. CASE StopListening(c)
  <2>1. Leaving(c) /\ call[c].at = "unlisten" /\ client' = None /\ UNCHANGED home
    BY <1>7 DEF StopListening, Leaving, Elsewhere, relayVars
  <2>2. /\ k \in Conns /\ gc'[k].ws = gc[k].ws
        /\ \A x \in Conns \ {k} : gc'[x] = gc[x]
        /\ Calling(c) /\ call'[c] = NoCall
    BY <1>7, StopChanges
  <2>3. call[c].tool \in SessionTools /\ k = client /\ gc[k].ws # "up"
    BY <2>1, SessionCalls DEF CleanInv
  <2>4. \A y \in Conns : gc'[y].ws = "up" /\ home'[y] # None => y = client'
    BY <2>1, <2>2, <2>3 DEF CleanInv
  <2> QED
    BY <1>1, <2>1, <2>2, <2>3, <2>4, SessionCallMoves DEF Opening, Leaving
<1> QED
  BY <1>2, <1>3, <1>4, <1>5, <1>6, <1>7 DEF ClientStep

LEMMA CleanWas ==
    ASSUME CallInv, NEW c \in Calls, Quiet(c) \/ ClientStep(c), clean'
    PROVE  clean
<1>1. CASE Quiet(c)
  BY <1>1 DEF Quiet, StaysClean
<1>2. CASE AwaitJoined(c)
  BY <1>2, AwaitChanges
<1>3. CASE Connect(c)
  <2>1. clean' # FALSE
    OBVIOUS
  <2>2. UNCHANGED clean
    BY <1>3, <2>1 DEF Connect
  <2> QED
    BY <2>2
<1>4. CASE ~AwaitJoined(c) /\ ~Connect(c) /\ ClientStep(c)
  <2>1. UNCHANGED clean
    BY <1>4 DEF ClientStep, ExchangeForGatewayToken, kutana_leave_meeting, CloseSocket, StopListening
  <2> QED
    BY <2>1
<1> QED
  BY <1>1, <1>2, <1>3, <1>4

LEMMA StepStaysClean ==
    CallInv /\ (clean => CleanInv) /\ [ServerNext]_serverVars => (clean => CleanInv)'
<1> SUFFICES ASSUME CallInv, clean => CleanInv, [ServerNext]_serverVars, clean' PROVE CleanInv'
  OBVIOUS
<1>1. CASE UNCHANGED <<mcpVars, home>>
  <2>1. UNCHANGED clean /\ UNCHANGED <<call, client, gc, home>>
    BY <1>1 DEF mcpVars
  <2> QED
    BY <2>1, CleanWithoutCalls
<1>2. ASSUME NEW k \in Conns, Listen(k) PROVE CleanInv'
  <2>1. UNCHANGED clean /\ UNCHANGED <<call, client, home>>
    BY <1>2 DEF Listen, sessionVars
  <2>2. \A x \in Conns : gc'[x].ws = gc[x].ws /\ gc'[x].meetingId = gc[x].meetingId
    BY <1>2, ListenChanges
  <2> QED
    BY <2>1, <2>2, CleanWithoutCalls
<1>3. CASE UNCHANGED <<call, client, gc, clean>> /\ \A k \in Conns : home'[k] \in {home[k], None}
  <2>1. UNCHANGED clean
    BY <1>3
  <2> QED
    BY <1>3, <2>1, CleanWithoutCalls
<1>4. ASSUME NEW k \in Conns, HandleMessage(k) \/ SendJoined(k) PROVE CleanInv'
  BY <1>3, <1>4 DEF HandleMessage, SendJoined, sessionVars
<1>5. ASSUME SomeEnd, UNCHANGED clean PROVE CleanInv'
  BY <1>3, <1>5 DEF SomeEnd
<1>6. ASSUME NEW c \in Calls, Quiet(c) \/ ClientStep(c) PROVE CleanInv'
  BY <1>6, CleanWas, QuietStaysClean, ClientStepStaysClean
<1>7. \A g : RelayMoves(g) => UNCHANGED <<mcpVars, home>>
  BY DEF RelayMoves, ReadEvents, Route, Acknowledge, SendTo, sessionVars
<1>8. Publishes \/ TimePasses \/ UNCHANGED serverVars => UNCHANGED <<mcpVars, home>>
  BY DEF Publishes, Publish, TimePasses, relayVars, sessionVars, serverVars
<1>9. \A k : SessionEnds(k) \/ ProcessDies(k) => UNCHANGED clean
  BY DEF SessionEnds, ProcessDies
<1>10. CASE ServerNext
  BY <1>1, <1>2, <1>4, <1>5, <1>6, <1>7, <1>8, <1>9, <1>10, StepKinds
<1> QED
  BY <1>1, <1>8, <1>10

LEMMA CleanBegins == ServerInit => CleanInv
<1> SUFFICES ASSUME ServerInit PROVE CleanInv
  OBVIOUS
<1> DEFINE k0 == CHOOSE k \in Conns : TRUE
<1>1. k0 \in Conns /\ Meeting # None
  BY McpAssumption
<1> HIDE DEF k0
<1>2. \A c \in Calls : call[c].tool \notin SessionTools /\ call[c].at = "idle"
  BY DEF ServerInit, McpInit, NoCall, SessionTools
<1>3. \A k \in Conns : gc[k] = IF AlwaysIn /\ k = k0
                THEN [NewClient EXCEPT !.ws = "up", !.meetingId = Meeting, !.listening = TRUE]
                ELSE NewClient
  BY DEF ServerInit, McpInit, k0
<1>4. client = IF AlwaysIn THEN k0 ELSE None
  BY DEF ServerInit, McpInit, k0
<1>5. \A k \in Conns : gc[k].ws = "up" => k = client
  BY <1>3, <1>4 DEF NewClient
<1>6. client # None => gc[client].meetingId # None
  BY <1>1, <1>3, <1>4 DEF NewClient
<1> QED
  BY <1>2, <1>5, <1>6 DEF CleanInv, Opening, Leaving

\* Where calls to join and leave do not overlap and no join fails, the
\* socket of the client is the only one the agent has at the gateway
\* (kutana_join_meeting, kutana_leave_meeting).
THEOREM OneSocketAtATime == ServerSpec => []OneConnection
<1>1. ServerSpec => [](clean => CleanInv)
  BY CallsArePlaced, CleanBegins, StepStaysClean, PTL DEF ServerSpec
<1>2. (clean => CleanInv) => OneConnection
  BY DEF CleanInv, OneConnection
<1> QED
  BY <1>1, <1>2, PTL

-----------------------------------------------------------------------------
\* The rate limit

PassIsCounted(p) ==
    /\ p = [at |-> p.at, call |-> p.call] /\ p.at \in 0 .. clock /\ p.call \in Members
    /\ p.at <= p.call[1] + Delay /\ p.at + Window < expires
    /\ clock + Delay < p.at + Window => p.call \in counted
Together(p, q) == p.at + Delay < q.at + Window /\ q.at + Delay < p.at + Window
RateInv ==
    /\ clock \in Nat /\ expires \in Nat
    /\ counted \subseteq Members /\ IsFiniteSet(counted) /\ IsFiniteSet(passed)
    /\ \A p \in passed : PassIsCounted(p)
    /\ \A p, q \in passed : p.call = q.call /\ Together(p, q) => p = q
    /\ \A t \in Nat : Cardinality({p \in passed : t <= p.at /\ p.at + Delay < t + Window}) <= MaxRequests
    /\ \A c \in Calls : call[c].at = "limit" =>
           call[c].now \in 0 .. clock /\ clock <= call[c].now + Delay

InWindow(t) == {p \in passed : t <= p.at /\ p.at + Delay < t + Window}

\* The set is never full of members of one time when a call is let through.
LEMMA ThisCallIsFree ==
    ASSUME NEW now \in Nat, counted \subseteq Members, IsFiniteSet(counted),
           Cardinality(WithCall(now)) <= MaxRequests
    PROVE  /\ ThisCall(now) \in Members /\ ThisCall(now)[1] = now
           /\ ThisCall(now) \notin Kept(now) /\ WithCall(now) = Kept(now) \cup {ThisCall(now)}
<1>1. Free(now) # {}
  <2> SUFFICES ASSUME Free(now) = {} PROVE FALSE
    OBVIOUS
  <2> DEFINE n == MaxRequests + 1
  <2> DEFINE all == {now} \X (1 .. n)
  <2>1. all \subseteq Kept(now) /\ WithCall(now) = Kept(now)
    BY DEF Free, WithCall
  <2>2. IsFiniteSet(Kept(now))
    BY FS_EmptySet, FS_Subset DEF Kept
  <2>3. IsFiniteSet(all) /\ Cardinality(all) <= Cardinality(Kept(now))
    BY <2>1, <2>2, FS_Subset
  <2>4. n \in Nat /\ IsFiniteSet(1 .. n) /\ Cardinality(1 .. n) = n
    BY FS_Interval, LimiterAssumption
  <2> DEFINE f == [i \in 1 .. n |-> <<now, i>>]
  <2>5. f \in Injection(1 .. n, all)
    BY DEF Injection, IsInjective
  <2> HIDE DEF f, all, n
  <2>6. Cardinality(1 .. n) <= Cardinality(all)
    BY <2>3, <2>5, FS_Injection
  <2>7. Cardinality(Kept(now)) \in Nat /\ Cardinality(all) \in Nat
    BY <2>2, <2>3, FS_CardinalityType
  <2> QED
    BY <2>1, <2>3, <2>4, <2>6, <2>7, LimiterAssumption DEF n
<1>2. ThisCall(now) \in Free(now)
  BY <1>1 DEF ThisCall
<1>3. WithCall(now) = Kept(now) \cup {ThisCall(now)}
  BY <1>1 DEF WithCall
<1> QED
  BY <1>2, <1>3 DEF Free, Members

\* A call that passed so lately that the window of another that passes now
\* may hold both is still in the sorted set.
LEMMA LatePassIsKept ==
    ASSUME RateInv, NEW now \in 0 .. clock, NEW p \in passed, clock + Delay < p.at + Window
    PROVE  p.call \in Kept(now)
<1>1. PassIsCounted(p) /\ clock \in Nat /\ expires \in Nat
  BY DEF RateInv
<1>2. p.call \in counted /\ p.call[1] \in Nat /\ p.at \in Nat /\ p.at <= p.call[1] + Delay
      /\ p.at + Window < expires
  BY <1>1 DEF PassIsCounted, Members
<1>3. clock < expires /\ p.call[1] + Window > now
  BY <1>1, <1>2, LimiterAssumption
<1> QED
  BY <1>1, <1>2, <1>3 DEF Kept

\* Every member a transaction leaves in the set is one.
LEMMA SetStaysFinite ==
    ASSUME RateInv, NEW now \in Nat
    PROVE  /\ Kept(now) \subseteq counted /\ WithCall(now) \subseteq Members
           /\ Kept(now) \subseteq WithCall(now)
           /\ IsFiniteSet(WithCall(now)) /\ Cardinality(WithCall(now)) \in Nat
<1>1. counted \subseteq Members /\ IsFiniteSet(counted)
  BY DEF RateInv
<1>2. Kept(now) \subseteq counted /\ IsFiniteSet(Kept(now))
  BY <1>1, FS_EmptySet, FS_Subset DEF Kept
<1>3. CASE Free(now) = {}
  BY <1>1, <1>2, <1>3, FS_CardinalityType DEF WithCall
<1>4. CASE Free(now) # {}
  <2>1. ThisCall(now) \in Members
    BY <1>4, LimiterAssumption DEF ThisCall, Free, Members
  <2> QED
    BY <1>1, <1>2, <1>4, <2>1, FS_AddElement, FS_CardinalityType DEF WithCall
<1> QED
  BY <1>3, <1>4

\* The call that passes now.
LEMMA PassesOnce ==
    ASSUME RateInv, NEW now \in 0 .. clock, Cardinality(WithCall(now)) <= MaxRequests,
           NEW p \in passed, clock + Delay < p.at + Window
    PROVE  p.call # ThisCall(now)
BY LatePassIsKept, ThisCallIsFree DEF RateInv

LEMMA WindowIsBounded ==
    ASSUME RateInv, NEW now \in 0 .. clock, Cardinality(WithCall(now)) <= MaxRequests,
           NEW t \in Nat, t <= clock, clock + Delay < t + Window,
           NEW new, new = [at |-> clock, call |-> ThisCall(now)]
    PROVE  Cardinality(InWindow(t) \cup {new}) <= MaxRequests
<1> DEFINE S == InWindow(t) \cup {new}
<1> DEFINE T == WithCall(now)
<1>1. clock \in Nat /\ now \in Nat /\ new.at = clock /\ new.call = ThisCall(now)
  BY DEF RateInv
<1>2. ASSUME NEW p \in InWindow(t)
      PROVE  /\ p \in passed /\ clock + Delay < p.at + Window /\ p.call \in Kept(now)
             /\ p.at \in Nat /\ t <= p.at /\ p.at + Delay < t + Window
  <2>1. p \in passed /\ t <= p.at /\ p.at + Delay < t + Window
    BY DEF InWindow
  <2>2. p.at \in Nat
    BY <1>1, <2>1 DEF RateInv, PassIsCounted
  <2>3. clock + Delay < p.at + Window
    BY <1>1, <2>1, <2>2, LimiterAssumption
  <2> QED
    BY <2>1, <2>2, <2>3, LatePassIsKept
<1>3. ASSUME NEW p \in InWindow(t), NEW q \in InWindow(t), p.call = q.call PROVE p = q
  <2>1. Together(p, q)
    BY <1>2, LimiterAssumption DEF Together
  <2> QED
    BY <1>2, <1>3, <2>1 DEF RateInv
<1>4. ASSUME NEW p \in InWindow(t) PROVE p.call # new.call
  BY <1>1, <1>2, PassesOnce
<1>5. new.call \in T /\ Kept(now) \subseteq T
  BY <1>1, ThisCallIsFree DEF RateInv
<1> DEFINE f == [p \in S |-> p.call]
<1>6. f \in Injection(S, T)
  <2>1. f \in [S -> T]
    BY <1>2, <1>5
  <2>2. \A p, q \in S : f[p] = f[q] => p = q
    BY <1>3, <1>4
  <2> QED
    BY <2>1, <2>2 DEF Injection, IsInjective
<1> HIDE DEF f
<1>7. IsFiniteSet(T) /\ Cardinality(T) \in Nat
  BY <1>1, SetStaysFinite
<1> HIDE DEF S, T
<1>8. IsFiniteSet(S) /\ Cardinality(S) <= Cardinality(T)
  BY <1>6, <1>7, FS_Injection
<1>9. Cardinality(S) \in Nat /\ MaxRequests \in Nat
  BY <1>8, FS_CardinalityType, LimiterAssumption
<1>10. Cardinality(T) <= MaxRequests
  BY DEF T
<1>11. Cardinality(S) <= MaxRequests
  BY <1>7, <1>8, <1>9, <1>10
<1> QED
  BY <1>11 DEF S

LEMMA CheckKeepsRate ==
    ASSUME RateInv, NEW now \in 0 .. clock, clock <= now + Delay, NEW allowed \in BOOLEAN,
           Check(now, allowed),
           \A c \in Calls : call'[c].at = "limit" => call'[c] = call[c]
    PROVE  RateInv'
<1> DEFINE new == [at |-> clock, call |-> ThisCall(now)]
<1>1. /\ clock' = clock /\ counted' = WithCall(now) /\ expires' = clock + Window + 1
      /\ passed' = passed \/ (passed' = passed \cup {new} /\ Cardinality(WithCall(now)) <= MaxRequests)
  BY DEF Check, LetThrough
<1>2. clock \in Nat /\ now \in Nat /\ expires \in Nat /\ IsFiniteSet(passed)
      /\ counted \subseteq Members /\ IsFiniteSet(counted)
  BY DEF RateInv
<1>3. counted' \subseteq Members /\ IsFiniteSet(counted') /\ expires' \in Nat /\ IsFiniteSet(passed')
  <2>1. counted' \subseteq Members /\ IsFiniteSet(counted')
    BY <1>1, <1>2, SetStaysFinite
  <2>2. expires' \in Nat
    BY <1>1, <1>2, LimiterAssumption
  <2>3. IsFiniteSet(passed \cup {new})
    BY <1>2, FS_AddElement
  <2> QED
    BY <1>1, <1>2, <2>1, <2>2, <2>3
<1>4. ASSUME NEW p \in passed PROVE PassIsCounted(p)'
  <2>1. PassIsCounted(p)
    BY DEF RateInv
  <2>2. p.at + Window < expires'
    BY <1>1, <1>2, <2>1, LimiterAssumption DEF PassIsCounted
  <2>3. clock + Delay < p.at + Window => p.call \in counted'
    BY <1>1, <1>2, LatePassIsKept, SetStaysFinite
  <2> QED
    BY <1>1, <2>1, <2>2, <2>3 DEF PassIsCounted
<1>5. ASSUME Cardinality(WithCall(now)) <= MaxRequests, NEW p, p = new PROVE PassIsCounted(p)'
  <2>1. /\ ThisCall(now) \in Members /\ ThisCall(now)[1] = now
        /\ ThisCall(now) \in counted'
    BY <1>1, <1>2, <1>5, ThisCallIsFree
  <2>2. p.at = clock /\ p.call = ThisCall(now) /\ p = [at |-> p.at, call |-> p.call]
    BY <1>5
  <2>3. clock \in 0 .. clock' /\ clock + Window < expires'
    BY <1>1, <1>2, LimiterAssumption
  <2> QED
    BY <1>1, <2>1, <2>2, <2>3 DEF PassIsCounted
<1>6. \A p \in passed' : PassIsCounted(p)'
  BY <1>1, <1>4, <1>5
<1>7. \A p, q \in passed' : p.call = q.call /\ Together(p, q) => p = q
  <2>1. ASSUME Cardinality(WithCall(now)) <= MaxRequests, NEW p \in passed,
               Together(p, new) \/ Together(new, p)
        PROVE  p.call # new.call
    <3>1. clock + Delay < p.at + Window
      BY <2>1 DEF Together
    <3> QED
      BY <2>1, <3>1, PassesOnce
  <2> QED
    BY <1>1, <2>1 DEF RateInv
<1>8. ASSUME NEW t \in Nat PROVE Cardinality(InWindow(t)') <= MaxRequests
  <2>1. Cardinality(InWindow(t)) <= MaxRequests
    BY DEF RateInv, InWindow
  <2>2. CASE InWindow(t)' = InWindow(t)
    BY <2>1, <2>2
  <2>3. CASE InWindow(t)' # InWindow(t)
    <3>1. /\ passed' = passed \cup {new} /\ Cardinality(WithCall(now)) <= MaxRequests
          /\ t <= new.at /\ new.at + Delay < t + Window
      BY <1>1, <2>3 DEF InWindow
    <3>2. InWindow(t)' = InWindow(t) \cup {new}
      BY <3>1 DEF InWindow
    <3>3. Cardinality(InWindow(t) \cup {new}) <= MaxRequests
      BY <3>1, WindowIsBounded
    <3> QED
      BY <3>2, <3>3
  <2> QED
    BY <2>2, <2>3
<1>9. \A c \in Calls : call'[c].at = "limit" =>
          call'[c].now \in 0 .. clock' /\ clock' <= call'[c].now + Delay
  BY <1>1 DEF RateInv
<1> QED
  BY <1>1, <1>2, <1>3, <1>6, <1>7, <1>8, <1>9 DEF RateInv, InWindow, Together

LEMMA TickKeepsRate ==
    ASSUME RateInv, TimePasses
    PROVE  RateInv'
<1>1. UNCHANGED <<call, counted, expires, passed>> /\ clock' = clock + 1
  BY DEF TimePasses, Tick, mcpVars
<1>2. clock \in Nat /\ expires \in Nat
  BY DEF RateInv
<1>3. ASSUME NEW p \in passed PROVE PassIsCounted(p)'
  <2>1. PassIsCounted(p)
    BY DEF RateInv
  <2>2. p.at \in 0 .. clock' /\ p.at \in Nat
    BY <1>1, <1>2, <2>1 DEF PassIsCounted
  <2>3. clock' + Delay < p.at + Window => clock + Delay < p.at + Window
    BY <1>1, <1>2, <2>2, LimiterAssumption
  <2> QED
    BY <1>1, <2>1, <2>2, <2>3 DEF PassIsCounted
<1>4. \A c \in Calls : call'[c].at = "limit" =>
          call'[c].now \in 0 .. clock' /\ clock' <= call'[c].now + Delay
  <2>1. ASSUME NEW c \in Calls, call[c].at = "limit"
        PROVE  call[c].now \in 0 .. clock /\ clock < call[c].now + Delay
    BY <2>1 DEF TimePasses, RateInv
  <2> QED
    BY <1>1, <1>2, <2>1, LimiterAssumption
<1> QED
  BY <1>1, <1>2, <1>3, <1>4 DEF RateInv, Together

LEMMA LimitedCalls ==
    ASSUME CallInv, ServerNext, NEW d \in Calls, call'[d].at = "limit"
    PROVE  call'[d] = call[d] \/ call'[d].now = clock
<1>1. ASSUME NEW c \in Calls, Quiet(c) PROVE call'[d] = call[d] \/ call'[d].now = clock
  <2>1. CASE d # c
    BY <1>1, <2>1 DEF Quiet, Calling
  <2>2. CASE d = c
    BY <1>1, <2>2 DEF Quiet, NoCall, Entering, Working, Preparing
  <2> QED
    BY <2>1, <2>2
<1>2. ASSUME NEW c \in Calls, ClientStep(c) PROVE call'[d] = call[d]
  <2>1. NoCall.at = "idle"
    BY DEF NoCall
  <2>2. ExchangeForGatewayToken(c) => Calling(c) /\ call'[c].at # "limit"
    <3>1. ASSUME NEW x, call' = [call EXCEPT ![c].at = "connect", ![c].conn = x]
          PROVE  call'[c].at = "connect"
      BY <3>1 DEF CallInv, CallShape
    <3> QED
      BY <2>1, <3>1, ExchangePlaces, EndsCalls DEF ExchangeForGatewayToken, CallInv
  <2>3. Connect(c) => Calling(c) /\ call'[c].at # "limit"
    BY <2>1, EndsCalls, GoesCalls DEF Connect, CallInv
  <2>4. AwaitJoined(c) => Calling(c) /\ call'[c].at # "limit"
    BY <2>1, AwaitChanges
  <2>5. kutana_leave_meeting(c) => Calling(c) /\ call'[c].at # "limit"
    BY <2>1, LeaveChanges
  <2>6. CloseSocket(c) \/ StopListening(c) => Calling(c) /\ call'[c].at # "limit"
    BY <2>1, CloseChanges, StopChanges
  <2> QED
    BY <1>2, <2>2, <2>3, <2>4, <2>5, <2>6 DEF ClientStep, Calling
<1>3. CASE UNCHANGED call
  BY <1>3
<1>4. \A k : Listen(k) \/ HandleMessage(k) \/ SendJoined(k) \/ SessionEnds(k) \/ ProcessDies(k)
             \/ RelayMoves(k) \/ Publishes \/ TimePasses => UNCHANGED call
  BY DEF Listen, HandleMessage, SendJoined, SessionEnds, ProcessDies, RelayMoves, Publishes,
         TimePasses, mcpVars
<1> QED
  BY <1>1, <1>2, <1>3, <1>4, StepKinds

LEMMA LimiterSteps ==
    ASSUME CallInv, ServerNext
    PROVE  \/ UNCHANGED limiterVars
           \/ TimePasses
           \/ \E c \in Calls : RateLimit(c)
BY DEF ServerNext, CallStep, ToolStep, Receive, ExchangeForMcpToken, LimiterFails, ApiFails,
       ExchangeForGatewayToken, Connect, AwaitJoined, CloseSocket, StopListening,
       kutana_join_meeting, kutana_leave_meeting, kutana_join_or_create_meeting,
       kutana_create_meeting, kutana_start_meeting, kutana_end_meeting,
       kutana_subscribe_channel, kutana_publish_to_channel, kutana_set_context, kutana_speak,
       kutana_get_transcript, kutana_get_participants, kutana_get_channel_messages,
       kutana_get_meeting_events, kutana_list_meetings, kutana_get_tasks, kutana_create_task,
       kutana_get_summary, kutana_raise_hand, kutana_get_queue_status, kutana_start_speaking,
       kutana_mark_finished_speaking, kutana_cancel_hand_raise, kutana_get_speaking_status,
       kutana_send_chat_message, kutana_get_chat_messages, kutana_get_meeting_status,
       Answers, CallOnly, ApiOnly, Elsewhere, Listen, SessionStep, HandleMessage, SendJoined,
       SessionEnds, GatewayStep, ProcessDies

LEMMA StepKeepsRate == CallInv /\ RateInv /\ [ServerNext]_serverVars => RateInv'
<1> SUFFICES ASSUME CallInv, RateInv, [ServerNext]_serverVars PROVE RateInv'
  OBVIOUS
<1>1. ASSUME UNCHANGED limiterVars,
             \A c \in Calls : call'[c].at = "limit" => call'[c] = call[c] \/ call'[c].now = clock
      PROVE  RateInv'
  <2>1. UNCHANGED <<clock, counted, expires, passed>>
    BY <1>1 DEF limiterVars
  <2>2. \A c \in Calls : call'[c].at = "limit" =>
            call'[c].now \in 0 .. clock' /\ clock' <= call'[c].now + Delay
    BY <1>1, <2>1, LimiterAssumption DEF RateInv
  <2>3. \A p : PassIsCounted(p)' <=> PassIsCounted(p)
    BY <2>1 DEF PassIsCounted
  <2> QED
    BY <2>1, <2>2, <2>3 DEF RateInv, Together
<1>2. CASE UNCHANGED serverVars
  BY <1>1, <1>2 DEF serverVars, mcpVars
<1>3. CASE ServerNext /\ UNCHANGED limiterVars
  BY <1>1, <1>3, LimitedCalls
<1>4. ASSUME NEW c \in Calls, RateLimit(c) PROVE RateInv'
  <2>1. call[c].at = "limit"
    BY <1>4 DEF RateLimit
  <2>2. PICK allowed \in BOOLEAN :
          /\ Check(call[c].now, allowed) \/ UNCHANGED limiterVars
          /\ Goes(c, "act") \/ Ends(c)
    BY <1>4 DEF RateLimit
  <2>3. \A d \in Calls : call'[d].at = "limit" => call'[d] = call[d]
    BY <2>2, GoesCalls, EndsCalls DEF CallInv, Calling, NoCall
  <2>4. call[c].now \in 0 .. clock /\ clock <= call[c].now + Delay
    BY <2>1 DEF RateInv
  <2> QED
    BY <1>1, <2>2, <2>3, <2>4, CheckKeepsRate
<1> QED
  BY <1>2, <1>3, <1>4, LimiterSteps, TickKeepsRate

LEMMA RateBegins == ServerInit => RateInv
<1> SUFFICES ASSUME ServerInit PROVE RateInv
  OBVIOUS
<1>1. clock = 0 /\ expires = 0 /\ counted = {} /\ passed = {}
  BY DEF ServerInit, LimiterInit
<1>2. \A c \in Calls : call[c].at # "limit"
  BY DEF ServerInit, McpInit, NoCall
<1>3. \A t \in Nat : Cardinality({p \in passed : t <= p.at /\ p.at + Delay < t + Window}) = 0
  BY <1>1, FS_EmptySet
<1> QED
  BY <1>1, <1>2, <1>3, FS_EmptySet, LimiterAssumption DEF RateInv

\* However many processes serve the agent, at most MaxRequests of its calls
\* pass in any time that is shorter than the window by what a transaction
\* may be late, whatever the delays (RedisRateLimiter.check).
THEOREM RateStaysBounded == ServerSpec => []RateIsBounded
<1>1. ServerSpec => []RateInv
  BY CallsArePlaced, RateBegins, StepKeepsRate, PTL DEF ServerSpec
<1>2. RateInv => RateIsBounded
  <2>1. \A t \in Times : t \in Nat
    BY LimiterAssumption DEF Times
  <2> QED
    BY <2>1 DEF RateInv, RateIsBounded
<1> QED
  BY <1>1, <1>2, PTL

-----------------------------------------------------------------------------
\* Numbers in sequence

\* Numbers of entries that rise, and the answers to a join among them.
Rising(s) ==
    /\ s \in Seq(Nat)
    /\ \A i, j \in 1 .. Len(s) : i < j /\ s[i] # Joined /\ s[j] # Joined => s[i] < s[j]
EventsOf(s) == {s[i] : i \in 1 .. Len(s)} \ {Joined}
Interval(s, e) ==
    /\ s \in Seq(Nat) /\ Len(s) <= e
    /\ \A i \in 1 .. Len(s) : s[i] = e - Len(s) + i
Sent(k) == EventsOf(gc[k].heard) \cup EventsOf(wire[k])
\* Session k had its turn with entry n at gateway g.
Served(g, k) == targets[g] # None /\ k \notin targets[g]
Before(g, k, n) ==
    /\ n <= group.last
    /\ hand[g] # <<>> => n < Head(hand[g]) \/ (n = Head(hand[g]) /\ Served(g, k))
BatchIsNext(g) ==
    /\ \E e \in 0 .. group.last : Interval(hand[g], e)
    /\ targets[g] # None => hand[g] # <<>> /\ targets[g] \subseteq Conns
\* No gateway is about to send to k.
InNoBatch(k) == \A g \in Gateways : targets[g] # None => k \notin targets[g]
CanJoin(k) == inside[k] = None /\ Sent(k) = {} /\ ~AlwaysIn /\ InNoBatch(k)
JoinIsFirst(k) ==
    \A i \in 1 .. Len(outbox[k]) : outbox[k][i][1] = "join" => i = 1 /\ CanJoin(k)
GroupInv ==
    /\ group = [last |-> group.last, pending |-> group.pending]
    /\ hand = [g \in Gateways |-> hand[g]] /\ targets = [g \in Gateways |-> targets[g]]
    /\ stream \in Seq(Kinds) /\ group.last \in 0 .. Len(stream) /\ faults \in Nat
    /\ \A g \in Gateways : BatchIsNext(g)
SessionOrder(k) ==
    /\ Rising(gc[k].heard) /\ Rising(wire[k]) /\ JoinIsFirst(k)
    /\ gc[k].ws = "new" => InNoBatch(k)
    /\ \A n \in EventsOf(gc[k].heard) : \A m \in EventsOf(wire[k]) : n < m
    /\ \A i \in 1 .. Len(gc[k].heard) : gc[k].heard[i] # Joined
    /\ \A n \in Sent(k) : n <= group.last /\ (home[k] # None => Before(home[k], k, n))
OrderInv == GroupInv /\ \A k \in Conns : SessionOrder(k)

\* A single gateway and no faults: what a session has not been sent and has
\* missed nothing by comes after all it has been sent, and is ahead.
Steady == Cardinality(scene.running) = 1 /\ scene.faults = 0
Missing(k) == {n \in 1 .. group.last : stream[n] = "transcript" /\ n \notin Sent(k)}
Due(k) ==
    /\ home[k] # None
    /\ inside[k] = Meeting \/ (targets[home[k]] # None /\ k \in targets[home[k]])
Misses(k, n) ==
    /\ (\E m \in Sent(k) : m < n) => \A m \in Sent(k) : m < n
    /\ Due(k) /\ (AlwaysIn \/ \E m \in Sent(k) : m < n) => ~Before(home[k], k, n)
SteadyInv ==
    Steady =>
      /\ \A g \in scene.running : Interval(hand[g], group.last)
      /\ \A k \in Conns : \A n \in Missing(k) : Misses(k, n)

LEMMA NothingSent ==
    /\ Rising(<<>>) /\ EventsOf(<<>>) = {}
    /\ \A e \in Nat : Interval(<<>>, e)
<1>1. <<>> \in Seq(Nat) /\ Len(<<>>) = 0 /\ 1 .. 0 = {}
  BY EmptySeq
<1> QED
  BY <1>1 DEF Rising, EventsOf, Interval

LEMMA RisingTail ==
    ASSUME NEW s, Rising(s), s # <<>>
    PROVE  /\ Rising(Tail(s)) /\ Head(s) \in Nat
           /\ EventsOf(s) = EventsOf(Tail(s)) \cup ({Head(s)} \ {Joined})
           /\ Head(s) # Joined => \A n \in EventsOf(Tail(s)) : Head(s) < n
<1>1. s \in Seq(Nat) /\ Len(s) \in Nat \ {0} /\ Head(s) = s[1] /\ Head(s) \in Nat
  BY EmptySeq, HeadTailProperties DEF Rising
<1>2. /\ Tail(s) \in Seq(Nat) /\ Len(Tail(s)) = Len(s) - 1
      /\ \A i \in 1 .. Len(s) - 1 : Tail(s)[i] = s[i + 1]
  BY <1>1, HeadTailProperties
<1>3. \A i \in 1 .. Len(s) - 1 : i + 1 \in 1 .. Len(s) /\ 1 < i + 1
  BY <1>1
<1>4. Rising(Tail(s))
  <2> SUFFICES ASSUME NEW i \in 1 .. Len(s) - 1, NEW j \in 1 .. Len(s) - 1, i < j,
                      s[i + 1] # Joined, s[j + 1] # Joined
               PROVE  s[i + 1] < s[j + 1]
    BY <1>2 DEF Rising
  <2>1. i + 1 \in 1 .. Len(s) /\ j + 1 \in 1 .. Len(s) /\ i + 1 < j + 1
    BY <1>1
  <2> QED
    BY <2>1 DEF Rising
<1>5. {s[i] : i \in 1 .. Len(s)} = {Tail(s)[i] : i \in 1 .. Len(s) - 1} \cup {Head(s)}
  <2>1. ASSUME NEW i \in 1 .. Len(s)
        PROVE  s[i] = Head(s) \/ \E j \in 1 .. Len(s) - 1 : s[i] = Tail(s)[j]
    <3>1. CASE i = 1
      BY <1>1, <3>1
    <3>2. CASE i # 1
      <4>1. i - 1 \in 1 .. Len(s) - 1 /\ (i - 1) + 1 = i
        BY <1>1, <3>2
      <4> QED
        BY <1>2, <4>1
    <3> QED
      BY <3>1, <3>2
  <2>2. 1 \in 1 .. Len(s)
    BY <1>1
  <2> QED
    BY <1>1, <1>2, <1>3, <2>1, <2>2
<1>6. ASSUME Head(s) # Joined, NEW n \in EventsOf(Tail(s)) PROVE Head(s) < n
  <2>1. PICK i \in 1 .. Len(s) - 1 : n = Tail(s)[i] /\ n # Joined
    BY <1>2 DEF EventsOf
  <2>2. n = s[i + 1] /\ 1 \in 1 .. Len(s) /\ i + 1 \in 1 .. Len(s) /\ 1 < i + 1
    BY <1>1, <1>2, <2>1
  <2> QED
    BY <1>1, <1>6, <2>1, <2>2 DEF Rising
<1> QED
  BY <1>1, <1>2, <1>4, <1>5, <1>6 DEF EventsOf

LEMMA RisingAppend ==
    ASSUME NEW s, Rising(s), NEW n \in Nat, n = Joined \/ \A m \in EventsOf(s) : m < n
    PROVE  /\ Rising(Append(s, n))
           /\ EventsOf(Append(s, n)) = EventsOf(s) \cup ({n} \ {Joined})
<1> DEFINE t == Append(s, n)
<1>1. /\ s \in Seq(Nat) /\ Len(s) \in Nat /\ t \in Seq(Nat) /\ Len(t) = Len(s) + 1
      /\ t[Len(s) + 1] = n /\ \A i \in 1 .. Len(s) : t[i] = s[i]
  BY AppendProperties DEF Rising
<1> HIDE DEF t
<1>2. 1 .. Len(t) = (1 .. Len(s)) \cup {Len(s) + 1}
  BY <1>1
<1>3. \A i \in 1 .. Len(s) : s[i] # Joined => s[i] \in EventsOf(s)
  BY DEF EventsOf
<1>4. Rising(t)
  <2> SUFFICES ASSUME NEW i \in 1 .. Len(t), NEW j \in 1 .. Len(t), i < j,
                      t[i] # Joined, t[j] # Joined
               PROVE  t[i] < t[j]
    BY <1>1 DEF Rising
  <2>1. i \in 1 .. Len(s)
    BY <1>1
  <2>2. CASE j = Len(s) + 1
    BY <1>1, <1>3, <2>1, <2>2
  <2>3. CASE j # Len(s) + 1
    <3>1. j \in 1 .. Len(s)
      BY <1>2, <2>3
    <3> QED
      BY <1>1, <2>1, <3>1 DEF Rising
  <2> QED
    BY <2>2, <2>3
<1>5. {t[i] : i \in 1 .. Len(t)} = {s[i] : i \in 1 .. Len(s)} \cup {n}
  BY <1>1, <1>2
<1> QED
  BY <1>4, <1>5 DEF EventsOf, t

LEMMA IntervalHead ==
    ASSUME NEW s, NEW e \in Nat, Interval(s, e), s # <<>>
    PROVE  /\ Head(s) \in 1 .. e /\ Interval(Tail(s), e)
           /\ IF Tail(s) = <<>> THEN Head(s) = e ELSE Head(Tail(s)) = Head(s) + 1
<1>1. s \in Seq(Nat) /\ Len(s) \in Nat \ {0} /\ Head(s) = s[1] /\ Len(s) <= e
  BY EmptySeq DEF Interval
<1>2. /\ Tail(s) \in Seq(Nat) /\ Len(Tail(s)) = Len(s) - 1
      /\ \A i \in 1 .. Len(s) - 1 : Tail(s)[i] = s[i + 1]
  BY <1>1, HeadTailProperties
<1>3. Head(s) = e - Len(s) + 1
  <2>1. 1 \in 1 .. Len(s)
    BY <1>1
  <2> QED
    BY <1>1, <2>1 DEF Interval
<1>4. ASSUME NEW i \in 1 .. Len(s) - 1 PROVE Tail(s)[i] = e - (Len(s) - 1) + i
  <2>1. i + 1 \in 1 .. Len(s)
    BY <1>1
  <2>2. s[i + 1] = e - Len(s) + (i + 1)
    BY <2>1 DEF Interval
  <2>3. e - Len(s) + (i + 1) = e - (Len(s) - 1) + i
    BY <1>1
  <2> QED
    BY <1>2, <2>2, <2>3
<1>5. Interval(Tail(s), e)
  BY <1>1, <1>2, <1>4 DEF Interval
<1>6. CASE Tail(s) = <<>>
  <2>1. Len(Tail(s)) = 0
    BY <1>6, EmptySeq
  <2> QED
    BY <1>1, <1>2, <1>3, <1>5, <1>6, <2>1
<1>7. CASE Tail(s) # <<>>
  <2>1. Len(Tail(s)) \in Nat \ {0} /\ Head(Tail(s)) = Tail(s)[1]
    BY <1>2, <1>7, EmptySeq
  <2>2. 1 \in 1 .. Len(s) - 1
    BY <1>1, <1>2, <2>1
  <2>3. Head(Tail(s)) = e - (Len(s) - 1) + 1
    BY <1>4, <2>1, <2>2
  <2> QED
    BY <1>1, <1>3, <1>5, <1>7, <2>3
<1> QED
  BY <1>6, <1>7

\* A batch that has just been read.
LEMMA BatchIsInterval ==
    ASSUME NEW last \in Nat, NEW k \in Nat \ {0}, NEW s, s = [i \in 1 .. k |-> last + i]
    PROVE  s # <<>> /\ Interval(s, last + k) /\ Head(s) = last + 1
<1>1. s \in [1 .. k -> Nat]
  OBVIOUS
<1>2. s \in Seq(Nat) /\ Len(s) = k /\ \A i \in 1 .. k : s[i] = last + i
  BY <1>1
<1>3. s # <<>> /\ Head(s) = s[1]
  BY <1>2, EmptySeq
<1>4. s[1] = last + 1
  BY <1>2
<1> QED
  BY <1>2, <1>3, <1>4 DEF Interval

\* What is first in an outbox.
LEMMA MessagesTail ==
    ASSUME NEW s \in Seq(Messages), s # <<>>
    PROVE  /\ Head(s) = s[1] /\ 1 \in 1 .. Len(s) /\ Len(Tail(s)) = Len(s) - 1
           /\ \A i \in 1 .. Len(Tail(s)) : i + 1 \in 1 .. Len(s) /\ Tail(s)[i] = s[i + 1]
<1>1. Len(s) \in Nat \ {0} /\ Len(Tail(s)) = Len(s) - 1
      /\ \A i \in 1 .. Len(Tail(s)) : Tail(s)[i] = s[i + 1]
  BY EmptySeq, HeadTailProperties
<1> QED
  BY <1>1

-----------------------------------------------------------------------------
\* Events in order

\* Messages that do not join leave a join where it is.
LEMMA JoinStaysFirst ==
    ASSUME NEW k \in Conns, outbox[k] \in Seq(Messages), JoinIsFirst(k),
           \/ Says(k) /\ (CanJoin(k) => CanJoin(k)')
           \/ outbox'[k] = <<>>
           \/ outbox[k] # <<>> /\ outbox'[k] = Tail(outbox[k])
    PROVE  JoinIsFirst(k)'
<1>1. Len(outbox[k]) \in Nat
  OBVIOUS
<1>2. CASE outbox'[k] = outbox[k] /\ (CanJoin(k) => CanJoin(k)')
  BY <1>2 DEF JoinIsFirst
<1>3. ASSUME NEW msg \in Messages, msg[1] # "join", outbox'[k] = Append(outbox[k], msg),
             CanJoin(k) => CanJoin(k)'
      PROVE  JoinIsFirst(k)'
  <2>1. /\ Len(outbox'[k]) = Len(outbox[k]) + 1 /\ outbox'[k][Len(outbox[k]) + 1] = msg
        /\ \A i \in 1 .. Len(outbox[k]) : outbox'[k][i] = outbox[k][i]
    BY <1>3, AppendProperties
  <2>2. ASSUME NEW i \in 1 .. Len(outbox'[k]), outbox'[k][i][1] = "join"
        PROVE  i = 1 /\ CanJoin(k)
    <3>1. i # Len(outbox[k]) + 1
      BY <1>3, <2>1, <2>2
    <3>2. i \in 1 .. Len(outbox[k])
      BY <1>1, <2>1, <3>1
    <3> QED
      BY <2>1, <2>2, <3>2 DEF JoinIsFirst
  <2> QED
    BY <1>3, <2>2 DEF JoinIsFirst
<1>4. CASE outbox'[k] = <<>>
  BY <1>4, EmptySeq DEF JoinIsFirst
<1>5. CASE outbox[k] # <<>> /\ outbox'[k] = Tail(outbox[k])
  <2>1. \A i \in 1 .. Len(outbox'[k]) : outbox'[k][i][1] # "join"
    <3> SUFFICES ASSUME NEW i \in 1 .. Len(outbox'[k]), outbox'[k][i][1] = "join" PROVE FALSE
      OBVIOUS
    <3>1. i + 1 \in 1 .. Len(outbox[k]) /\ outbox[k][i + 1][1] = "join" /\ i \in Nat /\ i >= 1
      BY <1>5, MessagesTail
    <3> QED
      BY <3>1 DEF JoinIsFirst
  <2> QED
    BY <2>1 DEF JoinIsFirst
<1> QED
  BY <1>2, <1>3, <1>4, <1>5 DEF Says

StreamGrows == stream' = stream \/ \E x \in Kinds : stream' = Append(stream, x)

LEMMA StreamStands ==
    ASSUME GroupInv, StreamGrows
    PROVE  /\ stream' \in Seq(Kinds) /\ Len(stream') >= Len(stream) /\ Len(stream') \in Nat
           /\ \A n \in 1 .. group.last : n \in 1 .. Len(stream) /\ stream'[n] = stream[n]
<1>1. stream \in Seq(Kinds) /\ Len(stream) \in Nat /\ group.last \in 0 .. Len(stream)
  BY DEF GroupInv
<1>2. ASSUME NEW x \in Kinds, stream' = Append(stream, x)
      PROVE  /\ stream' \in Seq(Kinds) /\ Len(stream') = Len(stream) + 1
             /\ \A n \in 1 .. Len(stream) : stream'[n] = stream[n]
  BY <1>1, <1>2, AppendProperties
<1> QED
  BY <1>1, <1>2 DEF StreamGrows

LEMMA GroupRests ==
    ASSUME GroupInv, UNCHANGED <<group, hand, targets>>, StreamGrows,
           UNCHANGED faults \/ Fault
    PROVE  GroupInv'
<1>1. faults' \in Nat
  BY DEF GroupInv, Fault
<1>2. \A g \in Gateways : BatchIsNext(g)'
  BY DEF GroupInv, BatchIsNext
<1>3. stream' \in Seq(Kinds) /\ group'.last \in 0 .. Len(stream')
  BY StreamStands DEF GroupInv
<1> QED
  BY <1>1, <1>2, <1>3 DEF GroupInv

\* What a step that leaves the batches alone may do to session k: take from
\* it, but no transcript unless it came first.
Takes(k) ==
    /\ Rising(gc[k].heard)' /\ Rising(wire[k])'
    /\ \A n \in EventsOf(gc'[k].heard) : \A m \in EventsOf(wire'[k]) : n < m
    /\ \A i \in 1 .. Len(gc'[k].heard) : gc'[k].heard[i] # Joined
    /\ Sent(k)' \subseteq Sent(k)
    /\ \A n \in Sent(k) \ Sent(k)' : stream[n] # "transcript" \/ (~AlwaysIn /\ \A m \in Sent(k)' : n < m)
    /\ gc'[k].ws = "new" => gc[k].ws = "new"
    /\ home'[k] \in {home[k], None} /\ inside'[k] \in {inside[k], None}
    /\ Says(k) \/ outbox'[k] = <<>> \/ (outbox[k] # <<>> /\ outbox'[k] = Tail(outbox[k]))

LEMMA SessionTakes ==
    ASSUME CallInv, OrderInv, NEW k \in Conns, Takes(k),
           UNCHANGED <<scene, group, hand, targets>>, StreamGrows
    PROVE  /\ SessionOrder(k)'
           /\ (\A n \in Missing(k) : Misses(k, n)) => \A n \in Missing(k)' : Misses(k, n)'
<1>1. SessionOrder(k) /\ GroupInv /\ outbox[k] \in Seq(Messages)
  BY DEF OrderInv, CallInv
<1>2. InNoBatch(k)' <=> InNoBatch(k)
  BY DEF InNoBatch
<1>3. AlwaysIn' <=> AlwaysIn
  BY DEF AlwaysIn
<1>4. JoinIsFirst(k)'
  <2>1. CanJoin(k) => CanJoin(k)'
    BY <1>2, <1>3 DEF CanJoin, Takes
  <2> QED
    BY <1>1, <2>1, JoinStaysFirst DEF SessionOrder, Takes
<1>5. \A g, n : Before(g, k, n)' <=> Before(g, k, n)
  BY DEF Before, Served
<1>6. \A n \in Sent(k)' : (n <= group.last /\ (home[k] # None => Before(home[k], k, n)))'
  <2>1. \A n \in Sent(k)' : n <= group.last /\ (home[k] # None => Before(home[k], k, n))
    BY <1>1 DEF SessionOrder, Takes
  <2> QED
    BY <1>5, <2>1 DEF Takes
<1>7. SessionOrder(k)'
  BY <1>1, <1>2, <1>4, <1>6 DEF SessionOrder, Takes
<1>8. ASSUME \A n \in Missing(k) : Misses(k, n), NEW n \in Missing(k)' PROVE Misses(k, n)'
  <2>1. n \in 1 .. group.last /\ stream[n] = "transcript" /\ n \notin Sent(k)'
    BY <1>1, StreamStands DEF Missing
  <2>2. CASE n \in Sent(k)
    <3>1. ~AlwaysIn /\ \A m \in Sent(k)' : n < m
      BY <2>1, <2>2 DEF Takes
    <3>2. ASSUME NEW m \in Sent(k)', m < n PROVE FALSE
      <4>1. n < m /\ m \in Nat /\ n \in Nat
        <5>1. m \in Nat
          BY <3>2, <1>1 DEF Takes, Sent, EventsOf, SessionOrder, Rising
        <5> QED
          BY <2>1, <3>1, <5>1, <1>1 DEF GroupInv
      <4> QED
        BY <3>2, <4>1
    <3> QED
      BY <1>3, <3>1, <3>2 DEF Misses
  <2>3. CASE n \notin Sent(k)
    <3>1. Misses(k, n)
      BY <1>8, <2>1, <2>3 DEF Missing
    <3>2. Due(k)' => Due(k) /\ home'[k] = home[k]
      <4>1. Meeting # None
        BY McpAssumption
      <4> QED
        BY <4>1 DEF Due, Takes
    <3> QED
      BY <1>3, <1>5, <3>1, <3>2 DEF Misses, Takes
  <2> QED
    BY <2>2, <2>3
<1> QED
  BY <1>7, <1>8

LEMMA AllTake ==
    ASSUME CallInv, OrderInv, \A k \in Conns : Takes(k),
           UNCHANGED <<scene, group, hand, targets>>, StreamGrows, UNCHANGED faults \/ Fault
    PROVE  OrderInv' /\ (SteadyInv => SteadyInv')
<1>1. GroupInv'
  BY GroupRests DEF OrderInv
<1>2. \A k \in Conns : SessionOrder(k)'
  BY SessionTakes
<1>3. ASSUME SteadyInv, Steady' PROVE SteadyInv'
  <2>1. Steady
    BY <1>3 DEF Steady
  <2>2. \A k \in Conns : \A n \in Missing(k)' : Misses(k, n)'
    BY <1>3, <2>1, SessionTakes DEF SteadyInv
  <2>3. \A g \in scene'.running : Interval(hand[g], group.last)'
    BY <1>3, <2>1 DEF SteadyInv
  <2> QED
    BY <2>2, <2>3 DEF SteadyInv
<1>4. SteadyInv => SteadyInv'
  BY <1>3 DEF SteadyInv
<1> QED
  BY <1>1, <1>2, <1>4 DEF OrderInv

LEMMA UntouchedTakes ==
    ASSUME OrderInv, NEW k \in Conns, wire'[k] = wire[k], gc'[k].heard = gc[k].heard,
           gc'[k].ws = "new" => gc[k].ws = "new",
           home'[k] \in {home[k], None}, inside'[k] \in {inside[k], None},
           Says(k) \/ outbox'[k] = <<>> \/ (outbox[k] # <<>> /\ outbox'[k] = Tail(outbox[k]))
    PROVE  Takes(k)
<1>1. Sent(k)' = Sent(k)
  BY DEF Sent
<1> QED
  BY <1>1 DEF OrderInv, SessionOrder, Takes

\* Steps of calls the gateway sees nothing of but messages.
LEMMA SaysInOrder ==
    ASSUME CallInv, OrderInv, UNCHANGED relayVars,
           \A k \in Conns : /\ gc'[k].heard = gc[k].heard /\ Says(k)
                            /\ gc'[k].ws = "new" => gc[k].ws = "new"
    PROVE  OrderInv' /\ (SteadyInv => SteadyInv')
<1>1. \A k \in Conns : Takes(k)
  BY UntouchedTakes DEF relayVars
<1> QED
  BY <1>1, AllTake DEF relayVars, StreamGrows

LEMMA CallsInOrder ==
    ASSUME CallInv, OrderInv, NEW c \in Calls,
           \/ Quiet(c)
           \/ ExchangeForGatewayToken(c) \/ kutana_leave_meeting(c) \/ CloseSocket(c) \/ StopListening(c)
    PROVE  OrderInv' /\ (SteadyInv => SteadyInv')
<1>1. CASE Quiet(c)
  BY <1>1, SaysInOrder DEF Quiet, Unseen
<1>2. CASE ExchangeForGatewayToken(c)
  BY <1>2, SaysInOrder DEF ExchangeForGatewayToken, Elsewhere, Says
<1>3. CASE kutana_leave_meeting(c)
  <2>1. UNCHANGED <<gc, relayVars>>
    BY <1>3 DEF kutana_leave_meeting, Elsewhere
  <2> QED
    BY <1>3, <2>1, LeaveChanges, SaysInOrder
<1>4. CASE CloseSocket(c) \/ StopListening(c)
  <2>1. UNCHANGED <<outbox, relayVars>>
    BY <1>4 DEF CloseSocket, StopListening, Elsewhere
  <2>2. \A k \in Conns : gc'[k].heard = gc[k].heard /\ (gc'[k].ws = "new" => gc[k].ws = "new")
    BY <1>4, CloseChanges, StopChanges
  <2> QED
    BY <2>1, <2>2, SaysInOrder DEF Says
<1> QED
  BY <1>1, <1>2, <1>3, <1>4

\* The first message of a socket.
LEMMA SocketOpensInOrder ==
    ASSUME CallInv, OrderInv, NEW c \in Calls, call[c].at = "connect", ConnectSucceeds(c),
           UNCHANGED <<scene, stream, group, hand, targets, inside, wire, faults>>,
           NEW k, k = call[c].conn
    PROVE  OrderInv' /\ (SteadyInv => SteadyInv')
<1>1. /\ k \in Conns /\ gc[k].ws = "new" /\ ClientIsNew(k)
      /\ gc'[k].ws = "up" /\ home'[k] \in scene.running /\ gc'[k].heard = gc[k].heard
      /\ outbox'[k] = << <<"join", call[c].mid>> >>
      /\ \A x \in Conns \ {k} : gc'[x] = gc[x] /\ home'[x] = home[x] /\ outbox'[x] = outbox[x]
  <2>1. UNCHANGED <<inside, wire>>
    OBVIOUS
  <2>2. /\ k \in Conns /\ gc[k].ws = "new" /\ ClientIsNew(k)
        /\ gc'[k].ws = "up" /\ home'[k] \in scene.running /\ gc'[k].heard = gc[k].heard
    BY <2>1, ConnectChanges
  <2>3. outbox'[k] = << <<"join", call[c].mid>> >>
    <3>1. SessionShape /\ outbox' = [outbox EXCEPT ![k] = << <<"join", call[c].mid>> >>]
      BY DEF CallInv, ConnectSucceeds
    <3> QED
      BY <2>2, <3>1 DEF SessionShape
  <2>4. \A x \in Conns \ {k} : gc'[x] = gc[x] /\ home'[x] = home[x] /\ outbox'[x] = outbox[x]
    BY <2>1, ConnectChanges
  <2> QED
    BY <2>2, <2>3, <2>4
<1>2. StreamGrows /\ GroupInv'
  BY GroupRests DEF OrderInv, StreamGrows
<1>3. ASSUME NEW x \in Conns \ {k}
      PROVE  /\ SessionOrder(x)'
             /\ (\A n \in Missing(x) : Misses(x, n)) => \A n \in Missing(x)' : Misses(x, n)'
  <2>1. Takes(x)
    BY <1>1, UntouchedTakes DEF Says
  <2> QED
    BY <1>2, <2>1, SessionTakes
<1>4. gc'[k].heard = <<>> /\ wire'[k] = <<>> /\ Sent(k)' = {} /\ inside'[k] = None
  <2>1. gc[k].heard = <<>> /\ wire[k] = <<>> /\ inside[k] = None
    BY <1>1 DEF ClientIsNew, CallInv
  <2> QED
    BY <1>1, <2>1, NothingSent DEF Sent
<1>5. InNoBatch(k)'
  <2>1. InNoBatch(k)
    BY <1>1 DEF OrderInv, SessionOrder
  <2> QED
    BY <2>1 DEF InNoBatch
<1>6. ~AlwaysIn'
  <2>1. call[c].tool \in scene.tools /\ call[c].tool \in Joiners
    BY DEF CallInv, CallIsPlaced, Opening
  <2> QED
    BY <2>1 DEF AlwaysIn, Joiners
<1>7. JoinIsFirst(k)'
  <2>1. Len(outbox'[k]) = 1 /\ 1 .. 1 = {1}
    BY <1>1
  <2>2. CanJoin(k)'
    BY <1>4, <1>5, <1>6 DEF CanJoin
  <2> QED
    BY <2>1, <2>2 DEF JoinIsFirst
<1>8. SessionOrder(k)'
  <2>1. EventsOf(<<>>) = {} /\ Rising(<<>>) /\ Len(<<>>) = 0 /\ 1 .. 0 = {}
    BY NothingSent, EmptySeq
  <2>2. Rising(gc[k].heard)' /\ Rising(wire[k])'
    BY <1>4, <2>1
  <2> QED
    BY <1>1, <1>4, <1>5, <1>7, <2>1, <2>2 DEF SessionOrder
<1>9. \A n \in Missing(k)' : Misses(k, n)'
  <2>1. ~Due(k)'
    <3>1. home'[k] \in Gateways /\ Meeting # None
      BY <1>1, CallStands, McpAssumption
    <3> QED
      BY <1>4, <1>5, <3>1 DEF Due, InNoBatch
  <2> QED
    BY <1>4, <2>1 DEF Misses
<1>10. OrderInv'
  BY <1>2, <1>3, <1>8 DEF OrderInv
<1>11. ASSUME SteadyInv, Steady' PROVE SteadyInv'
  <2>1. Steady
    BY <1>11 DEF Steady
  <2>2. \A x \in Conns : \A n \in Missing(x)' : Misses(x, n)'
    BY <1>3, <1>9, <1>11, <2>1 DEF SteadyInv
  <2>3. \A g \in scene'.running : Interval(hand[g], group.last)'
    BY <1>11, <2>1 DEF SteadyInv
  <2> QED
    BY <2>2, <2>3 DEF SteadyInv
<1> QED
  BY <1>10, <1>11 DEF SteadyInv

LEMMA ConnectInOrder ==
    ASSUME CallInv, OrderInv, NEW c \in Calls, Connect(c)
    PROVE  OrderInv' /\ (SteadyInv => SteadyInv')
<1>1. UNCHANGED <<scene, stream, group, hand, targets, inside, wants, wire, faults>> /\ call[c].at = "connect"
  BY DEF Connect
<1>2. CASE UNCHANGED <<gc, home, outbox>>
  BY <1>1, <1>2, SaysInOrder DEF Says, relayVars
<1>3. CASE ConnectSucceeds(c)
  BY <1>1, <1>3, SocketOpensInOrder
<1> QED
  BY <1>2, <1>3 DEF Connect, ConnectSucceeds

\* The listener and the gateway's sender.
LEMMA AwaitInOrder ==
    ASSUME CallInv, OrderInv, NEW c \in Calls, AwaitJoined(c)
    PROVE  OrderInv' /\ (SteadyInv => SteadyInv')
<1>1. PICK k : k = call[c].conn
  OBVIOUS
<1>2. /\ k \in Conns /\ gc[k].ws # "new" /\ gc[k].heard = <<>>
      /\ gc'[k].ws = gc[k].ws /\ gc'[k].heard = gc[k].heard
      /\ wire'[k] = wire[k] \/ (wire[k] # <<>> /\ wire'[k] = Tail(wire[k]))
      /\ \A x \in Conns \ {k} : gc'[x] = gc[x] /\ wire'[x] = wire[x]
  BY <1>1, AwaitChanges
<1>3. /\ UNCHANGED <<scene, stream, group, hand, targets, home, inside, outbox>>
      /\ UNCHANGED faults \/ Fault
  BY DEF AwaitJoined
<1>4. \A x \in Conns \ {k} : Takes(x)
  BY <1>2, <1>3, UntouchedTakes DEF Says
<1>5. ~AlwaysIn
  <2>1. call[c].tool \in scene.tools /\ call[c].tool \in Joiners
    BY DEF CallInv, CallIsPlaced, Opening, AwaitJoined
  <2> QED
    BY <2>1 DEF AwaitJoined, AlwaysIn, Joiners
<1>6. Takes(k)
  <2>1. CASE wire'[k] = wire[k]
    BY <1>2, <1>3, <2>1, UntouchedTakes DEF Says
  <2>2. CASE wire[k] # <<>> /\ wire'[k] = Tail(wire[k])
    <3>1. /\ Rising(wire[k]) /\ Rising(<<>>) /\ EventsOf(<<>>) = {}
          /\ \A i \in 1 .. Len(gc[k].heard) : gc[k].heard[i] # Joined
      BY <1>2, NothingSent DEF OrderInv, SessionOrder
    <3>2. /\ Rising(wire'[k]) /\ EventsOf(wire[k]) = EventsOf(wire'[k]) \cup ({Head(wire[k])} \ {Joined})
          /\ Head(wire[k]) # Joined => \A n \in EventsOf(wire'[k]) : Head(wire[k]) < n
      BY <2>2, <3>1, RisingTail
    <3>3. Sent(k) = EventsOf(wire[k]) /\ Sent(k)' = EventsOf(wire'[k])
      BY <1>2, <3>1 DEF Sent
    <3>4. \A n \in Sent(k) \ Sent(k)' : \A m \in Sent(k)' : n < m
      BY <3>2, <3>3
    <3>5. Rising(gc[k].heard)' /\ Rising(wire[k])' /\ EventsOf(gc'[k].heard) = {}
      BY <1>2, <3>1, <3>2
    <3>6. Sent(k)' \subseteq Sent(k)
      BY <3>2, <3>3
    <3> QED
      BY <1>2, <1>3, <1>5, <3>1, <3>4, <3>5, <3>6 DEF Takes, Says
  <2> QED
    BY <1>2, <2>1, <2>2
<1> QED
  BY <1>3, <1>4, <1>6, AllTake DEF StreamGrows

LEMMA ListenInOrder ==
    ASSUME CallInv, OrderInv, NEW k \in Conns, Listen(k)
    PROVE  OrderInv' /\ (SteadyInv => SteadyInv')
<1>1. PICK n : n = Head(wire[k])
  OBVIOUS
<1>2. /\ wire[k] # <<>> /\ wire'[k] = Tail(wire[k])
      /\ \A x \in Conns : gc'[x].ws = gc[x].ws
      /\ \A x \in Conns \ {k} : wire'[x] = wire[x] /\ gc'[x].heard = gc[x].heard
      /\ \/ n # Joined /\ gc'[k].heard = Append(gc[k].heard, n)
         \/ (n = Joined \/ stream[n] # "transcript") /\ gc'[k].heard = gc[k].heard
  BY <1>1, ListenChanges
<1>3. UNCHANGED <<scene, stream, group, hand, targets, home, inside, outbox, faults>>
  BY DEF Listen, sessionVars
<1>4. \A x \in Conns \ {k} : Takes(x)
  BY <1>2, <1>3, UntouchedTakes DEF Says
<1>5. /\ Rising(gc[k].heard) /\ Rising(wire[k])
      /\ \A m \in EventsOf(gc[k].heard) : \A x \in EventsOf(wire[k]) : m < x
      /\ \A i \in 1 .. Len(gc[k].heard) : gc[k].heard[i] # Joined
  BY DEF OrderInv, SessionOrder
<1>6. /\ Rising(wire'[k]) /\ n \in Nat
      /\ EventsOf(wire[k]) = EventsOf(wire'[k]) \cup ({n} \ {Joined})
      /\ n # Joined => \A m \in EventsOf(wire'[k]) : n < m
  BY <1>1, <1>2, <1>5, RisingTail
<1>7. Takes(k)
  <2>1. CASE n # Joined /\ gc'[k].heard = Append(gc[k].heard, n)
    <3>1. n \in EventsOf(wire[k])
      BY <1>6, <2>1
    <3>2. \A m \in EventsOf(gc[k].heard) : m < n
      BY <1>5, <3>1
    <3>3. /\ Rising(gc'[k].heard)
          /\ EventsOf(gc'[k].heard) = EventsOf(gc[k].heard) \cup {n}
      BY <1>5, <1>6, <2>1, <3>2, RisingAppend
    <3>4. \A m \in EventsOf(gc'[k].heard) : \A x \in EventsOf(wire'[k]) : m < x
      BY <1>5, <1>6, <2>1, <3>3
    <3>5. \A i \in 1 .. Len(gc'[k].heard) : gc'[k].heard[i] # Joined
      <4>1. /\ Len(gc'[k].heard) = Len(gc[k].heard) + 1 /\ Len(gc[k].heard) \in Nat
            /\ gc'[k].heard[Len(gc[k].heard) + 1] = n
            /\ \A i \in 1 .. Len(gc[k].heard) : gc'[k].heard[i] = gc[k].heard[i]
        BY <1>5, <1>6, <2>1, AppendProperties DEF Rising
      <4>2. ASSUME NEW i \in 1 .. Len(gc'[k].heard), i # Len(gc[k].heard) + 1 PROVE i \in 1 .. Len(gc[k].heard)
        BY <4>1, <4>2
      <4> QED
        BY <1>5, <2>1, <4>1, <4>2
    <3>6. Sent(k)' = Sent(k)
      BY <1>6, <2>1, <3>3 DEF Sent
    <3> QED
      BY <1>2, <1>3, <1>6, <3>3, <3>4, <3>5, <3>6 DEF Takes, Says
  <2>2. CASE (n = Joined \/ stream[n] # "transcript") /\ gc'[k].heard = gc[k].heard
    <3>1. Sent(k)' \subseteq Sent(k) /\ \A m \in Sent(k) \ Sent(k)' : m = n /\ n # Joined
      BY <1>6, <2>2 DEF Sent
    <3>2. \A m \in EventsOf(gc'[k].heard) : \A x \in EventsOf(wire'[k]) : m < x
      BY <1>5, <1>6, <2>2
    <3>3. Rising(gc[k].heard)' /\ Rising(wire[k])'
      BY <1>5, <1>6, <2>2
    <3> QED
      BY <1>2, <1>3, <1>5, <2>2, <3>1, <3>2, <3>3 DEF Takes, Says
  <2> QED
    BY <1>2, <2>1, <2>2
<1> QED
  BY <1>3, <1>4, <1>7, AllTake DEF StreamGrows

LEMMA SendJoinedInOrder ==
    ASSUME CallInv, OrderInv, NEW k \in Conns, SendJoined(k)
    PROVE  OrderInv' /\ (SteadyInv => SteadyInv')
<1>1. wire'[k] = Append(wire[k], Joined) /\ \A x \in Conns \ {k} : wire'[x] = wire[x]
  BY SendJoinedPlaces
<1>2. UNCHANGED <<gc, scene, stream, group, hand, targets, home, inside, outbox, faults>>
  BY DEF SendJoined, sessionVars
<1>3. \A x \in Conns \ {k} : Takes(x)
  BY <1>1, <1>2, UntouchedTakes DEF Says
<1>4. Takes(k)
  <2>1. SessionOrder(k) /\ Joined \in Nat
    BY DEF OrderInv, Joined
  <2>2. Rising(wire'[k]) /\ EventsOf(wire'[k]) = EventsOf(wire[k]) \cup ({Joined} \ {Joined})
    <3>1. Rising(wire[k])
      BY <2>1 DEF SessionOrder
    <3> QED
      BY <1>1, <2>1, <3>1, RisingAppend
  <2>3. EventsOf(wire'[k]) = EventsOf(wire[k])
    BY <2>2
  <2>4. Rising(gc[k].heard)' /\ Rising(wire[k])' /\ Sent(k)' = Sent(k)
    BY <1>2, <2>1, <2>2, <2>3 DEF SessionOrder, Sent
  <2> QED
    BY <1>2, <2>1, <2>3, <2>4 DEF SessionOrder, Takes, Says
<1> QED
  BY <1>2, <1>3, <1>4, AllTake DEF StreamGrows

\* A session ends with its socket, or with its process.
LEMMA EndsInOrder ==
    ASSUME CallInv, OrderInv, SomeEnd, NEW k \in Conns, SessionEnds(k)
    PROVE  OrderInv' /\ (SteadyInv => SteadyInv')
<1>1. UNCHANGED <<gc, scene, stream, group, hand, targets, wire>> /\ (UNCHANGED faults \/ Fault)
  BY DEF SessionEnds
<1>2. \A x \in Conns : \/ UNCHANGED <<home[x], inside[x], outbox[x]>>
                       \/ home'[x] = None /\ inside'[x] = None /\ outbox'[x] = <<>>
  BY DEF SomeEnd
<1>3. \A x \in Conns : Takes(x)
  BY <1>1, <1>2, UntouchedTakes DEF Says
<1> QED
  BY <1>1, <1>3, AllTake DEF StreamGrows

LEMMA GatewaysRun ==
    ASSUME CallInv
    PROVE  /\ scene.running \subseteq Gateways /\ IsFiniteSet(scene.running)
           /\ None \notin Gateways /\ None \notin Conns
           /\ \A k \in Conns : home[k] # None => home[k] \in scene.running
BY McpAssumption, RelayAssumption DEF CallInv

\* While a process can die there is nothing to show but the order.
LEMMA DiesInOrder ==
    ASSUME CallInv, OrderInv, SomeEnd, NEW g \in scene.running, ProcessDies(g)
    PROVE  OrderInv' /\ (SteadyInv => SteadyInv')
<1>1. /\ UNCHANGED <<gc, scene, stream, group, wire>> /\ Fault
      /\ hand' = [hand EXCEPT ![g] = <<>>] /\ targets' = [targets EXCEPT ![g] = None]
      /\ home' = [k \in Conns |-> IF home[k] = g THEN None ELSE home[k]]
      /\ inside' = [k \in Conns |-> IF home[k] = g THEN None ELSE inside[k]]
  BY DEF ProcessDies, GatewayDies, SomeEnd
<1>2. g \in Gateways /\ g # None
  BY GatewaysRun
<1>3. GroupInv /\ (\A h \in Gateways : BatchIsNext(h)) /\ group.last \in Nat
  BY DEF OrderInv, GroupInv
<1>4. /\ hand' = [h \in Gateways |-> hand'[h]] /\ targets' = [h \in Gateways |-> targets'[h]]
      /\ hand'[g] = <<>> /\ targets'[g] = None
      /\ \A h \in Gateways \ {g} : hand'[h] = hand[h] /\ targets'[h] = targets[h]
  BY <1>1, <1>2, <1>3 DEF GroupInv
<1>5. GroupInv'
  <2>1. Interval(<<>>, group.last) /\ group.last \in 0 .. group.last
    BY <1>3, NothingSent
  <2>2. BatchIsNext(g)'
    BY <1>1, <1>4, <2>1 DEF BatchIsNext
  <2>3. \A h \in Gateways \ {g} : BatchIsNext(h)'
    BY <1>1, <1>3, <1>4 DEF BatchIsNext
  <2>4. faults' \in Nat
    BY <1>1, <1>3 DEF GroupInv, Fault
  <2> QED
    BY <1>1, <1>3, <1>4, <2>2, <2>3, <2>4 DEF GroupInv
<1>6. ASSUME NEW k \in Conns PROVE SessionOrder(k)'
  <2>1. SessionOrder(k) /\ outbox[k] \in Seq(Messages)
    BY DEF OrderInv, CallInv
  <2>2. Sent(k)' = Sent(k) /\ (AlwaysIn' <=> AlwaysIn) /\ (InNoBatch(k) => InNoBatch(k)')
    BY <1>1, <1>2, <1>4 DEF Sent, AlwaysIn, InNoBatch
  <2>3. CanJoin(k) => CanJoin(k)'
    <3>1. inside'[k] \in {inside[k], None}
      BY <1>1
    <3> QED
      BY <2>2, <3>1 DEF CanJoin
  <2>4. JoinIsFirst(k)'
    <3>1. outbox'[k] = outbox[k] \/ outbox'[k] = <<>>
      BY <1>1 DEF SomeEnd
    <3> QED
      BY <2>1, <2>3, <3>1, JoinStaysFirst DEF SessionOrder, Says
  <2>5. \A n \in Sent(k) : home'[k] # None => Before(home[k], k, n)' /\ home'[k] = home[k]
    <3> SUFFICES ASSUME NEW n \in Sent(k), home'[k] # None PROVE Before(home[k], k, n)' /\ home'[k] = home[k]
      OBVIOUS
    <3>1. home[k] # g /\ home'[k] = home[k] /\ home[k] # None /\ Before(home[k], k, n)
      BY <1>1, <2>1 DEF SessionOrder
    <3>2. home[k] \in Gateways
      BY <3>1, GatewaysRun
    <3>3. hand'[home[k]] = hand[home[k]] /\ targets'[home[k]] = targets[home[k]]
      BY <1>4, <3>1, <3>2
    <3>4. ASSUME NEW h, h = home[k] PROVE Before(h, k, n)'
      <4>1. hand'[h] = hand[h] /\ targets'[h] = targets[h] /\ Before(h, k, n)
        BY <3>1, <3>3, <3>4
      <4> QED
        BY <1>1, <4>1 DEF Before, Served
    <3> QED
      BY <3>1, <3>4
  <2> QED
    BY <1>1, <2>1, <2>2, <2>4, <2>5 DEF SessionOrder
<1>7. ~Steady'
  <2>1. scene.faults # 0
    BY <1>1, <1>3 DEF GroupInv, Fault
  <2> QED
    BY <1>1, <2>1 DEF Steady
<1> QED
  BY <1>5, <1>6, <1>7 DEF OrderInv, SteadyInv

\* Messages are handled.
LEMMA MessageInOrder ==
    ASSUME CallInv, OrderInv, NEW k \in Conns, HandleMessage(k)
    PROVE  OrderInv' /\ (SteadyInv => SteadyInv')
<1>1. PICK msg : msg = Head(outbox[k])
  OBVIOUS
<1>2. UNCHANGED <<gc, scene, group, hand, targets, home, wire, faults>>
  BY DEF HandleMessage
<1>3. /\ gc[k].ws # "new" /\ outbox[k] # <<>> /\ outbox'[k] = Tail(outbox[k])
      /\ \A x \in Conns \ {k} : outbox'[x] = outbox[x] /\ inside'[x] = inside[x]
      /\ \/ msg[1] = "join" /\ msg[2] \in Meetings /\ inside'[k] = msg[2] /\ UNCHANGED stream
         \/ msg[1] # "join" /\ inside'[k] \in {inside[k], None} /\ UNCHANGED stream
         \/ /\ msg[1] # "join" /\ inside'[k] = inside[k]
            /\ \E ch \in Channels : stream' = Append(stream, ch)
  BY <1>1, MessageChanges
<1>4. StreamGrows
  <2>1. Channels \subseteq Kinds
    BY DEF Kinds
  <2> QED
    BY <1>3, <2>1 DEF StreamGrows
<1>5. \A x \in Conns \ {k} : Takes(x)
  BY <1>2, <1>3, UntouchedTakes DEF Says
<1>6. CASE inside'[k] \in {inside[k], None}
  <2>1. Takes(k)
    BY <1>2, <1>3, <1>6, UntouchedTakes
  <2> QED
    BY <1>2, <1>4, <1>5, <2>1, AllTake
<1>7. CASE msg[1] = "join"
  <2>1. SessionOrder(k) /\ GroupInv /\ outbox[k] \in Seq(Messages)
    BY DEF OrderInv, CallInv
  <2>2. CanJoin(k)
    <3>1. Head(outbox[k]) = outbox[k][1] /\ 1 \in 1 .. Len(outbox[k])
      BY <1>3, <2>1, MessagesTail
    <3> QED
      BY <1>1, <1>7, <2>1, <3>1 DEF SessionOrder, JoinIsFirst
  <2>3. \A i \in 1 .. Len(outbox'[k]) : outbox'[k][i][1] # "join"
    <3> SUFFICES ASSUME NEW i \in 1 .. Len(outbox'[k]), outbox'[k][i][1] = "join" PROVE FALSE
      OBVIOUS
    <3>1. i + 1 \in 1 .. Len(outbox[k]) /\ outbox[k][i + 1][1] = "join" /\ i \in Nat /\ i >= 1
      BY <1>3, <2>1, MessagesTail
    <3> QED
      BY <2>1, <3>1 DEF SessionOrder, JoinIsFirst
  <2>4. JoinIsFirst(k)'
    BY <2>3 DEF JoinIsFirst
  <2>5. Sent(k)' = {} /\ Sent(k) = {} /\ ~AlwaysIn'
    BY <1>2, <2>2 DEF CanJoin, Sent, AlwaysIn
  <2>6. InNoBatch(k)' <=> InNoBatch(k)
    BY <1>2 DEF InNoBatch
  <2>7. SessionOrder(k)'
    BY <1>2, <1>3, <2>1, <2>4, <2>5, <2>6 DEF SessionOrder
  <2>8. \A n \in Missing(k)' : Misses(k, n)'
    BY <2>5 DEF Misses
  <2>9. ASSUME NEW x \in Conns \ {k}
        PROVE  /\ SessionOrder(x)'
               /\ (\A n \in Missing(x) : Misses(x, n)) => \A n \in Missing(x)' : Misses(x, n)'
    BY <1>2, <1>4, <1>5, SessionTakes
  <2>10. OrderInv'
    <3>1. GroupInv'
      BY <1>2, <1>4, <2>1, GroupRests
    <3> QED
      BY <2>7, <2>9, <3>1 DEF OrderInv
  <2>11. ASSUME SteadyInv, Steady' PROVE SteadyInv'
    <3>1. Steady
      BY <1>2, <2>11 DEF Steady
    <3>2. \A x \in Conns : \A n \in Missing(x)' : Misses(x, n)'
      BY <2>8, <2>9, <2>11, <3>1 DEF SteadyInv
    <3>3. \A g \in scene'.running : Interval(hand[g], group.last)'
      BY <1>2, <2>11, <3>1 DEF SteadyInv
    <3> QED
      BY <3>2, <3>3 DEF SteadyInv
  <2> QED
    BY <2>10, <2>11 DEF SteadyInv
<1> QED
  BY <1>3, <1>6, <1>7

LEMMA PublishInOrder ==
    ASSUME CallInv, OrderInv, Publishes
    PROVE  OrderInv' /\ (SteadyInv => SteadyInv')
<1>1. UNCHANGED <<gc, outbox, scene, group, hand, targets, home, inside, wire, faults>>
  BY DEF Publishes, Publish, mcpVars, sessionVars
<1>2. StreamGrows
  BY DEF Publishes, Publish, StreamGrows
<1>3. \A x \in Conns : Takes(x)
  BY <1>1, UntouchedTakes DEF Says
<1> QED
  BY <1>1, <1>2, <1>3, AllTake

LEMMA RestInOrder ==
    ASSUME CallInv, OrderInv, TimePasses \/ UNCHANGED serverVars
    PROVE  OrderInv' /\ (SteadyInv => SteadyInv')
<1>1. UNCHANGED <<gc, outbox, relayVars>>
  BY DEF TimePasses, serverVars, mcpVars
<1> QED
  BY <1>1, SaysInOrder DEF Says

\* Steps of a gateway.
LEMMA SentIsKnown ==
    ASSUME OrderInv, NEW k \in Conns
    PROVE  Sent(k) \subseteq Nat /\ group.last \in Nat /\ \A n \in Sent(k) : n <= group.last
<1>1. Rising(gc[k].heard) /\ Rising(wire[k])
  BY DEF OrderInv, SessionOrder
<1>2. Sent(k) \subseteq Nat
  BY <1>1 DEF Rising, Sent, EventsOf
<1> QED
  BY <1>2 DEF OrderInv, SessionOrder, GroupInv

LEMMA SessionStays ==
    ASSUME OrderInv, NEW k \in Conns, UNCHANGED <<gc, outbox, scene, home, inside>>, wire'[k] = wire[k],
           group'.last \in Nat, group'.last >= group.last,
           InNoBatch(k) /\ (inside[k] = None \/ gc[k].ws = "new") => InNoBatch(k)',
           home[k] # None => \A n \in Sent(k) : Before(home[k], k, n) => Before(home[k], k, n)'
    PROVE  SessionOrder(k)' /\ Sent(k)' = Sent(k)
<1>1. SessionOrder(k)
  BY DEF OrderInv
<1>2. Sent(k)' = Sent(k) /\ (AlwaysIn' <=> AlwaysIn)
  BY DEF Sent, AlwaysIn
<1>3. CanJoin(k) => CanJoin(k)'
  BY <1>2 DEF CanJoin
<1>4. JoinIsFirst(k)'
  BY <1>1, <1>3 DEF SessionOrder, JoinIsFirst
<1>5. \A n \in Sent(k)' : (n <= group.last /\ (home[k] # None => Before(home[k], k, n)))'
  <2> SUFFICES ASSUME NEW n \in Sent(k) PROVE (n <= group.last /\ (home[k] # None => Before(home[k], k, n)))'
    BY <1>2
  <2>1. n \in Nat /\ n <= group.last /\ group.last \in Nat
    BY SentIsKnown
  <2>2. n <= group'.last
    BY <2>1
  <2> QED
    BY <1>1, <2>2 DEF SessionOrder
<1> QED
  BY <1>1, <1>2, <1>4, <1>5 DEF SessionOrder

LEMMA OneGateway ==
    ASSUME CallInv, Steady, NEW g \in scene.running
    PROVE  /\ scene.running = {g} /\ scene.faults = 0
           /\ \A k \in Conns : home[k] # None => home[k] = g
<1>1. scene.running = {g}
  <2>1. IsFiniteSet(scene.running) /\ Cardinality(scene.running) = 1
    BY GatewaysRun DEF Steady
  <2>2. PICK x : scene.running = {x}
    BY <2>1, FS_Singleton
  <2> QED
    BY <2>2
<1> QED
  BY <1>1, GatewaysRun DEF Steady

LEMMA NoFault ==
    ASSUME OrderInv, scene.faults = 0
    PROVE  ~Fault
BY DEF OrderInv, GroupInv, Fault

LEMMA ReadChanges ==
    ASSUME GroupInv, NEW g \in Gateways, ReadEvents(g)
    PROVE  \E k \in Nat \ {0} :
               /\ hand[g] = <<>> /\ group.last + k <= Len(stream)
               /\ group' = [last |-> group'.last, pending |-> group'.pending]
               /\ group'.last = group.last + k
               /\ hand' = [h \in Gateways |-> hand'[h]]
               /\ \A h \in Gateways \ {g} : hand'[h] = hand[h]
               /\ \/ hand'[g] = [i \in 1 .. k |-> group.last + i] /\ UNCHANGED faults
                  \/ hand'[g] = <<>> /\ Fault
<1>1. PICK k \in Batches(GroupOf(g), Len(stream), Batch) :
          \/ Store(g, ReadGroup(GroupOf(g), k)) /\ UNCHANGED faults
          \/ Store(g, Dropped(ReadGroup(GroupOf(g), k))) /\ Fault
  BY DEF ReadEvents
<1>2. k \in Nat \ {0} /\ hand[g] = <<>> /\ group.last + k <= Len(stream)
  BY <1>1, RelayAssumption DEF Batches, GroupOf
<1>3. CASE Store(g, ReadGroup(GroupOf(g), k)) /\ UNCHANGED faults
  <2>1. /\ group' = [last |-> group.last + k, pending |-> group'.pending]
        /\ hand' = [hand EXCEPT ![g] = [i \in 1 .. k |-> group.last + i]]
    BY <1>3 DEF Store, ReadGroup, GroupOf
  <2>2. /\ group' = [last |-> group'.last, pending |-> group'.pending]
        /\ group'.last = group.last + k
    BY <2>1
  <2>3. PICK batch : batch = [i \in 1 .. k |-> group.last + i]
    OBVIOUS
  <2>4. hand = [h \in Gateways |-> hand[h]] /\ hand' = [hand EXCEPT ![g] = batch]
    BY <2>1, <2>3 DEF GroupInv
  <2>5. /\ hand' = [h \in Gateways |-> hand'[h]] /\ hand'[g] = batch
        /\ \A h \in Gateways \ {g} : hand'[h] = hand[h]
    BY <2>4
  <2> QED
    BY <1>2, <1>3, <2>2, <2>3, <2>5
<1>4. CASE Store(g, Dropped(ReadGroup(GroupOf(g), k))) /\ Fault
  <2>1. /\ group' = [last |-> group.last + k, pending |-> group'.pending]
        /\ hand' = [hand EXCEPT ![g] = <<>>]
    BY <1>4 DEF Store, ReadGroup, Dropped, GroupOf
  <2> QED
    BY <1>2, <1>4, <2>1 DEF GroupInv
<1> QED
  BY <1>1, <1>3, <1>4

LEMMA ReadInOrder ==
    ASSUME CallInv, OrderInv, NEW g \in scene.running, RelayMoves(g), ReadEvents(g)
    PROVE  OrderInv' /\ (SteadyInv => SteadyInv')
<1>1. UNCHANGED <<gc, outbox, scene, stream, targets, home, inside, wire>>
  BY DEF RelayMoves, ReadEvents, mcpVars, sessionVars
<1>2. GroupInv /\ group.last \in Nat /\ g \in Gateways /\ scene.running \subseteq Gateways
  BY GatewaysRun DEF OrderInv, GroupInv
<1>3. PICK k \in Nat \ {0} :
          /\ hand[g] = <<>> /\ group.last + k <= Len(stream)
          /\ group' = [last |-> group'.last, pending |-> group'.pending]
          /\ group'.last = group.last + k
          /\ hand' = [h \in Gateways |-> hand'[h]]
          /\ \A h \in Gateways \ {g} : hand'[h] = hand[h]
          /\ \/ hand'[g] = [i \in 1 .. k |-> group.last + i] /\ UNCHANGED faults
             \/ hand'[g] = <<>> /\ Fault
  BY <1>2, ReadChanges
<1>4. targets[g] = None
  BY <1>2, <1>3 DEF GroupInv, BatchIsNext
<1>5. hand'[g] # <<>> => Interval(hand'[g], group'.last) /\ Head(hand'[g]) = group.last + 1
  BY <1>2, <1>3, BatchIsInterval
<1>6. GroupInv'
  <2>1. BatchIsNext(g)'
    <3>1. Interval(hand'[g], group'.last)
      BY <1>2, <1>3, <1>5, NothingSent
    <3>2. group'.last \in 0 .. group'.last
      BY <1>2, <1>3
    <3> QED
      BY <1>1, <1>4, <3>1, <3>2 DEF BatchIsNext
  <2>2. \A h \in Gateways \ {g} : BatchIsNext(h)'
    <3> SUFFICES ASSUME NEW h \in Gateways \ {g} PROVE BatchIsNext(h)'
      OBVIOUS
    <3>1. BatchIsNext(h) /\ hand'[h] = hand[h]
      BY <1>2, <1>3 DEF GroupInv
    <3>2. 0 .. group.last \subseteq 0 .. group'.last
      BY <1>2, <1>3
    <3> QED
      BY <1>1, <3>1, <3>2 DEF BatchIsNext
  <2>3. faults' \in Nat
    BY <1>2, <1>3 DEF GroupInv, Fault
  <2>4. group'.last \in 0 .. Len(stream)
    BY <1>2, <1>3 DEF GroupInv
  <2> QED
    BY <1>1, <1>2, <1>3, <2>1, <2>2, <2>3, <2>4 DEF GroupInv
<1>7. ASSUME NEW x \in Conns PROVE SessionOrder(x)' /\ Sent(x)' = Sent(x)
  <2>1. InNoBatch(x)' <=> InNoBatch(x)
    BY <1>1 DEF InNoBatch
  <2>2. ASSUME home[x] # None, NEW n \in Sent(x), Before(home[x], x, n) PROVE Before(home[x], x, n)'
    <3>1. n \in Nat /\ n <= group.last /\ home[x] \in Gateways
      BY <2>2, <1>2, SentIsKnown, GatewaysRun
    <3>2. n <= group'.last /\ n < group.last + 1
      BY <1>2, <1>3, <3>1
    <3>3. ASSUME NEW h, h = home[x] PROVE Before(h, x, n)'
      <4>1. CASE h = g
        BY <1>3, <1>5, <3>2, <4>1 DEF Before
      <4>2. CASE h # g
        <5>1. hand'[h] = hand[h] /\ Before(h, x, n)
          BY <1>3, <2>2, <3>1, <3>3, <4>2
        <5> QED
          BY <1>1, <3>2, <5>1 DEF Before, Served
      <4> QED
        BY <4>1, <4>2
    <3> QED
      BY <1>1, <3>3
  <2>3. group'.last \in Nat /\ group'.last >= group.last
    BY <1>2, <1>3
  <2> QED
    BY <1>1, <2>1, <2>2, <2>3, SessionStays
<1>8. ASSUME SteadyInv, Steady' PROVE SteadyInv'
  <2>1. /\ Steady /\ scene.running = {g} /\ scene.faults = 0
        /\ \A x \in Conns : home[x] # None => home[x] = g
    <3>1. Steady
      BY <1>1, <1>8 DEF Steady
    <3> QED
      BY <3>1, OneGateway
  <2>2. hand'[g] = [i \in 1 .. k |-> group.last + i]
    BY <1>3, <2>1, NoFault
  <2>3. hand'[g] # <<>> /\ Head(hand'[g]) = group.last + 1 /\ Interval(hand'[g], group'.last)
    BY <1>2, <1>3, <2>2, BatchIsInterval
  <2>4. ASSUME NEW x \in Conns, NEW n \in Missing(x)' PROVE Misses(x, n)'
    <3>1. Sent(x)' = Sent(x) /\ (AlwaysIn' <=> AlwaysIn) /\ (Due(x)' <=> Due(x))
      BY <1>1, <1>7 DEF AlwaysIn, Due
    <3>2. n \in 1 .. group'.last /\ n \in Nat /\ n >= 1 /\ n <= group'.last
      <4>1. n \in 1 .. group'.last
        BY <2>4 DEF Missing
      <4> QED
        BY <4>1, <1>2, <1>3
    <3>3. CASE n <= group.last
      <4>1. n \in Missing(x)
        <5>1. n \in 1 .. group.last
          BY <1>2, <3>2, <3>3
        <5> QED
          BY <1>1, <2>4, <3>1, <5>1 DEF Missing
      <4>2. Misses(x, n)
        BY <1>8, <2>1, <4>1 DEF SteadyInv
      <4>3. Before(g, x, n)
        BY <1>3, <3>3 DEF Before
      <4>4. Due(x) => home[x] = g
        BY <2>1 DEF Due
      <4>5. ~(Due(x) /\ (AlwaysIn \/ \E m \in Sent(x) : m < n))
        BY <4>2, <4>3, <4>4 DEF Misses
      <4> QED
        BY <3>1, <4>2, <4>5 DEF Misses
    <3>4. CASE n > group.last
      <4>1. \A m \in Sent(x) : m < n
        BY <3>2, <3>4, SentIsKnown
      <4>2. ~Before(g, x, n)'
        <5>1. ~(n < group.last + 1)
          BY <1>2, <3>2, <3>4
        <5> QED
          BY <1>1, <1>4, <2>3, <5>1 DEF Before, Served
      <4>3. Due(x) => home'[x] = g
        BY <1>1, <2>1 DEF Due
      <4> QED
        BY <3>1, <4>1, <4>2, <4>3 DEF Misses
    <3> QED
      BY <1>2, <3>2, <3>3, <3>4
  <2> QED
    BY <1>1, <2>1, <2>3, <2>4 DEF SteadyInv
<1> QED
  BY <1>6, <1>7, <1>8 DEF OrderInv, SteadyInv

LEMMA RouteInOrder ==
    ASSUME CallInv, OrderInv, NEW g \in scene.running, RelayMoves(g), Route(g)
    PROVE  OrderInv' /\ (SteadyInv => SteadyInv')
<1>1. /\ UNCHANGED <<gc, outbox, scene, stream, group, hand, home, inside, wire, faults>>
      /\ hand[g] # <<>> /\ targets[g] = None
      /\ targets' = [targets EXCEPT ![g] =
             IF stream[Head(hand[g])] = "broken" THEN {} ELSE {k \in Conns : inside[k] = Meeting /\ home[k] = g}]
  BY DEF RelayMoves, Route, mcpVars, sessionVars, Busy, GroupOf, EntryAt, Current
<1>2. GroupInv /\ group.last \in Nat /\ g \in Gateways /\ None \notin Conns /\ None # g
  BY GatewaysRun DEF OrderInv, GroupInv
<1>3. /\ targets' = [h \in Gateways |-> targets'[h]]
      /\ \A h \in Gateways \ {g} : targets'[h] = targets[h]
      /\ targets'[g] = IF stream[Head(hand[g])] = "broken" THEN {}
                       ELSE {k \in Conns : inside[k] = Meeting /\ home[k] = g}
  BY <1>1, <1>2 DEF GroupInv
<1>4. targets'[g] \subseteq Conns /\ \A x \in targets'[g] : inside[x] = Meeting /\ home[x] = g
  BY <1>3
<1>5. GroupInv'
  <2>1. BatchIsNext(g)'
    BY <1>1, <1>2, <1>4 DEF GroupInv, BatchIsNext
  <2>2. \A h \in Gateways \ {g} : BatchIsNext(h)'
    BY <1>1, <1>2, <1>3 DEF GroupInv, BatchIsNext
  <2> QED
    BY <1>1, <1>2, <1>3, <2>1, <2>2 DEF GroupInv
<1>6. ASSUME NEW x \in Conns PROVE SessionOrder(x)' /\ Sent(x)' = Sent(x)
  <2>1. InNoBatch(x) /\ (inside[x] = None \/ gc[x].ws = "new") => InNoBatch(x)'
    <3> SUFFICES ASSUME InNoBatch(x), inside[x] = None \/ gc[x].ws = "new" PROVE InNoBatch(x)'
      OBVIOUS
    <3>1. home[x] # g \/ inside[x] # Meeting
      <4>1. gc[x].ws = "new" => home[x] = None
        BY DEF CallInv, ClientIsNew
      <4> QED
        BY <1>2, <4>1, McpAssumption
    <3>2. x \notin targets'[g]
      BY <1>4, <3>1
    <3> QED
      BY <1>3, <3>2 DEF InNoBatch
  <2>2. ASSUME home[x] # None, NEW n \in Sent(x), Before(home[x], x, n) PROVE Before(home[x], x, n)'
    <3>1. home[x] \in Gateways
      BY <2>2, GatewaysRun
    <3>2. ASSUME NEW h, h = home[x] PROVE Before(h, x, n)'
      <4>1. CASE h = g
        <5>1. Before(g, x, n) /\ ~Served(g, x)
          BY <1>1, <2>2, <3>2, <4>1 DEF Served
        <5> QED
          BY <1>1, <4>1, <5>1 DEF Before
      <4>2. CASE h # g
        <5>1. targets'[h] = targets[h] /\ Before(h, x, n)
          BY <1>3, <2>2, <3>1, <3>2, <4>2
        <5> QED
          BY <1>1, <5>1 DEF Before, Served
      <4> QED
        BY <4>1, <4>2
    <3> QED
      BY <1>1, <3>2
  <2>3. group'.last \in Nat /\ group'.last >= group.last
    BY <1>1, <1>2
  <2> QED
    BY <1>1, <2>1, <2>2, <2>3, SessionStays
<1>7. ASSUME SteadyInv, Steady' PROVE SteadyInv'
  <2>1. Steady /\ scene.running = {g} /\ \A x \in Conns : home[x] # None => home[x] = g
    <3>1. Steady
      BY <1>1, <1>7 DEF Steady
    <3> QED
      BY <3>1, OneGateway
  <2>2. ASSUME NEW x \in Conns, NEW n \in Missing(x)' PROVE Misses(x, n)'
    <3>1. Sent(x)' = Sent(x) /\ (AlwaysIn' <=> AlwaysIn)
      BY <1>1, <1>6 DEF AlwaysIn
    <3>2. n \in Missing(x) /\ stream[n] = "transcript" /\ n <= group.last
      <4>1. n \in Missing(x) /\ stream[n] = "transcript" /\ n \in 1 .. group.last
        BY <1>1, <2>2, <3>1 DEF Missing
      <4> QED
        BY <1>2, <4>1
    <3>3. Misses(x, n)
      BY <1>7, <2>1, <3>2 DEF SteadyInv
    <3>4. ASSUME Due(x)', AlwaysIn \/ \E m \in Sent(x) : m < n PROVE ~Before(home[x], x, n)'
      <4>1. home[x] = g /\ inside[x] = Meeting
        BY <1>1, <1>3, <1>4, <2>1, <3>4 DEF Due
      <4>2. ~Before(g, x, n)
        BY <1>2, <3>3, <3>4, <4>1 DEF Due, Misses
      <4>3. ~(n < Head(hand[g]))
        BY <1>1, <3>2, <4>2 DEF Before
      <4>4. n = Head(hand[g]) => x \in targets'[g]
        BY <1>3, <3>2, <4>1
      <4>5. ~Before(g, x, n)'
        BY <1>1, <4>3, <4>4 DEF Before, Served
      <4> QED
        BY <1>1, <4>1, <4>5
    <3> QED
      BY <3>1, <3>3, <3>4 DEF Misses
  <2>3. \A h \in scene'.running : Interval(hand[h], group.last)'
    BY <1>1, <1>7, <2>1 DEF SteadyInv
  <2> QED
    BY <2>2, <2>3 DEF SteadyInv
<1> QED
  BY <1>5, <1>6, <1>7 DEF OrderInv, SteadyInv

LEMMA AcknowledgeChanges ==
    ASSUME GroupInv, NEW g \in Gateways, Acknowledge(g)
    PROVE  /\ hand[g] # <<>> /\ targets[g] = {} /\ targets[g] # None
           /\ group' = [last |-> group'.last, pending |-> group'.pending] /\ group'.last = group.last
           /\ hand' = [h \in Gateways |-> hand'[h]] /\ hand'[g] = Tail(hand[g])
           /\ targets' = [h \in Gateways |-> targets'[h]] /\ targets'[g] = None
           /\ \A h \in Gateways \ {g} : hand'[h] = hand[h] /\ targets'[h] = targets[h]
           /\ UNCHANGED faults \/ Fault
<1>1. targets[g] = {} /\ targets' = [targets EXCEPT ![g] = None]
  BY DEF Acknowledge
<1>2. targets[g] # None
  BY <1>1, RelayAssumption DEF Acknowledge
<1>3. /\ group' = [last |-> group.last, pending |-> group'.pending]
      /\ hand' = [hand EXCEPT ![g] = Tail(hand[g])]
      /\ UNCHANGED faults \/ Fault
  BY DEF Acknowledge, Store, Acked, Skipped, GroupOf
<1>4. hand[g] # <<>>
  BY <1>2 DEF GroupInv, BatchIsNext
<1>5. hand = [h \in Gateways |-> hand[h]] /\ targets = [h \in Gateways |-> targets[h]]
  BY DEF GroupInv
<1>6. group' = [last |-> group'.last, pending |-> group'.pending] /\ group'.last = group.last
  BY <1>3
<1> QED
  BY <1>1, <1>2, <1>3, <1>4, <1>5, <1>6

LEMMA AcknowledgeInOrder ==
    ASSUME CallInv, OrderInv, NEW g \in scene.running, RelayMoves(g), Acknowledge(g)
    PROVE  OrderInv' /\ (SteadyInv => SteadyInv')
<1>1. UNCHANGED <<gc, outbox, scene, stream, home, inside, wire>>
  BY DEF RelayMoves, Acknowledge, mcpVars, sessionVars
<1>2. GroupInv /\ group.last \in Nat /\ g \in Gateways
  BY GatewaysRun DEF OrderInv, GroupInv
<1>3. /\ hand[g] # <<>> /\ targets[g] = {} /\ targets[g] # None
      /\ group' = [last |-> group'.last, pending |-> group'.pending] /\ group'.last = group.last
      /\ hand' = [h \in Gateways |-> hand'[h]] /\ hand'[g] = Tail(hand[g])
      /\ targets' = [h \in Gateways |-> targets'[h]] /\ targets'[g] = None
      /\ \A h \in Gateways \ {g} : hand'[h] = hand[h] /\ targets'[h] = targets[h]
      /\ UNCHANGED faults \/ Fault
  BY <1>2, AcknowledgeChanges
<1>4. PICK e \in 0 .. group.last : Interval(hand[g], e)
  BY <1>2 DEF GroupInv, BatchIsNext
<1>5. /\ e \in Nat /\ e <= group.last /\ Head(hand[g]) \in 1 .. e /\ Interval(Tail(hand[g]), e)
      /\ IF Tail(hand[g]) = <<>> THEN Head(hand[g]) = e ELSE Head(Tail(hand[g])) = Head(hand[g]) + 1
  <2>1. e \in Nat /\ e <= group.last
    BY <1>2
  <2> QED
    BY <1>3, <1>4, <2>1, IntervalHead
<1>6. GroupInv'
  <2>1. BatchIsNext(g)'
    <3>1. e \in 0 .. group'.last /\ Interval(hand'[g], e)
      BY <1>3, <1>5
    <3> QED
      BY <1>3, <3>1 DEF BatchIsNext
  <2>2. \A h \in Gateways \ {g} : BatchIsNext(h)'
    BY <1>2, <1>3 DEF GroupInv, BatchIsNext
  <2>3. faults' \in Nat
    BY <1>2, <1>3 DEF GroupInv, Fault
  <2> QED
    BY <1>1, <1>2, <1>3, <2>1, <2>2, <2>3 DEF GroupInv
<1>7. ASSUME NEW x \in Conns PROVE SessionOrder(x)' /\ Sent(x)' = Sent(x)
  <2>1. InNoBatch(x) => InNoBatch(x)'
    BY <1>3 DEF InNoBatch
  <2>2. ASSUME home[x] # None, NEW n \in Sent(x), Before(home[x], x, n) PROVE Before(home[x], x, n)'
    <3>1. n \in Nat /\ home[x] \in Gateways
      BY <2>2, SentIsKnown, GatewaysRun
    <3>2. ASSUME NEW h, h = home[x] PROVE Before(h, x, n)'
      <4>1. CASE h = g
        <5>1. n <= Head(hand[g]) /\ n <= group.last
          BY <1>3, <1>5, <2>2, <3>1, <3>2, <4>1 DEF Before
        <5>2. hand'[g] # <<>> => n < Head(hand'[g])
          BY <1>3, <1>5, <3>1, <5>1
        <5> QED
          BY <1>3, <4>1, <5>1, <5>2 DEF Before
      <4>2. CASE h # g
        <5>1. hand'[h] = hand[h] /\ targets'[h] = targets[h] /\ Before(h, x, n)
          BY <1>3, <2>2, <3>1, <3>2, <4>2
        <5> QED
          BY <1>3, <5>1 DEF Before, Served
      <4> QED
        BY <4>1, <4>2
    <3> QED
      BY <1>1, <3>2
  <2>3. group'.last \in Nat /\ group'.last >= group.last
    BY <1>2, <1>3
  <2> QED
    BY <1>1, <2>1, <2>2, <2>3, SessionStays
<1>8. ASSUME SteadyInv, Steady' PROVE SteadyInv'
  <2>1. Steady /\ scene.running = {g} /\ \A x \in Conns : home[x] # None => home[x] = g
    <3>1. Steady
      BY <1>1, <1>8 DEF Steady
    <3> QED
      BY <3>1, OneGateway
  <2>2. /\ Interval(Tail(hand[g]), group.last) /\ Head(hand[g]) \in Nat
        /\ IF Tail(hand[g]) = <<>> THEN Head(hand[g]) = group.last
           ELSE Head(Tail(hand[g])) = Head(hand[g]) + 1
    <3>1. Interval(hand[g], group.last)
      BY <1>8, <2>1 DEF SteadyInv
    <3>2. /\ Interval(Tail(hand[g]), group.last) /\ Head(hand[g]) \in 1 .. group.last
          /\ IF Tail(hand[g]) = <<>> THEN Head(hand[g]) = group.last
             ELSE Head(Tail(hand[g])) = Head(hand[g]) + 1
      BY <1>2, <1>3, <3>1, IntervalHead
    <3> QED
      BY <1>2, <3>2
  <2>3. ASSUME NEW x \in Conns, NEW n \in Missing(x)' PROVE Misses(x, n)'
    <3>1. Sent(x)' = Sent(x) /\ (AlwaysIn' <=> AlwaysIn)
      BY <1>1, <1>7 DEF AlwaysIn
    <3>2. n \in Missing(x) /\ n <= group.last /\ n \in Nat
      <4>1. n \in Missing(x) /\ n \in 1 .. group.last
        BY <1>1, <1>3, <2>3, <3>1 DEF Missing
      <4> QED
        BY <1>2, <4>1
    <3>3. Misses(x, n)
      BY <1>8, <2>1, <3>2 DEF SteadyInv
    <3>4. ASSUME Due(x)', AlwaysIn \/ \E m \in Sent(x) : m < n PROVE ~Before(home[x], x, n)'
      <4>1. home[x] = g
        BY <1>1, <2>1, <3>4 DEF Due
      <4>2. Due(x)
        BY <1>1, <1>3, <3>4, <4>1 DEF Due
      <4>3. ~Before(g, x, n)
        BY <3>3, <3>4, <4>1, <4>2 DEF Misses
      <4>4. ~(n < Head(hand[g])) /\ n # Head(hand[g])
        BY <1>3, <3>2, <4>3 DEF Before, Served
      <4>5. Tail(hand[g]) # <<>> /\ ~(n < Head(Tail(hand[g])))
        BY <1>2, <2>2, <3>2, <4>4
      <4>6. ~Before(g, x, n)'
        BY <1>3, <4>5 DEF Before, Served
      <4> QED
        BY <1>1, <4>1, <4>6
    <3> QED
      BY <3>1, <3>3, <3>4 DEF Misses
  <2>4. \A h \in scene'.running : Interval(hand[h], group.last)'
    BY <1>1, <1>3, <2>1, <2>2
  <2> QED
    BY <2>3, <2>4 DEF SteadyInv
<1> QED
  BY <1>6, <1>7, <1>8 DEF OrderInv, SteadyInv

\* The entry n goes to session k, if k is still gateway g's and wants it.
LEMMA SendToChanges ==
    ASSUME CallInv, OrderInv, NEW g \in Gateways, NEW k \in Conns, SendTo(g, k),
           NEW n, n = Head(hand[g])
    PROVE  /\ hand[g] # <<>> /\ n \in 1 .. group.last /\ n \in Nat \ {0} /\ targets[g] # None /\ k \in targets[g]
           /\ targets' = [h \in Gateways |-> targets'[h]] /\ targets'[g] = targets[g] \ {k}
           /\ \A h \in Gateways \ {g} : targets'[h] = targets[h]
           /\ \A x \in Conns \ {k} : wire'[x] = wire[x]
           /\ \/ home[k] = g /\ wire'[k] = Append(wire[k], n)
              \/ wire'[k] = wire[k] /\ (home[k] = g => stream[n] # "transcript")
<1>1. GroupInv /\ BatchIsNext(g) /\ group.last \in Nat
  BY DEF OrderInv, GroupInv
<1>2. targets[g] # None /\ k \in targets[g] /\ targets' = [targets EXCEPT ![g] = targets[g] \ {k}]
  BY DEF SendTo
<1>3. hand[g] # <<>>
  BY <1>1, <1>2 DEF BatchIsNext
<1>4. n \in 1 .. group.last
  <2>1. PICK e \in 0 .. group.last : Interval(hand[g], e)
    BY <1>1 DEF BatchIsNext
  <2>2. e \in Nat /\ e <= group.last
    BY <1>1
  <2>3. n \in 1 .. e
    BY <1>3, <2>1, <2>2, IntervalHead
  <2> QED
    BY <1>1, <2>2, <2>3
<1>5. /\ \A x \in Conns \ {k} : wire'[x] = wire[x]
      /\ \/ home[k] = g /\ wire'[k] = Append(wire[k], n)
         \/ wire'[k] = wire[k] /\ (home[k] = g => stream[n] # "transcript")
  <2>1. wire = [x \in Conns |-> wire[x]] /\ "transcript" \notin Channels
    BY RelayAssumption DEF CallInv, SessionShape
  <2>2. \/ home[k] = g /\ wire' = [wire EXCEPT ![k] = Append(wire[k], n)]
        \/ wire' = wire /\ ~(home[k] = g /\ ShouldRelay(k, stream[n]))
    BY DEF SendTo, EntryAt, Current, GroupOf
  <2>3. stream[n] = "transcript" => ShouldRelay(k, stream[n])
    BY <2>1 DEF ShouldRelay
  <2> QED
    BY <2>1, <2>2, <2>3
<1>6. /\ targets' = [h \in Gateways |-> targets'[h]] /\ targets'[g] = targets[g] \ {k}
      /\ \A h \in Gateways \ {g} : targets'[h] = targets[h]
  BY <1>1, <1>2 DEF GroupInv
<1>7. n \in Nat \ {0}
  BY <1>1, <1>4
<1> QED
  BY <1>2, <1>3, <1>4, <1>5, <1>6, <1>7

LEMMA SendToInOrder ==
    ASSUME CallInv, OrderInv, NEW g \in scene.running, RelayMoves(g), NEW k \in Conns, SendTo(g, k)
    PROVE  OrderInv' /\ (SteadyInv => SteadyInv')
<1>1. UNCHANGED <<gc, outbox, scene, stream, group, hand, home, inside, faults>>
  BY DEF RelayMoves, SendTo, mcpVars, sessionVars
<1>2. GroupInv /\ group.last \in Nat /\ g \in Gateways /\ g # None
  BY GatewaysRun DEF OrderInv, GroupInv
<1>3. PICK e : e = Head(hand[g])
  OBVIOUS
<1>4. /\ hand[g] # <<>> /\ e \in 1 .. group.last /\ e \in Nat \ {0} /\ targets[g] # None /\ k \in targets[g]
      /\ targets' = [h \in Gateways |-> targets'[h]] /\ targets'[g] = targets[g] \ {k}
      /\ \A h \in Gateways \ {g} : targets'[h] = targets[h]
      /\ \A x \in Conns \ {k} : wire'[x] = wire[x]
      /\ \/ home[k] = g /\ wire'[k] = Append(wire[k], e)
         \/ wire'[k] = wire[k] /\ (home[k] = g => stream[e] # "transcript")
  BY <1>2, <1>3, SendToChanges
<1>5. GroupInv' /\ targets'[g] # None
  <2>1. BatchIsNext(g) /\ targets[g] \subseteq Conns
    BY <1>2, <1>4 DEF GroupInv, BatchIsNext
  <2>2. targets'[g] \subseteq Conns
    BY <1>4, <2>1
  <2>3. targets'[g] # None
    <3>1. None \notin SUBSET Conns
      BY RelayAssumption
    <3> QED
      BY <2>2, <3>1
  <2>4. BatchIsNext(g)'
    BY <1>1, <1>4, <2>1, <2>2 DEF BatchIsNext
  <2>5. \A h \in Gateways \ {g} : BatchIsNext(h)'
    BY <1>1, <1>2, <1>4 DEF GroupInv, BatchIsNext
  <2> QED
    BY <1>1, <1>2, <1>4, <2>3, <2>4, <2>5 DEF GroupInv
<1>6. ASSUME NEW x \in Conns PROVE InNoBatch(x) => InNoBatch(x)'
  BY <1>4 DEF InNoBatch
<1>7. ASSUME NEW x \in Conns \ {k}, home[x] # None, NEW n
      PROVE  Before(home[x], x, n)' <=> Before(home[x], x, n)
  <2>1. home[x] \in Gateways
    BY <1>7, GatewaysRun
  <2>2. ASSUME NEW h, h = home[x] PROVE Before(h, x, n)' <=> Before(h, x, n)
    <3>1. CASE h = g
      <4>1. Served(g, x)' <=> Served(g, x)
        BY <1>4, <1>5 DEF Served
      <4> QED
        BY <1>1, <3>1, <4>1 DEF Before
    <3>2. CASE h # g
      <4>1. targets'[h] = targets[h]
        BY <1>4, <2>1, <2>2, <3>2
      <4> QED
        BY <1>1, <4>1 DEF Before, Served
    <3> QED
      BY <3>1, <3>2
  <2> QED
    BY <1>1, <2>2
<1>8. ASSUME NEW x \in Conns \ {k} PROVE SessionOrder(x)' /\ Sent(x)' = Sent(x)
  <2>1. home[x] # None => \A n \in Sent(x) : Before(home[x], x, n) => Before(home[x], x, n)'
    BY <1>7
  <2>2. group'.last \in Nat /\ group'.last >= group.last
    BY <1>1, <1>2
  <2> QED
    BY <1>1, <1>4, <1>6, <2>1, <2>2, SessionStays
<1>9. /\ SessionOrder(k) /\ ~InNoBatch(k) /\ gc[k].ws # "new"
      /\ \A i \in 1 .. Len(outbox[k]) : outbox[k][i][1] # "join"
  <2>1. SessionOrder(k) /\ ~InNoBatch(k)
    BY <1>2, <1>4 DEF OrderInv, InNoBatch
  <2> QED
    BY <2>1 DEF SessionOrder, JoinIsFirst, CanJoin
<1>10. ASSUME home[k] = g, NEW n \in Sent(k) PROVE n < e /\ n \in Nat /\ Before(g, k, n)
  <2>1. Before(g, k, n) /\ ~Served(g, k)
    BY <1>2, <1>4, <1>9, <1>10 DEF SessionOrder, Served
  <2> QED
    BY <1>3, <1>4, <1>10, <2>1, SentIsKnown DEF Before
<1>11. ASSUME home[k] = g, wire'[k] = Append(wire[k], e)
       PROVE  SessionOrder(k)' /\ Sent(k)' = Sent(k) \cup {e}
  <2>1. Rising(wire[k]) /\ \A m \in EventsOf(wire[k]) : m < e
    BY <1>9, <1>10, <1>11 DEF SessionOrder, Sent
  <2>2. Rising(wire'[k]) /\ EventsOf(wire'[k]) = EventsOf(wire[k]) \cup {e}
    <3>1. EventsOf(wire'[k]) = EventsOf(wire[k]) \cup ({e} \ {Joined}) /\ Rising(wire'[k])
      BY <1>4, <1>11, <2>1, RisingAppend
    <3> QED
      BY <1>4, <3>1 DEF Joined
  <2>3. Sent(k)' = Sent(k) \cup {e}
    BY <1>1, <2>2 DEF Sent
  <2>4. \A n \in EventsOf(gc'[k].heard) : \A m \in EventsOf(wire'[k]) : n < m
    BY <1>1, <1>9, <1>10, <1>11, <2>2 DEF SessionOrder, Sent
  <2>5. ASSUME NEW n \in Sent(k) \cup {e} PROVE n <= group.last /\ Before(g, k, n)'
    <3>1. Served(g, k)'
      BY <1>4, <1>5 DEF Served
    <3>2. n <= group.last /\ (n < e \/ n = e)
      BY <1>2, <1>4, <1>10, <1>11, SentIsKnown
    <3> QED
      BY <1>1, <1>3, <3>1, <3>2 DEF Before
  <2>6. JoinIsFirst(k)'
    BY <1>1, <1>9 DEF JoinIsFirst
  <2>7. Rising(gc[k].heard)' /\ Rising(wire[k])' /\ home'[k] = g /\ group'.last = group.last
    BY <1>1, <1>9, <1>11, <2>2 DEF SessionOrder
  <2>8. \A i \in 1 .. Len(gc'[k].heard) : gc'[k].heard[i] # Joined
    BY <1>1, <1>9 DEF SessionOrder
  <2>9. \A n \in Sent(k)' : (n <= group.last /\ (home[k] # None => Before(home[k], k, n)))'
    BY <2>3, <2>5, <2>7
  <2> QED
    BY <1>1, <1>9, <2>3, <2>4, <2>6, <2>7, <2>8, <2>9 DEF SessionOrder
<1>12. ASSUME wire'[k] = wire[k] PROVE SessionOrder(k)' /\ Sent(k)' = Sent(k)
  <2>1. home[k] # None => \A n \in Sent(k) : Before(home[k], k, n) => Before(home[k], k, n)'
    <3> SUFFICES ASSUME home[k] # None, NEW n \in Sent(k), Before(home[k], k, n)
                 PROVE  Before(home[k], k, n)'
      OBVIOUS
    <3>1. home[k] \in Gateways
      BY GatewaysRun
    <3>2. ASSUME NEW h, h = home[k] PROVE Before(h, k, n)'
      <4>1. CASE h = g
        BY <1>1, <1>3, <1>10, <3>2, <4>1 DEF Before
      <4>2. CASE h # g
        <5>1. targets'[h] = targets[h] /\ Before(h, k, n)
          BY <1>4, <3>1, <3>2, <4>2
        <5> QED
          BY <1>1, <5>1 DEF Before, Served
      <4> QED
        BY <4>1, <4>2
    <3> QED
      BY <1>1, <3>2
  <2>2. group'.last \in Nat /\ group'.last >= group.last
    BY <1>1, <1>2
  <2> QED
    BY <1>1, <1>9, <1>12, <2>1, <2>2, SessionStays
<1>13. ASSUME SteadyInv, Steady' PROVE SteadyInv'
  <2>1. /\ Steady /\ scene.running = {g} /\ (AlwaysIn' <=> AlwaysIn)
        /\ \A x \in Conns : home[x] # None => home[x] = g
    <3>1. Steady
      BY <1>1, <1>13 DEF Steady
    <3> QED
      BY <1>1, <3>1, OneGateway DEF AlwaysIn
  <2>2. ASSUME NEW x \in Conns \ {k}, NEW n \in Missing(x)' PROVE Misses(x, n)'
    <3>1. Sent(x)' = Sent(x) /\ n \in Missing(x)
      BY <1>1, <1>8, <2>2 DEF Missing
    <3>2. Due(x)' => Due(x)
      BY <1>1, <1>4, <2>1 DEF Due
    <3>3. Misses(x, n)
      BY <1>13, <2>1, <3>1 DEF SteadyInv
    <3>4. Due(x) => (Before(home[x], x, n)' <=> Before(home[x], x, n))
      BY <1>7 DEF Due
    <3> QED
      BY <2>1, <3>1, <3>2, <3>3, <3>4 DEF Misses
  <2>3. ASSUME NEW n \in Missing(k)' PROVE Misses(k, n)'
    <3>1. n \in 1 .. group.last /\ stream[n] = "transcript" /\ n \notin Sent(k)'
      BY <1>1, <2>3 DEF Missing
    <3>2. n \in Nat /\ n <= group.last
      BY <1>2, <3>1
    <3>3. n \notin Sent(k)
      BY <1>4, <1>11, <1>12, <3>1
    <3>4. Misses(k, n)
      BY <1>13, <2>1, <3>1, <3>3 DEF SteadyInv, Missing
    <3>5. CASE home[k] = g
      <4>1. Due(k) /\ n # e
        <5>1. Due(k)
          BY <1>2, <1>4, <3>5 DEF Due
        <5>2. n # e
          BY <1>4, <1>11, <3>1, <3>5
        <5> QED
          BY <5>1, <5>2
      <4>2. AlwaysIn \/ (\E m \in Sent(k) : m < n) => e < n
        <5>1. ~Before(g, k, n) => ~(n < e)
          BY <1>3, <3>2 DEF Before
        <5> QED
          BY <1>4, <3>2, <3>4, <3>5, <4>1, <5>1 DEF Misses
      <4>3. Sent(k)' \subseteq Sent(k) \cup {e}
        BY <1>4, <1>11, <1>12
      <4>4. AlwaysIn \/ (\E m \in Sent(k)' : m < n) => e < n
        BY <4>2, <4>3
      <4>5. e < n => \A m \in Sent(k)' : m < n
        BY <1>4, <1>10, <3>2, <3>5, <4>3
      <4>6. e < n => ~Before(g, k, n)'
        BY <1>1, <1>3, <1>4, <3>2 DEF Before
      <4> QED
        BY <1>1, <2>1, <3>5, <4>4, <4>5, <4>6 DEF Misses
    <3>6. CASE home[k] # g
      <4>1. home'[k] = None /\ Sent(k)' = Sent(k)
        BY <1>1, <1>4, <1>12, <2>1, <3>6
      <4> QED
        BY <3>4, <4>1 DEF Misses, Due
    <3> QED
      BY <3>5, <3>6
  <2>4. \A h \in scene'.running : Interval(hand[h], group.last)'
    BY <1>1, <1>13, <2>1 DEF SteadyInv
  <2> QED
    BY <2>2, <2>3, <2>4 DEF SteadyInv
<1>14. SessionOrder(k)'
  BY <1>4, <1>11, <1>12
<1> QED
  BY <1>5, <1>8, <1>13, <1>14 DEF OrderInv, SteadyInv

LEMMA StepInOrder ==
    CallInv /\ OrderInv /\ [ServerNext]_serverVars => OrderInv' /\ (SteadyInv => SteadyInv')
<1> SUFFICES ASSUME CallInv, OrderInv, [ServerNext]_serverVars
             PROVE  OrderInv' /\ (SteadyInv => SteadyInv')
  OBVIOUS
<1>1. CASE UNCHANGED serverVars
  BY <1>1, RestInOrder
<1>2. CASE ServerNext
  <2>1. ASSUME NEW c \in Calls, Quiet(c) \/ ClientStep(c) PROVE OrderInv' /\ (SteadyInv => SteadyInv')
    BY <2>1, CallsInOrder, ConnectInOrder, AwaitInOrder DEF ClientStep
  <2>2. ASSUME NEW k \in Conns, Listen(k) \/ HandleMessage(k) \/ SendJoined(k)
        PROVE  OrderInv' /\ (SteadyInv => SteadyInv')
    BY <2>2, ListenInOrder, MessageInOrder, SendJoinedInOrder
  <2>3. ASSUME SomeEnd, NEW k \in Conns, SessionEnds(k) PROVE OrderInv' /\ (SteadyInv => SteadyInv')
    BY <2>3, EndsInOrder
  <2>4. ASSUME SomeEnd, NEW g \in scene.running, ProcessDies(g) PROVE OrderInv' /\ (SteadyInv => SteadyInv')
    BY <2>4, DiesInOrder
  <2>5. ASSUME NEW g \in scene.running, RelayMoves(g) PROVE OrderInv' /\ (SteadyInv => SteadyInv')
    <3>1. CASE ReadEvents(g)
      BY <2>5, <3>1, ReadInOrder
    <3>2. CASE Route(g)
      BY <2>5, <3>2, RouteInOrder
    <3>3. CASE Acknowledge(g)
      BY <2>5, <3>3, AcknowledgeInOrder
    <3>4. CASE \E k \in Conns : SendTo(g, k)
      BY <2>5, <3>4, SendToInOrder
    <3> QED
      BY <2>5, <3>1, <3>2, <3>3, <3>4 DEF RelayMoves
  <2>6. CASE Publishes \/ TimePasses
    BY <2>6, PublishInOrder, RestInOrder
  <2> QED
    BY <1>2, <2>1, <2>2, <2>3, <2>4, <2>5, <2>6, StepKinds
<1> QED
  BY <1>1, <1>2

LEMMA OrderBegins == ServerInit => OrderInv /\ SteadyInv
<1> SUFFICES ASSUME ServerInit PROVE OrderInv /\ SteadyInv
  OBVIOUS
<1>1. CallInv
  BY CallsBegin
<1>2. /\ stream = <<>> /\ group = [last |-> 0, pending |-> {}] /\ group.last = 0 /\ faults = 0
      /\ hand = [g \in Gateways |-> <<>>] /\ targets = [g \in Gateways |-> None]
      /\ wire = [k \in Conns |-> <<>>] /\ outbox = [k \in Conns |-> <<>>]
  BY DEF ServerInit, RelayInit, McpInit
<1>3. /\ <<>> \in Seq(Kinds) /\ Len(<<>>) = 0 /\ 1 .. 0 = {}
      /\ Interval(<<>>, 0) /\ Rising(<<>>) /\ EventsOf(<<>>) = {}
  BY NothingSent, EmptySeq
<1>4. GroupInv
  <2>1. \A g \in Gateways : BatchIsNext(g)
    <3>1. 0 \in 0 .. group.last
      BY <1>2
    <3> QED
      BY <1>2, <1>3, <3>1 DEF BatchIsNext
  <2> QED
    BY <1>2, <1>3, <2>1 DEF GroupInv
<1>5. ASSUME NEW k \in Conns PROVE SessionOrder(k) /\ Missing(k) = {}
  <2>1. gc[k].heard = <<>> /\ wire[k] = <<>> /\ outbox[k] = <<>>
    BY <1>2 DEF ServerInit, McpInit, NewClient
  <2>2. Sent(k) = {}
    BY <1>3, <2>1 DEF Sent
  <2>3. JoinIsFirst(k)
    BY <1>3, <2>1 DEF JoinIsFirst
  <2>4. InNoBatch(k)
    BY <1>2 DEF InNoBatch
  <2>5. SessionOrder(k)
    BY <1>3, <2>1, <2>2, <2>3, <2>4 DEF SessionOrder
  <2> QED
    BY <1>2, <1>3, <2>5 DEF Missing
<1>6. SteadyInv
  <2>1. \A g \in scene.running : Interval(hand[g], group.last)
    BY <1>1, <1>2, <1>3, GatewaysRun
  <2> QED
    BY <1>5, <2>1 DEF SteadyInv
<1> QED
  BY <1>4, <1>5, <1>6 DEF OrderInv

LEMMA OrderSuffices == CallInv /\ OrderInv /\ SteadyInv => HeardInOrder
<1> SUFFICES ASSUME CallInv, OrderInv, SteadyInv, NEW k \in Conns, NEW heard, heard = gc[k].heard
             PROVE  /\ \A i, j \in DOMAIN heard : i < j => heard[i] < heard[j]
                    /\ Cardinality(scene.running) = 1 /\ scene.faults = 0 =>
                         /\ heard # <<>> => \A n \in heard[1] .. heard[Len(heard)] :
                                                stream[n] = "transcript" => n \in ToSet(heard)
                         /\ /\ AlwaysIn /\ gc[k].listening /\ inside[k] = Meeting /\ wire[k] = <<>>
                            /\ \A g \in scene.running : hand[g] = <<>>
                           => \A n \in 1 .. group.last : stream[n] = "transcript" => n \in ToSet(heard)
  BY DEF HeardInOrder
<1>1. /\ Rising(heard) /\ Rising(wire[k])
      /\ \A n \in EventsOf(heard) : \A m \in EventsOf(wire[k]) : n < m
      /\ \A i \in 1 .. Len(heard) : heard[i] # Joined
      /\ Sent(k) = EventsOf(heard) \cup EventsOf(wire[k])
  BY DEF OrderInv, SessionOrder, Sent
<1>2. heard \in Seq(Nat) /\ DOMAIN heard = 1 .. Len(heard) /\ Len(heard) \in Nat
  BY <1>1 DEF Rising
<1>3. \A i, j \in DOMAIN heard : i < j => heard[i] < heard[j]
  BY <1>1, <1>2 DEF Rising
<1>4. EventsOf(heard) = ToSet(heard)
  BY <1>1, <1>2 DEF EventsOf, ToSet
<1>5. Sent(k) \subseteq Nat /\ group.last \in Nat /\ \A n \in Sent(k) : n <= group.last
  BY SentIsKnown
<1>6. ASSUME Steady, heard # <<>>, NEW n \in heard[1] .. heard[Len(heard)],
             stream[n] = "transcript", n \notin ToSet(heard)
      PROVE  FALSE
  <2>1. PICK a, z : a = heard[1] /\ z = heard[Len(heard)]
    OBVIOUS
  <2>2. a \in Sent(k) /\ z \in Sent(k) /\ a # 0 /\ a \in ToSet(heard) /\ z \in ToSet(heard)
    <3>1. 1 \in 1 .. Len(heard) /\ Len(heard) \in 1 .. Len(heard)
      BY <1>2, <1>6, EmptySeq
    <3> QED
      BY <1>1, <1>2, <1>4, <2>1, <3>1 DEF Joined, ToSet
  <2>3. a \in Nat /\ z \in Nat /\ z <= group.last /\ a >= 1
    BY <1>5, <2>2
  <2>4. n \in Nat /\ a < n /\ n <= z /\ n \in 1 .. group.last
    <3>1. n \in a .. z /\ n # a
      BY <1>6, <2>1, <2>2
    <3> QED
      BY <1>5, <2>3, <3>1
  <2>5. n \notin Sent(k)
    <3>1. \A m \in EventsOf(wire[k]) : z < m /\ m \in Nat
      BY <1>1, <1>4, <1>5, <2>2
    <3> QED
      BY <1>1, <1>4, <1>6, <2>3, <2>4, <3>1
  <2>6. Misses(k, n)
    BY <1>6, <2>4, <2>5 DEF SteadyInv, Missing
  <2>7. z < n
    BY <2>2, <2>4, <2>6 DEF Misses
  <2> QED
    BY <2>3, <2>4, <2>7
<1>7. ASSUME Steady, AlwaysIn, inside[k] = Meeting, wire[k] = <<>>,
             \A g \in scene.running : hand[g] = <<>>,
             NEW n \in 1 .. group.last, stream[n] = "transcript", n \notin ToSet(heard)
      PROVE  FALSE
  <2>1. n \notin Sent(k)
    BY <1>1, <1>4, <1>7, NothingSent
  <2>2. Misses(k, n)
    BY <1>7, <2>1 DEF SteadyInv, Missing
  <2>3. home[k] # None /\ home[k] \in scene.running
    <3>1. Meeting # None
      BY McpAssumption
    <3> QED
      BY <1>7, <3>1, GatewaysRun DEF CallInv
  <2>4. Due(k) /\ Before(home[k], k, n)
    <3>1. n <= group.last
      BY <1>5
    <3> QED
      BY <1>7, <2>3, <3>1 DEF Due, Before
  <2> QED
    BY <1>7, <2>2, <2>4 DEF Misses
<1> QED
  BY <1>3, <1>6, <1>7 DEF Steady

\* Whatever the gateways, the stream and the calls, an agent hears of every
\* event at most once and in order; where one gateway serves it and nothing
\* fails it misses no transcript between two it has heard of, and none at all
\* if it was in the meeting from the start (event_relay._run,
\* agent_session.send_to_agent, GatewayClient._listen).
THEOREM EventsAreHeardInOrder == ServerSpec => []HeardInOrder
<1>1. ServerInit => CallInv /\ OrderInv /\ SteadyInv
  BY CallsBegin, OrderBegins
<1>2. CallInv /\ OrderInv /\ SteadyInv /\ [ServerNext]_serverVars => (CallInv /\ OrderInv /\ SteadyInv)'
  BY StepPlaces, StepInOrder
<1> QED
  BY <1>1, <1>2, OrderSuffices, PTL DEF ServerSpec
=============================================================================
