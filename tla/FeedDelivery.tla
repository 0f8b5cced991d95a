---------------------------- MODULE FeedDelivery -----------------------------
(***************************************************************************)
(* The worker's feed pipeline: FeedDispatcher turns every meeting.started  *)
(* or meeting.ended event into one FeedRun row for each matching feed and  *)
(* entries on kutana:feed-runs; FeedRunner executes those entries.  Both   *)
(* are tasks of one process, which may crash between any two awaits.  The  *)
(* events here are the ones that trigger; the others are acknowledged and  *)
(* ignored.                                                                *)
(***************************************************************************)
EXTENDS ConsumerGroup, FiniteSets

CONSTANTS
  Feeds,        \* the active feeds
  Manual,       \* may a user trigger a feed by hand (POST /feeds/{id}/trigger)?
  MaxAttempts,  \* _MAX_RETRIES of the runner
  BatchSize,    \* entries read at a time
  MaxEvents,    \* bound: triggering events in a behaviour
  MaxFailures   \* bound: restarts of the worker, failing database and Redis calls

ASSUME FDAssumption ==
  /\ Manual \in BOOLEAN
  /\ MaxAttempts \in Nat \ {0}
  /\ BatchSize \in Nat \ {0}
  /\ MaxEvents \in Nat
  /\ MaxFailures \in Nat

ByHand == 0
Runs == Feeds \X (ByHand..MaxEvents)

VARIABLES
  events,   \* the events, each with the feeds that match it
  dgroup,   \* the dispatcher's group on it
  toSend,   \* feeds the dispatcher has still to enqueue for its entry
  lastRun,  \* run_id, as the dispatcher's loop left it
  status,   \* feed_runs.status of every row, "none" without a row
  queue,    \* kutana:feed-runs
  rgroup,   \* the runner's group on it
  attempt,  \* the runner's attempt at its entry, 0 before it is loaded
  posted,   \* how often each feed's agent has finished its delivery
  failures

dispatcher == <<events, dgroup, toSend, lastRun>>
runner == <<rgroup, attempt>>
vars == <<events, dgroup, toSend, lastRun, status, queue, rgroup, attempt, posted, failures>>

Statuses == {"none", "pending", "running", "delivered", "failed"}
Settled == {"delivered", "failed"}
NoRun == <<>>

Init ==
  /\ events = <<>>
  /\ dgroup = NewGroup(0)
  /\ toSend = {}
  /\ lastRun = NoRun
  /\ status = [r \in Runs |-> "none"]
  /\ queue = <<>>
  /\ rgroup = NewGroup(0)
  /\ attempt = 0
  /\ posted = [r \in Runs |-> 0]
  /\ failures = 0

MeetingEvent ==
  /\ Len(events) < MaxEvents
  /\ \E matching \in SUBSET Feeds \ {{}} : events' = Append(events, matching)
  /\ UNCHANGED <<dgroup, toSend, lastRun, status, queue, runner, posted, failures>>

(* trigger_feed writes a pending row and publishes feed.run.started on     *)
(* kutana:events, an event type that the dispatcher ignores.               *)
TriggerFeed(f) ==
  /\ Manual
  /\ status[<<f, ByHand>>] = "none"
  /\ status' = [status EXCEPT ![<<f, ByHand>>] = "pending"]
  /\ UNCHANGED <<dispatcher, queue, runner, posted, failures>>

-----------------------------------------------------------------------------
DispatcherReads ==
  /\ \E k \in Batches(dgroup, Len(events), BatchSize) : dgroup' = ReadGroup(dgroup, k)
  /\ UNCHANGED <<events, toSend, lastRun, status, queue, runner, posted, failures>>

(* One row for each feed, in one transaction; run_id is left with the id   *)
(* of the last one.                                                        *)
DispatcherCommits ==
  /\ Busy(dgroup)
  /\ lastRun = NoRun
  /\ toSend' = events[Current(dgroup)]
  /\ \E f \in toSend' : lastRun' = <<f, Current(dgroup)>>
  /\ status' = [r \in Runs |-> IF r[1] \in toSend' /\ r[2] = Current(dgroup)
                               THEN "pending" ELSE status[r]]
  /\ UNCHANGED <<events, dgroup, queue, runner, posted, failures>>

(* Mutant: after the first feed the entry is taken to be done.             *)
EnqueuesOne ==
  /\ \E f \in toSend :
       /\ f = lastRun[1] => toSend = {f}
       /\ queue' = Append(queue, [run |-> lastRun, feed |-> f])
       /\ toSend' = {}
  /\ UNCHANGED <<events, dgroup, lastRun, status, runner, posted, failures>>

(* XADD for the feeds in the order of the loop: each entry names its feed, *)
(* but run_id is no longer the id of that feed's row.                      *)
DispatcherEnqueues ==
  /\ \E f \in toSend :
       /\ f = lastRun[1] => toSend = {f}
       /\ queue' = Append(queue, [run |-> lastRun, feed |-> f])
       /\ toSend' = toSend \ {f}
  /\ UNCHANGED <<events, dgroup, lastRun, status, runner, posted, failures>>

DispatcherAcks ==
  /\ Busy(dgroup)
  /\ lastRun # NoRun
  /\ toSend = {}
  /\ dgroup' = Acked(dgroup)
  /\ lastRun' = NoRun
  /\ UNCHANGED <<events, toSend, status, queue, runner, posted, failures>>

(* An exception: the loop backs off and reads on with ">".                 *)
DispatcherFails ==
  /\ failures < MaxFailures
  /\ Busy(dgroup)
  /\ failures' = failures + 1
  /\ dgroup' = Dropped(dgroup)
  /\ toSend' = {}
  /\ lastRun' = NoRun
  /\ UNCHANGED <<events, status, queue, runner, posted>>

-----------------------------------------------------------------------------
Entry == queue[Current(rgroup)]

(* The feed the entry names, delivered for the meeting of the event.       *)
Delivery == <<Entry.feed, Entry.run[2]>>

RunnerReads ==
  /\ \E k \in Batches(rgroup, Len(queue), BatchSize) : rgroup' = ReadGroup(rgroup, k)
  /\ UNCHANGED <<dispatcher, status, queue, attempt, posted, failures>>

(* _execute_run up to the retry loop: without a usable token or adapter    *)
(* the run fails at once.                                                  *)
RunnerLoads ==
  /\ Busy(rgroup)
  /\ attempt = 0
  /\ \/ /\ status' = [status EXCEPT ![Entry.run] = "running"]
        /\ attempt' = 1
        /\ UNCHANGED rgroup
     \/ /\ status' = [status EXCEPT ![Entry.run] = "failed"]
        /\ rgroup' = Acked(rgroup)
        /\ UNCHANGED attempt
  /\ UNCHANGED <<dispatcher, queue, posted, failures>>

(* Mutant: run_feed's exceptions are taken for success.                    *)
SucceedsAnyway ==
  /\ attempt \in 1..MaxAttempts
  /\ status' = [status EXCEPT ![Entry.run] = "delivered"]
  /\ attempt' = 0
  /\ rgroup' = Acked(rgroup)
  /\ UNCHANGED <<dispatcher, queue, posted, failures>>

(* run_feed returns and the row is committed as delivered.                 *)
AttemptSucceeds ==
  /\ attempt \in 1..MaxAttempts
  /\ posted' = [posted EXCEPT ![Delivery] = @ + 1]
  /\ status' = [status EXCEPT ![Entry.run] = "delivered"]
  /\ attempt' = 0
  /\ rgroup' = Acked(rgroup)
  /\ UNCHANGED <<dispatcher, queue, failures>>

(* run_feed raises; or it returns and the commit raises, which counts as a *)
(* failed attempt of a feed that was in fact delivered.                    *)
AttemptFails ==
  /\ attempt \in 1..MaxAttempts
  /\ \/ posted' = [posted EXCEPT ![Delivery] = @ + 1]
     \/ UNCHANGED posted
  /\ attempt' = attempt + 1
  /\ UNCHANGED <<dispatcher, status, queue, rgroup, failures>>

RunnerGivesUp ==
  /\ attempt = MaxAttempts + 1
  /\ status' = [status EXCEPT ![Entry.run] = "failed"]
  /\ attempt' = 0
  /\ rgroup' = Acked(rgroup)
  /\ UNCHANGED <<dispatcher, queue, posted, failures>>

(* A database error outside the retry loop, or a Redis error.              *)
RunnerFails ==
  /\ failures < MaxFailures
  /\ Busy(rgroup)
  /\ attempt \in {0, MaxAttempts + 1}
  /\ failures' = failures + 1
  /\ rgroup' = Dropped(rgroup)
  /\ attempt' = 0
  /\ UNCHANGED <<dispatcher, status, queue, posted>>

-----------------------------------------------------------------------------
(* The worker restarts: both loops read on after what was delivered.       *)
Crash ==
  /\ failures < MaxFailures
  /\ failures' = failures + 1
  /\ dgroup' = Dropped(dgroup)
  /\ rgroup' = Dropped(rgroup)
  /\ toSend' = {}
  /\ lastRun' = NoRun
  /\ attempt' = 0
  /\ UNCHANGED <<events, status, queue, posted>>

DispatcherNext == DispatcherReads \/ DispatcherCommits \/ DispatcherEnqueues \/ DispatcherAcks
RunnerNext ==
  RunnerReads \/ RunnerLoads \/ AttemptSucceeds \/ AttemptFails \/ RunnerGivesUp

Next ==
  \/ MeetingEvent \/ DispatcherFails \/ RunnerFails \/ Crash
  \/ \E f \in Feeds : TriggerFeed(f)
  \/ DispatcherNext \/ RunnerNext

Spec == Init /\ [][Next]_vars

(* The two loops go on; failures are never forced.                         *)
FairSpec == Spec /\ WF_vars(DispatcherNext) /\ WF_vars(RunnerNext)

-----------------------------------------------------------------------------
TypeOK ==
  /\ \A e \in DOMAIN events : events[e] \in SUBSET Feeds \ {{}}
  /\ toSend \subseteq Feeds
  /\ lastRun \in Runs \cup {NoRun}
  /\ status \in [Runs -> Statuses]
  /\ \A i \in DOMAIN queue : queue[i] \in [run : Runs, feed : Feeds]
  /\ dgroup.last <= Len(events) /\ dgroup.pending \subseteq 1..Len(events)
  /\ rgroup.last <= Len(queue) /\ rgroup.pending \subseteq 1..Len(queue)
  /\ attempt \in 0..(MaxAttempts + 1)
  /\ attempt > 0 => Busy(rgroup)
  /\ posted \in [Runs -> Nat]

(* "max 3 attempts per run" (feed_runner.py): no feed is delivered more    *)
(* often for one event, whatever fails, restarts or is retried.             *)
PostsAreBounded == \A r \in Runs : posted[r] <= MaxAttempts

(* The rows of events that a single feed matches.                          *)
Alone(r) == r[2] \in DOMAIN events /\ events[r[2]] = {r[1]}

(* A settled row stays as it is: no restart and no batch executes a run    *)
(* again.  Feeds that share an event share a row's id, see EveryRunSettles.*)
SettledStays ==
  [][\A r \in Runs : Alone(r) /\ status[r] \in Settled => status'[r] = status[r]]_vars

(* A row that says delivered was delivered (feed_runs "tracks every feed   *)
(* delivery attempt for observability and retry", models.py).              *)
DeliveredWasPosted ==
  \A r \in Runs : Alone(r) /\ status[r] = "delivered" => posted[r] > 0

(* What the rows of feed_runs say stays true: no attempt beyond the limit, *)
(* none after a row is settled, and no delivery that was not made.         *)
RowsTellTheTruth ==
  [](PostsAreBounded /\ DeliveredWasPosted) /\ SettledStays

(* Unless something fails, every matching feed gets its turn for every     *)
(* event, also where the rows are mixed up.                                *)
EveryFeedIsServed ==
  \A f \in Feeds : \A e \in 1..MaxEvents :
    (e \in DOMAIN events /\ f \in events[e]) ~>
      \/ failures > 0
      \/ \E i \in 1..rgroup.last :
            i \notin rgroup.pending /\ queue[i].feed = f /\ queue[i].run[2] = e

(* The runner "launches a FeedAgent for each pending run" (feed_runner.py) *)
(* and settles it, unless something fails.                                 *)
EveryRunSettles ==
  \A r \in Runs : status[r] = "pending" ~> status[r] \in Settled \/ failures > 0
=============================================================================
