---------------------------- MODULE ManagedAgents ----------------------------
(***************************************************************************)
(* The API server's managed agents in one meeting.  An agent is warmed by  *)
(* a background task, which opens a session at Anthropic and commits a row *)
(* of hosted_agent_sessions.  Three parties start and stop agents: the     *)
(* HTTP handlers (start, end, retry), the MeetingEventRelay, which follows *)
(* meeting.started and meeting.ended on the stream, and the presence       *)
(* reconciler, which compares what runs with who is in the room.  All are  *)
(* coroutines of one process; an action ends where the code awaits the     *)
(* database, Redis or Anthropic.                                           *)
(***************************************************************************)
EXTENDS Naturals, Sequences, SequencesExt

CONSTANTS
  Templates,   \* agent templates that may be selected
  MaxWarms,    \* bound: warms of one template
  MaxEvents,   \* bound: unread events while the gateway publishes more
  MaxFailures  \* bound: restarts, and failures of relay or reconciler

ASSUME MAAssumption ==
  /\ MaxWarms \in Nat /\ MaxEvents \in Nat /\ MaxFailures \in Nat

VARIABLES
  meeting,    \* meetings.status, "ending" while only the end request knows
  start,      \* where POST /start is
  selected,   \* meeting_selected_templates
  present,    \* is SCARD kutana:presence:{meeting} positive?
  events,     \* meeting.started and meeting.ended the relay has not read
  warm,       \* _warming_tasks: where each template's background task is
  count,      \* warms begun for each template
  status,     \* committed rows of hosted_agent_sessions
  remote,     \* the sessions at Anthropic: opened, sent "Meeting Started",
              \* or end_session was called
  usage,      \* usage_records of each session
  relay,      \* the relay's rows while it handles meeting.ended
  tick,       \* the reconciler's pass
  failures

sessions == <<count, status, remote, usage>>
vars == <<meeting, start, selected, present, events, warm, count, status,
          remote, usage, relay, tick, failures>>

Sessions == Templates \X (1..MaxWarms)
Current(t) == <<t, count[t]>>
NoRelay == [busy |-> FALSE, open |-> {}, closed |-> {}]
NoTick == [step |-> "sleeping", crowded |-> FALSE, listed |-> {}, ending |-> {}]
Idle == [step |-> "idle", chosen |-> {}]

Init ==
  /\ meeting = "scheduled"
  /\ start = Idle
  /\ selected \in SUBSET Templates
  /\ present = FALSE
  /\ events = <<>>
  /\ warm = [t \in Templates |-> "none"]
  /\ count = [t \in Templates |-> 0]
  /\ status = [s \in Sessions |-> "none"]
  /\ remote = [s \in Sessions |-> "none"]
  /\ usage = [s \in Sessions |-> 0]
  /\ relay = NoRelay
  /\ tick = NoTick
  /\ failures = 0

ActiveRows == {s \in Sessions : status[s] = "active"}

-----------------------------------------------------------------------------
(* A warm for each of the templates, unless one is in flight.              *)
Spawn(ts) ==
  LET new == {t \in ts : warm[t] = "none" /\ count[t] < MaxWarms}
  IN /\ warm' = [t \in Templates |-> IF t \in new THEN "starting" ELSE warm[t]]
     /\ count' = [t \in Templates |-> count[t] + IF t \in new THEN 1 ELSE 0]

(* activate_template_for_meeting: the row is flushed, but nobody else sees *)
(* it; the Anthropic session is started and sent the prep message ...      *)
RemoteOpens(t) ==
  /\ warm[t] = "starting"
  /\ warm' = [warm EXCEPT ![t] = "prepping"]
  /\ remote' = [remote EXCEPT ![Current(t)] = "open"]
  /\ UNCHANGED <<meeting, start, selected, present, events, count, status,
                 usage, relay, tick, failures>>

(* ... and when it is idle the row is committed.                           *)
WarmCommits(t) ==
  /\ warm[t] = "prepping"
  /\ warm' = [warm EXCEPT ![t] = "publishing"]
  /\ status' = [status EXCEPT ![Current(t)] = "active"]
  /\ UNCHANGED <<meeting, start, selected, present, events, count, remote,
                 usage, relay, tick, failures>>

(* An error or a timeout: the row is committed as failed.  A session that  *)
(* was opened is left to itself.                                           *)
WarmFails(t) ==
  /\ warm[t] \in {"starting", "prepping"}
  /\ warm' = [warm EXCEPT ![t] = "publishing"]
  /\ status' = [status EXCEPT ![Current(t)] = "failed"]
  /\ UNCHANGED <<meeting, start, selected, present, events, count, remote,
                 usage, relay, tick, failures>>

(* AgentSessionWarmed or AgentSessionFailed is out; the finally block.     *)
WarmEnds(t) ==
  /\ warm[t] = "publishing"
  /\ warm' = [warm EXCEPT ![t] = "none"]
  /\ UNCHANGED <<meeting, start, selected, present, events, sessions, relay, tick, failures>>

-----------------------------------------------------------------------------
(* set_selected_agents replaces the selection; running agents go on.       *)
SetSelectedAgents ==
  /\ selected' \in SUBSET Templates \ {selected}
  /\ UNCHANGED <<meeting, start, present, events, warm, sessions,
                 relay, tick, failures>>

(* start_meeting reads the selection ...                                   *)
StartReads ==
  /\ meeting = "scheduled"
  /\ start = Idle
  /\ start' = [step |-> "commit", chosen |-> selected]
  /\ UNCHANGED <<meeting, selected, present, events, warm, sessions,
                 relay, tick, failures>>

(* ... commits the new status, spawns a warm for each selected agent ...   *)
StartCommits ==
  /\ start.step = "commit"
  /\ meeting' = "active"
  /\ Spawn(start.chosen)
  /\ start' = [step |-> "publish", chosen |-> {}]
  /\ UNCHANGED <<selected, present, events, status, remote, usage,
                 relay, tick, failures>>

(* ... and publishes MeetingStarted without waiting for them.              *)
StartPublishes ==
  /\ start.step = "publish"
  /\ events' = Append(events, "started")
  /\ start' = Idle
  /\ UNCHANGED <<meeting, selected, present, warm, sessions, relay,
                 tick, failures>>

(* retry_agent_session asks for a selected template and no warm in flight, *)
(* not for a failed session or an active meeting.                          *)
Retry(t) ==
  /\ t \in selected
  /\ warm[t] = "none"
  /\ Spawn({t})
  /\ UNCHANGED <<meeting, start, selected, present, events, status, remote,
                 usage, relay, tick, failures>>

(* end_meeting publishes MeetingEnded; its transaction is committed after  *)
(* the handler has returned.                                               *)
EndPublishes ==
  /\ meeting = "active"
  /\ meeting' = "ending"
  /\ events' = Append(events, "ended")
  /\ UNCHANGED <<start, selected, present, warm, sessions, relay,
                 tick, failures>>

EndCommits ==
  /\ meeting = "ending"
  /\ meeting' = "completed"
  /\ UNCHANGED <<start, selected, present, events, warm, sessions,
                 relay, tick, failures>>

-----------------------------------------------------------------------------
(* The presence materializer's SADD or SREM, until nobody reads the set.   *)
PresenceChanges ==
  /\ meeting # "completed"
  /\ present' = ~present
  /\ UNCHANGED <<meeting, start, selected, events, warm, sessions,
                 relay, tick, failures>>

(* The gateway publishes MeetingStarted with the first audio and           *)
(* MeetingEnded when a participant leaves.                                 *)
Notice(e) ==
  /\ meeting = "active"
  /\ Len(events) < MaxEvents
  /\ events' = Append(events, e)
  /\ UNCHANGED <<meeting, start, selected, present, warm, sessions, relay,
                 tick, failures>>

-----------------------------------------------------------------------------
(* on_meeting_started: every committed active session gets the context.    *)
RelayTells ==
  /\ ~relay.busy
  /\ events # <<>> /\ Head(events) = "started"
  /\ events' = Tail(events)
  /\ remote' = [s \in Sessions |->
                  IF status[s] = "active" /\ remote[s] = "open" THEN "told" ELSE remote[s]]
  /\ UNCHANGED <<meeting, start, selected, present, warm, count, status,
                 usage, relay,
                 tick, failures>>

(* Mutant: only agents that were told of the start are closed.             *)
RelayReadsTold ==
  /\ ~relay.busy
  /\ events # <<>> /\ Head(events) = "ended"
  /\ events' = Tail(events)
  /\ relay' = [busy |-> TRUE, open |-> {s \in ActiveRows : remote[s] = "told"}, closed |-> {}]
  /\ UNCHANGED <<meeting, start, selected, present, warm, sessions,
                 tick, failures>>

(* on_meeting_ended reads the active rows ...                              *)
RelayReads ==
  /\ ~relay.busy
  /\ events # <<>> /\ Head(events) = "ended"
  /\ events' = Tail(events)
  /\ relay' = [busy |-> TRUE, open |-> ActiveRows, closed |-> {}]
  /\ UNCHANGED <<meeting, start, selected, present, warm, sessions,
                 tick, failures>>

(* end_session is called; whether it worked is ignored.                    *)
EndSession(s) == remote' = [remote EXCEPT ![s] = "ended"]

(* ... asks each session for a summary, waits for it and ends it ...       *)
RelayCloses(s) ==
  /\ s \in relay.open
  /\ EndSession(s)
  /\ relay' = [relay EXCEPT !.open = @ \ {s}, !.closed = @ \cup {s}]
  /\ UNCHANGED <<meeting, start, selected, present, events, warm, count,
                 status, usage, tick, failures>>

(* Mutant: the sessions are closed without billing them.                   *)
StoppedUnbilled(ss) ==
  /\ status' = [s \in Sessions |-> IF s \in ss THEN "stopped" ELSE status[s]]
  /\ UNCHANGED usage

(* A row becomes stopped together with a usage record.                     *)
Stopped(ss) ==
  /\ status' = [s \in Sessions |-> IF s \in ss THEN "stopped" ELSE status[s]]
  /\ usage' = [s \in Sessions |-> usage[s] + IF s \in ss THEN 1 ELSE 0]

(* ... and commits all rows at once, whatever they have become meanwhile.  *)
RelayCommits ==
  /\ relay.busy /\ relay.open = {}
  /\ Stopped(relay.closed)
  /\ relay' = NoRelay
  /\ UNCHANGED <<meeting, start, selected, present, events, warm, count,
                 remote, tick, failures>>

(* The entries that were read together with the one being handled are lost *)
(* with it: the loop only reads new ones (">").                            *)
BatchIsLost == \E n \in 0..Len(events) : events' = SubSeq(events, n + 1, Len(events))

(* The database fails: the transaction is rolled back, the batch given up. *)
RelayFails ==
  /\ failures < MaxFailures
  /\ relay.busy
  /\ failures' = failures + 1
  /\ relay' = NoRelay
  /\ BatchIsLost
  /\ UNCHANGED <<meeting, start, selected, present, warm, sessions,
                 tick>>

-----------------------------------------------------------------------------
(* A pass of the reconciler over a meeting whose status is active counts   *)
(* who is there and lists the active sessions (nobody else reads the       *)
(* count, so that the two reads may be one step) ...                       *)
TickReads ==
  /\ tick.step = "sleeping"
  /\ meeting \in {"active", "ending"}
  /\ tick' = [step |-> "acting", crowded |-> present, listed |-> ActiveRows, ending |-> {}]
  /\ UNCHANGED <<meeting, start, selected, present, events, warm, sessions, relay,
                 failures>>

(* ... then reads the selection and warms what is missing from the list    *)
(* (someone is in the room) ...                                            *)
TickWarms ==
  /\ tick.step = "acting" /\ tick.crowded
  /\ Spawn({t \in selected : \A s \in tick.listed : s[1] # t})
  /\ tick' = NoTick
  /\ UNCHANGED <<meeting, start, selected, present, events, status, remote,
                 usage, relay, failures>>

(* Mutant: only selected agents are stopped.                               *)
TickEndsSelected(s) ==
  /\ tick.step = "acting" /\ ~tick.crowded
  /\ tick.ending = {}
  /\ s \in tick.listed /\ s[1] \in selected
  /\ IF status[s] = "active"
     THEN EndSession(s) /\ tick' = [tick EXCEPT !.ending = {s}, !.listed = @ \ {s}]
     ELSE UNCHANGED remote /\ tick' = [tick EXCEPT !.listed = @ \ {s}]
  /\ UNCHANGED <<meeting, start, selected, present, events, warm, count,
                 status, usage, relay, failures>>

(* ... or stops what is on it, one after the other: a row that is still    *)
(* active is ended ...                                                     *)
TickEnds(s) ==
  /\ tick.step = "acting" /\ ~tick.crowded
  /\ tick.ending = {}
  /\ s \in tick.listed
  /\ IF status[s] = "active"
     THEN EndSession(s) /\ tick' = [tick EXCEPT !.ending = {s}, !.listed = @ \ {s}]
     ELSE UNCHANGED remote /\ tick' = [tick EXCEPT !.listed = @ \ {s}]
  /\ UNCHANGED <<meeting, start, selected, present, events, warm, count,
                 status, usage, relay, failures>>

(* ... and committed.                                                      *)
TickStops ==
  /\ tick.ending # {}
  /\ Stopped(tick.ending)
  /\ tick' = [tick EXCEPT !.ending = {}]
  /\ UNCHANGED <<meeting, start, selected, present, events, warm, count,
                 remote, relay, failures>>

TickSleeps ==
  /\ tick.step = "acting" /\ ~tick.crowded /\ tick.listed \cup tick.ending = {}
  /\ tick' = NoTick
  /\ UNCHANGED <<meeting, start, selected, present, events, warm, sessions, relay, failures>>

-----------------------------------------------------------------------------
(* Redis or the database fails: the pass is given up, or just the session  *)
(* that was being ended.                                                   *)
TickFails ==
  /\ failures < MaxFailures
  /\ tick.step # "sleeping"
  /\ failures' = failures + 1
  /\ tick' = IF tick.ending = {} THEN NoTick ELSE [tick EXCEPT !.ending = {}]
  /\ UNCHANGED <<meeting, start, selected, present, events, warm, sessions, relay>>

(* The API server restarts: its tasks, the rows they had not committed and *)
(* the events the relay had read are gone; an end request that had         *)
(* published its event is rolled back.                                     *)
Crash ==
  /\ failures < MaxFailures
  /\ failures' = failures + 1
  /\ meeting' = IF meeting = "ending" THEN "active" ELSE meeting
  /\ start' = Idle
  /\ warm' = [t \in Templates |-> "none"]
  /\ relay' = NoRelay
  /\ tick' = NoTick
  /\ BatchIsLost
  /\ UNCHANGED <<selected, present, sessions>>

-----------------------------------------------------------------------------
WarmNext(t) == RemoteOpens(t) \/ WarmCommits(t) \/ WarmFails(t) \/ WarmEnds(t)
RequestNext == StartCommits \/ StartPublishes \/ EndCommits
RelayNext == RelayTells \/ RelayReads \/ RelayCommits \/ \E s \in Sessions : RelayCloses(s)
TickNext ==
  \/ TickReads \/ TickWarms \/ TickStops \/ TickSleeps
  \/ \E s \in Sessions : TickEnds(s)

Next ==
  \/ \E t \in Templates : WarmNext(t) \/ Retry(t)
  \/ RequestNext \/ RelayNext \/ TickNext
  \/ StartReads \/ EndPublishes \/ SetSelectedAgents \/ PresenceChanges
  \/ \E e \in {"started", "ended"} : Notice(e)
  \/ RelayFails \/ TickFails \/ Crash

Spec == Init /\ [][Next]_vars

(* What is awaited returns (every wait has a timeout) and the two loops go *)
(* on.  Nothing makes people come or go, or start, end or retry.           *)
Fairness ==
  /\ \A t \in Templates : WF_vars(WarmNext(t))
  /\ WF_vars(RequestNext) /\ WF_vars(RelayNext) /\ WF_vars(TickNext)

FairSpec == Spec /\ Fairness

-----------------------------------------------------------------------------
TypeOK ==
  /\ meeting \in {"scheduled", "active", "ending", "completed"}
  /\ start.step \in {"idle", "commit", "publish"} /\ start.chosen \subseteq Templates
  /\ selected \subseteq Templates
  /\ present \in BOOLEAN
  /\ ToSet(events) \subseteq {"started", "ended"}
  /\ warm \in [Templates -> {"none", "starting", "prepping", "publishing"}]
  /\ count \in [Templates -> 0..MaxWarms]
  /\ status \in [Sessions -> {"none", "active", "failed", "stopped"}]
  /\ remote \in [Sessions -> {"none", "open", "told", "ended"}]
  /\ usage \in [Sessions -> Nat]
  /\ relay.open \cup relay.closed \cup tick.listed \cup tick.ending
       \subseteq {s \in Sessions : status[s] \in {"active", "stopped"} /\ remote[s] # "none"}
  /\ \A t \in Templates : warm[t] # "none" => count[t] > 0
  /\ tick.step \in {"sleeping", "acting"} /\ tick.crowded \in BOOLEAN

(* A stopped session is billed and end_session was called for it, and no   *)
(* other session is billed: whichever of relay and reconciler stops it,    *)
(* and whatever fails or restarts in between.                              *)
StoppedIsSettled ==
  \A s \in Sessions :
    /\ usage[s] > 0 <=> status[s] = "stopped"
    /\ status[s] = "stopped" => remote[s] = "ended"

(* When everybody stays away, no agent of an active meeting runs on        *)
(* ("end every active session for the meeting", agent_presence_heartbeat): *)
(* also those selected no longer, or committed after the last pass.        *)
EmptyRoomStopsAgents ==
  <>[](meeting = "active" /\ ~present) => <>[](ActiveRows = {})

(* While somebody stays, a selected agent is there again and again,        *)
(* however often it fails or is closed ("warm any selected template that   *)
(* is missing", agent_presence_heartbeat.py), until its warms are used up. *)
SelectedAgentsAreWarmed ==
  \A t \in Templates :
    <>[](meeting = "active" /\ present /\ t \in selected)
      => []<>(count[t] = MaxWarms \/ \E s \in ActiveRows : s[1] = t)

(* The room and the agents follow each other in both directions.           *)
RoomDrivesAgents == EmptyRoomStopsAgents /\ SelectedAgentsAreWarmed

(* An agent whose row is committed before MeetingEnded is read is stopped  *)
(* in the end, whatever the reconciler does at the same time.              *)
LifecycleReachesAgents ==
  \A s \in Sessions :
    (status[s] = "active" /\ "ended" \in ToSet(events))
      ~> (status[s] = "stopped" \/ failures > 0)

-----------------------------------------------------------------------------
(* "Idempotent: if the row is already stopped this returns without doing   *)
(* anything" (agent_presence_heartbeat.py): a session is billed once.      *)
BilledOnce == \A s \in Sessions : usage[s] <= 1

(* "Concurrent warms from the /start handler and the presence reconciler   *)
(* deduplicate" (agent_presence_heartbeat.py): one session for a template. *)
OneSessionEach == \A r, s \in ActiveRows : r[1] = s[1] => r = s

(* MeetingEnded is published "so the MeetingEventRelay can close managed   *)
(* agent sessions and record billing" (routes/meetings.py).                *)
EndedHasNoAgents == meeting = "completed" ~> ActiveRows = {}

(* "You will receive: 1. A 'Meeting Started' notification"                 *)
(* (managed_agent_activation.py).                                          *)
AgentsAreTold ==
  \A s \in Sessions : status[s] = "active" /\ meeting = "active"
                        ~> remote[s] \in {"told", "ended"} \/ failures > 0
=============================================================================
