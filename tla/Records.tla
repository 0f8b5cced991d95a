------------------------------- MODULE Records -------------------------------
(***************************************************************************)
(* The records of the API server: meetings with their rooms, invitations    *)
(* and selected agents, tasks, summaries, feeds, integrations and hosted     *)
(* sessions (routes/meetings.py, tasks.py, summaries.py, feeds.py,          *)
(* integrations.py, agent_templates.py).  One row of each table.            *)
(*                                                                         *)
(* saw is the set of tables that had a row when the request arrived.  The   *)
(* warming and stopping of agents that start and end set off is in          *)
(* ManagedAgents, the delivery of feeds in FeedDelivery.                    *)
(***************************************************************************)
EXTENDS Transactions, Sequences, Integers

VARIABLES announced,  \* events on the stream: "started", "ended"
          liveKit     \* settings.livekit_url is set (chosen initially)
recordVars == <<announced, liveKit>>

Roots == {"users", "meetings", "agent_templates"}
Leaves == Tables \ (Roots \cup {"participants", "agent_configs", "agent_api_keys",
                                "api_key_audit_log", "organization_sops", "decisions"})

NewRow(x) ==
    CASE x = "meetings" -> Row(x, [status |-> "scheduled", title |-> 1])
      [] x = "tasks" -> [refs |-> {"meetings"}, gone |-> FALSE, status |-> "pending"]
      [] x = "decisions" -> [refs |-> {"meetings"}, gone |-> FALSE]
      [] x = "agent_sessions" -> [refs |-> {"meetings"}, gone |-> FALSE]
      [] x = "meeting_selected_templates" ->
             [refs |-> {"meetings", "agent_templates"}, gone |-> FALSE]
      [] x = "hosted_agent_sessions" -> Row(x, [status |-> "active"])
      [] x = "rooms" -> Row(x, [sid |-> FALSE])
      [] OTHER -> Row(x, <<>>)

\* The meeting alone, or with everything that may belong to it.
RecordsInit(rows) ==
    /\ TransactionsInit([x \in Roots \cup rows |-> NewRow(x)])
    /\ announced = {}
    /\ liveKit \in BOOLEAN

Meeting == table["meetings"]
MeetingIs(status) == "meetings" \in DOMAIN table /\ Meeting.status = status

-----------------------------------------------------------------------------
\* start_meeting: the transition, the room, an explicit commit, the event.

\* Mutant: the transition stays in the session until the commit.
StartUnflushed(r) ==
    /\ At(r, "start", "write")
    /\ Goto(r, IF liveKit THEN "room" ELSE "started")
    /\ UNCHANGED <<table, writes, recordVars>>
StartMeeting(r) ==
    /\ At(r, "start", "write")
    /\ UpdateOrFail(r, "meetings", [status |-> "active"], IF liveKit THEN "room" ELSE "started")
    /\ UNCHANGED recordVars
FindRoom(r) ==
    /\ At(r, "start", "room")
    /\ Goto(r, IF Exists(r, "rooms") THEN "sid" ELSE "new room")
    /\ UNCHANGED <<table, writes, recordVars>>
AddRoom(r) ==
    /\ At(r, "start", "new room")
    /\ InsertOrFail(r, "rooms", NewRow("rooms"), "sid")
    /\ UNCHANGED recordVars
\* ensure_room is idempotent at LiveKit; when it fails the start is undone.
EnsureRoom(r) ==
    /\ At(r, "start", "sid")
    /\ UpdateOrFail(r, "rooms", [sid |-> TRUE], "started") \/ Fail(r)
    /\ UNCHANGED recordVars
\* Mutant: the event is published in front of the commit.
StartGoesOn(r) ==
    /\ At(r, "start", "started")
    /\ Goto(r, "publish")
    /\ UNCHANGED <<table, writes, recordVars>>
StartCommits(r) ==
    /\ At(r, "start", "started")
    /\ CommitTo(r, [req[r] EXCEPT !.at = "publish"])
    /\ UNCHANGED recordVars
PublishStarted(r) ==
    /\ At(r, "start", "publish")
    /\ announced' = announced \cup {"started"}
    /\ Goto(r, "commit")
    /\ UNCHANGED <<table, writes, liveKit>>

\* end_meeting publishes before its commit.
EndMeeting(r) ==
    /\ At(r, "end", "write")
    /\ UpdateOrFail(r, "meetings", [status |-> "completed"], "publish")
    /\ UNCHANGED recordVars
PublishEnded(r) ==
    /\ At(r, "end", "publish")
    /\ announced' = announced \cup {"ended"}
    /\ Goto(r, "commit")
    /\ UNCHANGED <<table, writes, liveKit>>

-----------------------------------------------------------------------------
\* The other operations on a meeting

UpdateMeeting(r) ==
    /\ At(r, "update", "write")
    /\ \E title \in {1, 2} : UpdateOrFail(r, "meetings", [title |-> title], "commit")
    /\ UNCHANGED recordVars
\* The unique constraint answers two invitations at once.
CreateInvite(r) ==
    /\ At(r, "invite", "write")
    /\ InsertOrFail(r, "meeting_invites", NewRow("meeting_invites"), "commit")
    /\ UNCHANGED recordVars
\* The selection is replaced as a whole.
SetSelectedAgents(r) ==
    /\ At(r, "select", "write")
    /\ LET x == "meeting_selected_templates" IN
       \/ Unlocked(r, x) /\ ~Exists(r, x) /\ InsertOrFail(r, x, NewRow(x), "commit")
       \/ Exists(r, x) /\ UpdateOrFail(r, x, <<>>, "commit")
       \/ Exists(r, x) /\ DeleteOrFail(r, x, "commit")
    /\ UNCHANGED recordVars

\* Mutant: a table added later is forgotten.
SweepsOld == << "tasks", "decisions", "transcript_segments", "agent_sessions",
                "hosted_agent_sessions", "feed_runs", "rooms",
                "meeting_invites", "meeting_selected_templates", "meetings" >>

\* delete_meeting: one DELETE for each table that refers to a meeting, in
\* this order, then the meeting.  A DELETE finds what is committed, waits for
\* a row that is being changed, and does not see one that is being inserted.
Sweeps == << "tasks", "decisions", "transcript_segments", "agent_sessions",
             "hosted_agent_sessions", "feed_runs", "meeting_summaries", "rooms",
             "meeting_invites", "meeting_selected_templates", "meetings" >>
DeleteSweeps(r) ==
    \E i \in 1 .. Len(Sweeps) - 1 :
        /\ At(r, "delete", Sweeps[i])
        /\ IF Sweeps[i] \in DOMAIN table
           THEN /\ Unlocked(r, Sweeps[i])
                /\ writes' = [writes EXCEPT ![r] = Put(@, Sweeps[i], Gone)]
           ELSE UNCHANGED writes
        /\ Goto(r, Sweeps[i + 1])
        /\ UNCHANGED <<table, recordVars>>
DeleteMeeting(r) ==
    /\ At(r, "delete", "meetings")
    /\ DeleteOrFail(r, "meetings", "commit")
    /\ UNCHANGED recordVars

-----------------------------------------------------------------------------
\* Tasks and summaries

CreateTask(r) ==
    /\ At(r, "create_task", "write")
    /\ AddOrFail(r, "tasks", NewRow("tasks"), "commit")
    /\ UNCHANGED recordVars
UpdateTaskStatus(r) ==
    /\ At(r, "update_task", "write")
    /\ \E s \in {"pending", "done"} : UpdateOrFail(r, "tasks", [status |-> s], "commit")
    /\ UNCHANGED recordVars

\* The cached summary, or a new one from the language model, which may fail;
\* two generations at once meet at the unique meeting_id.
GetMeetingSummary(r) ==
    /\ At(r, "summary", "write")
    /\ \E regenerate \in BOOLEAN :
           Goto(r, IF ~regenerate /\ Exists(r, "meeting_summaries") THEN "commit" ELSE "generate")
    /\ UNCHANGED <<table, writes, recordVars>>
GenerateSummary(r) ==
    /\ At(r, "summary", "generate")
    /\ \/ Goto(r, IF Exists(r, "meeting_summaries") THEN "overwrite" ELSE "store")
          /\ UNCHANGED <<table, writes>>
       \/ Fail(r)
    /\ UNCHANGED recordVars
StoreSummary(r) ==
    /\ \/ At(r, "summary", "overwrite") /\ UpdateOrFail(r, "meeting_summaries", <<>>, "commit")
       \/ /\ At(r, "summary", "store")
          /\ InsertOrFail(r, "meeting_summaries", NewRow("meeting_summaries"), "commit")
    /\ UNCHANGED recordVars

-----------------------------------------------------------------------------
\* Feeds, integrations and hosted sessions

\* A feed with or without an integration, then its secret if it has a token.
CreateFeed(r) ==
    /\ At(r, "create_feed", "write")
    /\ \E refs \in {{"users"}, {"users", "integrations"}} :
           AddOrFail(r, "feeds", [NewRow("feeds") EXCEPT !.refs = refs], "secret")
    /\ UNCHANGED recordVars
StoreSecret(r) ==
    /\ At(r, "create_feed", "secret")
    /\ IF Inserts(r, "feeds")
       THEN AddOrFail(r, "feed_secrets", NewRow("feed_secrets"), "commit")
       ELSE Goto(r, "commit") /\ UNCHANGED <<table, writes>>
    /\ UNCHANGED recordVars
\* The columns of the feed, or its token: a feed that had no secret gets one.
UpdateFeed(r) ==
    /\ At(r, "update_feed", "write")
    /\ LET x == "feed_secrets" IN
       \/ UpdateOrFail(r, "feeds", <<>>, "commit")
       \/ x \in req[r].saw /\ UpdateOrFail(r, x, <<>>, "commit")
       \/ x \notin req[r].saw /\ InsertOrFail(r, x, NewRow(x), "commit")
    /\ UNCHANGED recordVars
\* delete_feed deletes the runs it has read; one inserted since stops it.
DeleteFeed(r) ==
    /\ At(r, "delete_feed", "write")
    /\ LET known == req[r].saw \cap {"feed_secrets", "feed_runs"} IN
       /\ MayDelete(r, "feeds")
       /\ IF Exists(r, "feeds") /\ \A c \in Restricting("feeds") : Exists(r, c) => c \in known
          THEN /\ writes' = [writes EXCEPT ![r] =
                                 Over([x \in {"feeds"} \cup (known \cap DOMAIN table) |-> Gone], @)]
               /\ Goto(r, "commit")
               /\ UNCHANGED table
          ELSE Fail(r)
    /\ UNCHANGED recordVars
TriggerFeed(r) ==
    /\ At(r, "trigger", "write")
    /\ AddOrFail(r, "feed_runs", NewRow("feed_runs"), "commit")
    /\ UNCHANGED recordVars

\* The upsert finds one integration per user and platform.
SlackCallback(r) ==
    /\ At(r, "connect", "write")
    /\ IF "integrations" \in req[r].saw THEN UpdateOrFail(r, "integrations", <<>>, "commit")
       ELSE InsertOrFail(r, "integrations", NewRow("integrations"), "commit")
    /\ UNCHANGED recordVars
DeleteIntegration(r) ==
    /\ At(r, "disconnect", "write")
    /\ DeleteOrFail(r, "integrations", "commit")
    /\ UNCHANGED recordVars

ActivateTemplate(r) ==
    /\ At(r, "activate", "write")
    /\ AddOrFail(r, "hosted_agent_sessions", NewRow("hosted_agent_sessions"), "commit")
    /\ UNCHANGED recordVars
DeactivateSession(r) ==
    /\ At(r, "deactivate", "write")
    /\ UpdateOrFail(r, "hosted_agent_sessions", [status |-> "stopped"], "commit")
    /\ UNCHANGED recordVars

-----------------------------------------------------------------------------
\* What a handler must find when its request arrives.

Needs == [ start |-> "meetings", end |-> "meetings", update |-> "meetings",
           invite |-> "meetings", select |-> "meetings", delete |-> "meetings",
           summary |-> "transcript_segments", create_task |-> "users",
           update_task |-> "tasks", create_feed |-> "users", update_feed |-> "feeds",
           delete_feed |-> "feeds", trigger |-> "feeds", connect |-> "users",
           disconnect |-> "integrations", activate |-> "meetings",
           deactivate |-> "hosted_agent_sessions" ]
RecordOps == DOMAIN Needs

Receive(r, op) ==
    /\ op \in RecordOps
    /\ Needs[op] \in DOMAIN table
    /\ op = "start" => MeetingIs("scheduled")
    /\ op = "end" => MeetingIs("active")
    /\ op = "invite" => "meeting_invites" \notin DOMAIN table
    /\ Begin(r, op, IF op = "delete" THEN Sweeps[1] ELSE "write", DOMAIN table)
    /\ UNCHANGED <<table, writes, recordVars>>

RecordsCommit(r) == Commit(r) /\ UNCHANGED recordVars
RecordsCrash == ServerDies /\ UNCHANGED recordVars

RecordStep(r) ==
    \/ StartMeeting(r) \/ FindRoom(r) \/ AddRoom(r) \/ EnsureRoom(r) \/ StartCommits(r)
    \/ PublishStarted(r) \/ EndMeeting(r) \/ PublishEnded(r)
    \/ UpdateMeeting(r) \/ CreateInvite(r) \/ SetSelectedAgents(r)
    \/ DeleteSweeps(r) \/ DeleteMeeting(r) \/ CreateTask(r) \/ UpdateTaskStatus(r)
    \/ GetMeetingSummary(r) \/ GenerateSummary(r) \/ StoreSummary(r)
    \/ CreateFeed(r) \/ StoreSecret(r) \/ UpdateFeed(r) \/ DeleteFeed(r) \/ TriggerFeed(r)
    \/ SlackCallback(r) \/ DeleteIntegration(r) \/ ActivateTemplate(r) \/ DeactivateSession(r)
    \/ RecordsCommit(r)
-----------------------------------------------------------------------------
RecordsTypeOK ==
    /\ announced \subseteq {"started", "ended"}
    /\ "meetings" \in DOMAIN table => Meeting.status \in {"scheduled", "active", "completed"}

\* A consumer that reads the meeting when it hears of its start does not find
\* it scheduled: start_meeting commits before it publishes.
StartIsVisible == "started" \in announced => ~MeetingIs("scheduled")

\* Two starts at once both pass the check of the status; the second waits at
\* its first flush until the first has committed its room, and then finds it:
\* the insertion never meets the unique name (start_meeting).
RoomsNeverCollide ==
    \A r \in Requests :
        At(r, "start", "new room") => ~Violates(r, "rooms", NewRow("rooms"))

\* No row that was there when a deletion began keeps the meeting from being
\* deleted: the statements of delete_meeting leave out no table that refers
\* to meetings (models.py).  Only a row added meanwhile makes it fail.
DeletionsSweep ==
    \A r \in Requests :
        At(r, "delete", "meetings") =>
            \A c \in Restricting("meetings") \cap req[r].saw : ~Exists(r, c)
=============================================================================
