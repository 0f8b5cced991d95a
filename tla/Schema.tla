------------------------------- MODULE Schema -------------------------------
(***************************************************************************)
(* The tables of the database and their foreign keys, as the ORM classes   *)
(* of kutana_core/database/models.py declare them.  A table is the set of  *)
(* its foreign keys [to, rule]: to is the table a key refers to, rule what *)
(* Postgres does with the row when the row it refers to is deleted.        *)
(* Nullable keys are included; columns without a foreign key are left to   *)
(* the modules that give the rows their values.                            *)
(***************************************************************************)
EXTENDS FiniteSets

Ref(t) == [to |-> t, rule |-> "restrict"]
Cascade(t) == [to |-> t, rule |-> "cascade"]
SetNull(t) == [to |-> t, rule |-> "set null"]

UserORM == {}
AgentTemplateORM == {}
OrganizationSOPORM == {}
MeetingORM == {Ref("users")}
MeetingInviteORM == {Ref("meetings"), Ref("users")}
ParticipantORM == {Ref("agent_configs")}
TaskORM == {Ref("meetings"), Ref("participants")}
DecisionORM == {Ref("meetings"), Ref("participants")}
TranscriptSegmentORM == {Ref("meetings")}
AgentConfigORM == {Ref("users")}
AgentApiKeyORM == {Ref("agent_configs"), Ref("users")}
ApiKeyAuditLogORM == {Ref("agent_api_keys")}
RoomORM == {Ref("meetings")}
AgentSessionORM == {Ref("agent_configs"), Ref("meetings")}
HostedAgentSessionORM ==
    {Ref("users"), Ref("agent_templates"), Ref("meetings")}
MeetingSelectedTemplateORM ==
    {Cascade("meetings"), Cascade("agent_templates"), SetNull("organization_sops")}
IntegrationORM == {Ref("users")}
FeedORM == {Ref("users"), Ref("integrations")}
FeedRunORM == {Ref("feeds"), Ref("meetings")}
MeetingSummaryORM == {Ref("meetings")}
FeedSecretORM == {Ref("feeds")}
UsageRecordORM == {Ref("users")}

\* The tables by name.
Keys ==
    [ users |-> UserORM, agent_templates |-> AgentTemplateORM,
      organization_sops |-> OrganizationSOPORM, meetings |-> MeetingORM,
      meeting_invites |-> MeetingInviteORM, participants |-> ParticipantORM,
      tasks |-> TaskORM, decisions |-> DecisionORM,
      transcript_segments |-> TranscriptSegmentORM,
      agent_configs |-> AgentConfigORM, agent_api_keys |-> AgentApiKeyORM,
      api_key_audit_log |-> ApiKeyAuditLogORM, rooms |-> RoomORM,
      agent_sessions |-> AgentSessionORM,
      hosted_agent_sessions |-> HostedAgentSessionORM,
      meeting_selected_templates |-> MeetingSelectedTemplateORM,
      integrations |-> IntegrationORM, feeds |-> FeedORM,
      feed_runs |-> FeedRunORM, meeting_summaries |-> MeetingSummaryORM,
      feed_secrets |-> FeedSecretORM, usage_records |-> UsageRecordORM ]

Tables == DOMAIN Keys

\* The tables a row of table t refers to, and those with a key to t that
\* stops the deletion of a row of t, or follows it.
Parents(t) == {k.to : k \in Keys[t]}
Restricting(t) == {c \in Tables : Ref(t) \in Keys[c]}
Cascading(t) == {c \in Tables : Cascade(t) \in Keys[c]}
=============================================================================
