---------------------------- MODULE MCMcpServer ----------------------------
(* Instances of McpServer for TLC: which tools are used together.           *)
EXTENDS McpServer

Scene(gateways, callers, failures, tools, n, ks) ==
    [running |-> gateways, calls |-> callers, faults |-> failures,
     tools |-> tools, events |-> n, kinds |-> ks]

MCScenes ==
    LET g == {CHOOSE g \in Gateways : TRUE}
        c == {CHOOSE c \in Calls : TRUE}
        text == {"transcript"}
    IN
    { Scene(g, c, 1, {"join_meeting", "leave_meeting"}, 1, text),
      Scene(g, Calls, 1, {"join_meeting", "leave_meeting"}, 0, {}),
      Scene(g, c, 0, {"join_meeting", "get_transcript"}, 3, {"transcript", "broken"}),
      Scene(g, c, 1, {"get_transcript"}, 3, {"transcript", "broken"}),
      Scene(Gateways, c, 0, {"join_meeting", "get_participants"}, 2, text),
      Scene(g, Calls, 0, {"join_or_create_meeting", "end_meeting_session"}, 0, {}),
      Scene(g, Calls, 0, {"subscribe_channel", "publish_to_channel"}, 1, {}),
      Scene(g, c, 0, {"subscribe_channel", "set_context", "get_channel_messages"}, 2, Channels),
      Scene(g, Calls, 1, {"speak", "leave_meeting"}, 0, {}),
      Scene(g, Calls, 0, {"raise_hand"}, 0, {}),
      Scene(g, Calls, 0, {"create_new_meeting", "start_meeting_session", "end_meeting_session",
                          "list_meetings", "get_tasks", "create_task", "get_summary"}, 0, {}),
      Scene(g, Calls, 0, {"get_queue_status", "start_speaking", "mark_finished_speaking",
                          "cancel_hand_raise", "get_speaking_status", "send_chat_message",
                          "get_chat_messages", "get_meeting_status", "get_meeting_events"}, 0, {}) }
=============================================================================
