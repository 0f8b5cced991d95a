------------------------------ MODULE FeedAgent ------------------------------
(***************************************************************************)
(* One run of worker/feed_agent.py: list the tools of Kutana's MCP server   *)
(* and of the channel's (over HTTP, or of a plugin started for this run),   *)
(* let the model use them, and close the plugin.  asyncio.wait_for cancels  *)
(* whatever the run waits for.  What a tool answers is left out: an error   *)
(* is a result like any other.                                              *)
(***************************************************************************)
EXTENDS Naturals

CONSTANTS MaxAgentTurns,  \* _MAX_AGENT_TURNS
          MaxToolUses     \* bound on the tool uses of one answer of the model
ASSUME FeedAgentAssumption == MaxAgentTurns \in Nat \ {0} /\ MaxToolUses \in Nat

VARIABLES transport,  \* "http" or "stdio": the adapter's server (chosen initially)
          stubborn,   \* does the plugin ignore SIGTERM? (chosen initially)
          phase,      \* where the run is
          plugin,     \* "none", "up", "told" (to terminate) or "down"
          toolUses,   \* tool uses that are still to be answered
          answers,    \* answers of the model so far
          expired,    \* have the 60 seconds passed?
          abandoned   \* did they pass while close() waited?
feedVars == <<transport, stubborn, phase, plugin, toolUses, answers, expired, abandoned>>

FeedInit ==
    /\ transport \in {"http", "stdio"} /\ stubborn \in BOOLEAN
    /\ phase = "scheduled" /\ plugin = "none"
    /\ toolUses = 0 /\ answers = 0 /\ expired = FALSE /\ abandoned = FALSE

\* The finally of _run_agent_loop: close() tells a plugin that runs to
\* terminate, and waits.
CloseStdio ==
    IF plugin = "up" THEN plugin' = "told" /\ phase' = "wait"
    ELSE phase' = "ended" /\ UNCHANGED plugin
MovesTo(to) == phase' = to /\ UNCHANGED plugin

StartRun ==
    /\ phase = "scheduled"
    /\ MovesTo("kutana")
    /\ UNCHANGED <<transport, stubborn, toolUses, answers, expired, abandoned>>

\* tools/list of a server over HTTP: any failure ends the run.
ListTools ==
    /\ \/ phase = "kutana" /\ MovesTo(IF transport = "http" THEN "channel" ELSE "spawn")
       \/ phase = "channel" /\ MovesTo("model")
       \/ phase \in {"kutana", "channel"} /\ CloseStdio
    /\ UNCHANGED <<transport, stubborn, toolUses, answers, expired, abandoned>>

\* The command may not be there.
Spawn ==
    /\ phase = "spawn"
    /\ \/ plugin' = "up" /\ phase' = "initialize"
       \/ CloseStdio
    /\ UNCHANGED <<transport, stubborn, toolUses, answers, expired, abandoned>>

\* initialize and tools/list on the plugin's stdin and stdout; one that has
\* exited fails them.
Handshake ==
    /\ \/ plugin = "up" /\ phase = "initialize" /\ MovesTo("discover")
       \/ plugin = "up" /\ phase = "discover" /\ MovesTo("model")
       \/ phase \in {"initialize", "discover"} /\ CloseStdio
    /\ UNCHANGED <<transport, stubborn, toolUses, answers, expired, abandoned>>

\* messages.create: the model uses tools, or it is done, or the call fails.
ModelAnswers ==
    /\ phase = "model"
    /\ \/ answers' = answers + 1 /\ toolUses' \in 1 .. MaxToolUses /\ MovesTo("tools")
       \/ answers' = answers + 1 /\ UNCHANGED toolUses /\ CloseStdio
       \/ UNCHANGED <<answers, toolUses>> /\ CloseStdio
    /\ UNCHANGED <<transport, stubborn, expired, abandoned>>

\* One tool use after the other gets its result; after the last one the
\* model is asked again, at most MaxAgentTurns times.
ToolAnswers ==
    /\ phase = "tools"
    /\ toolUses' = toolUses - 1
    /\ IF toolUses' > 0 THEN MovesTo("tools")
       ELSE IF answers < MaxAgentTurns THEN MovesTo("model") ELSE CloseStdio
    /\ UNCHANGED <<transport, stubborn, answers, expired, abandoned>>

\* wait_for cancels the run, once.  asyncio itself kills a plugin that it is
\* just starting; close() is cancelled like everything else.
Deadline ==
    /\ phase \notin {"scheduled", "ended"} /\ ~expired
    /\ expired' = TRUE
    /\ IF phase = "wait" THEN MovesTo("ended") /\ abandoned' = TRUE
       ELSE CloseStdio /\ UNCHANGED abandoned
    /\ UNCHANGED <<transport, stubborn, toolUses, answers>>

PluginExits ==
    /\ plugin = "up" \/ (plugin = "told" /\ ~stubborn)
    /\ plugin' = "down"
    /\ UNCHANGED <<transport, stubborn, phase, toolUses, answers, expired, abandoned>>
\* close() sees the plugin go.
PluginReaped ==
    /\ phase = "wait" /\ plugin = "down"
    /\ MovesTo("ended")
    /\ UNCHANGED <<transport, stubborn, toolUses, answers, expired, abandoned>>
\* Mutant: who does not go within the five seconds is left.
KillNobody ==
    /\ phase = "wait" /\ plugin = "told"
    /\ MovesTo("ended")
    /\ UNCHANGED <<transport, stubborn, toolUses, answers, expired, abandoned>>
\* The five seconds have passed.
Kill ==
    /\ phase = "wait" /\ plugin = "told"
    /\ plugin' = "down" /\ phase' = "ended"
    /\ UNCHANGED <<transport, stubborn, toolUses, answers, expired, abandoned>>

FeedNext ==
    \/ StartRun \/ ListTools \/ Spawn \/ Handshake \/ ModelAnswers \/ ToolAnswers
    \/ Deadline \/ PluginExits \/ PluginReaped \/ Kill
-----------------------------------------------------------------------------
\* A run that has started ends, although servers, plugin and model may stay
\* silent, and no plugin outlives it, although it may ignore SIGTERM; but for
\* a run whose 60 seconds pass while close() waits for the plugin: there the
\* cancellation takes the place of the kill (_run_agent_loop's finally).
RunLeavesNothing ==
    phase # "scheduled" ~> phase = "ended" /\ (plugin \in {"none", "down"} \/ abandoned)
=============================================================================
