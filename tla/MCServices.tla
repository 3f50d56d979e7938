----------------------------- MODULE MCServices -----------------------------
(* The services beside the terminals, one at a time: a turn sent to an AI     *)
(* provider, the history it is built from, the action in its text, the        *)
(* commands an agent runs, plugins, MCP servers, where their tokens are kept, *)
(* the watchdog with its alerts, and the change of workspace (once with the   *)
(* server lists, once with the chats). They share no state; a behaviour is    *)
(* one of one part, with the others at rest.                                  *)

EXTENDS Streams, Messages, ActionText, AgentCommands, PluginHosts, McpServers, McpConfigs, Watchdog,
        Workspaces

(* Streams at rest shows the adapter of OpenAI. *)
ASSUME ServicesConstants == "openai" \in Providers

VARIABLE part

services ==
  <<streams, messages, actionText, agentCommands, plugin, mcp, configs, watchdog, workspaces, part>>

(* One of the initial states of each, with no turn to send. *)
StreamsAtRest ==
  /\ provider = "openai" /\ stage = "done" /\ attempt = 1
  /\ said = [Silence EXCEPT !.end = "completed"] /\ heard = Nothing
  /\ held = Empty /\ shown = Empty /\ answer = "end_turn" /\ learned = {}

ServicesInit ==
  /\ part \in {"streams", "messages", "actionText", "commands", "plugin", "mcp", "configs", "watchdog",
              "lists", "chats"}
  /\ IF part = "streams" THEN StreamsInit ELSE StreamsAtRest
  /\ MessagesInit /\ (part # "messages" => wire = "openai")
  /\ ActionTextInit
  /\ CommandsInit
  /\ PluginsInit
  /\ McpInit /\ (part # "mcp" => ~configured)
  /\ ConfigsInit /\ (part # "configs" => file = [target |-> CHOOSE t \in Targets : TRUE, token |-> None]
                                         /\ stored = NoServer)
  /\ WatchdogInit /\ (part # "watchdog" => Alive)
  /\ WorkspacesInit

ReadsChats(calls) == \E i \in DOMAIN calls : calls[i].kind = "list"

ServicesNext ==
  \/ part = "streams" /\ StreamsNext
     /\ UNCHANGED <<messages, actionText, agentCommands, plugin, mcp, configs, watchdog, workspaces, part>>
  \/ part = "messages" /\ MessagesNext
     /\ UNCHANGED <<streams, actionText, agentCommands, plugin, mcp, configs, watchdog, workspaces, part>>
  \/ part = "actionText" /\ ActionTextNext
     /\ UNCHANGED <<streams, messages, agentCommands, plugin, mcp, configs, watchdog, workspaces, part>>
  \/ part = "commands" /\ CommandsNext
     /\ UNCHANGED <<streams, messages, actionText, plugin, mcp, configs, watchdog, workspaces, part>>
  \/ part = "plugin" /\ PluginsNext
     /\ UNCHANGED <<streams, messages, actionText, agentCommands, mcp, configs, watchdog, workspaces, part>>
  \/ part = "mcp" /\ McpNext
     /\ UNCHANGED <<streams, messages, actionText, agentCommands, plugin, configs, watchdog, workspaces, part>>
  \/ part = "configs" /\ ConfigsNext
     /\ UNCHANGED <<streams, messages, actionText, agentCommands, plugin, mcp, watchdog, workspaces, part>>
  \/ part = "watchdog" /\ WatchdogNext
     /\ UNCHANGED <<streams, messages, actionText, agentCommands, plugin, mcp, configs, workspaces, part>>
  \/ part = "lists" /\ WorkspacesNext /\ view'.reply = view.reply /\ ~ReadsChats(toMain')
     /\ UNCHANGED <<streams, messages, actionText, agentCommands, plugin, mcp, configs, watchdog, part>>
  \/ part = "chats" /\ WorkspacesNext /\ past'.edits = 0 /\ ~view'.unlocking
     /\ UNCHANGED <<streams, messages, actionText, agentCommands, plugin, mcp, configs, watchdog, part>>

ServicesSpec ==
  /\ ServicesInit /\ [][ServicesNext]_services
  /\ StreamsFairness /\ CommandsFairness /\ PluginsFairness /\ McpFairness
  /\ WF_watchdog(part = "watchdog" /\ SentinelRuns) /\ WF_watchdog(part = "watchdog" /\ AppRuns)
  /\ WorkspacesFairness

--------------------------------------------------
(* Properties *)

(* Every variable of the nine parts keeps to the values the code gives it. *)
ServicesTypeOK ==
  /\ StreamsTypeOK /\ MessagesTypeOK /\ ActionTextTypeOK /\ CommandsTypeOK
  /\ PluginsTypeOK /\ McpTypeOK /\ ConfigsTypeOK /\ WatchdogTypeOK /\ WorkspacesTypeOK

(* PluginManager and McpManager: whatever starts, stops, crashes and          *)
(* roll-backs overlap, one process of a plugin and of a server is in use, and *)
(* what the rest of the program can reach is that one's (with the exception   *)
(* OneServer names).                                                          *)
OneOfEach == OneCopy /\ OneServer

(* Nothing that needs the user's consent happens without it: a plugin's       *)
(* terminal writes and an agent's commands.                                   *)
AskedFirst == WritesAsked /\ []CommandsAsked

(* What an agent shows is whole: the text around an action, and the output of *)
(* a command.                                                                 *)
ChatIntact == ActionKept /\ OutputShown

(* What a turn says is shown once, as the provider said it, and counts as an  *)
(* answer only when the provider ended it, as far as its adapter reads the    *)
(* end right (Complete).                                                      *)
TurnsTold == ToldOnce /\ WholeAnswers

(* Ocean Sentinel: the watchdog acts in time and only against an app that     *)
(* does not answer, and the windows show what it is in.                       *)
WatchedRight == KilledInTime /\ AlertsAgree

(* The history that goes out is one the provider accepts, thoughts included. *)
OnTheWire == AnsweredOnTheWire /\ ThoughtsGoBack

(* What belongs to one server or to one workspace is kept there: an MCP       *)
(* server's token, a workspace's server list and its chats; and the window    *)
(* and the main process agree on the workspace they are in.                   *)
KeptApart == TokensStay /\ ListsKept /\ InStep /\ ChatsStay

PluginCalls == INSTANCE Calls WITH
  Requests <- Invocations, Peers <- Hosts, call <- invocation, up <- {h \in Hosts : Reaches(h)}
ToolCallsOfAgents == INSTANCE Calls WITH
  Requests <- ToolCalls, Peers <- Clients, call <- toolCall, up <- {c \in Clients : Linked(c)}

(* PluginProcessHost.invoke and McpClient.sendRequest keep what Calls         *)
(* promises their callers.                                                    *)
CallsKept == PluginCalls!CallsSpec /\ ToolCallsOfAgents!CallsSpec

(* Nothing waits for ever: a turn, a command, a plugin, an MCP server, an app *)
(* in a freeze or a red alert, a change of workspace.                         *)
AllSettle == SwitchesEnd /\ TurnEnds /\ CommandsEnd /\ PluginsSettle /\ McpSettles /\ LockdownEnds
=============================================================================
