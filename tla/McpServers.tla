----------------------------- MODULE McpServers -----------------------------
(* One MCP server of the agent: McpManager.ts, which adds, starts, restarts   *)
(* and removes it, and McpClient.ts, the connection of each start. A start is *)
(* a client of its own. A promise that settles is resumed before the next     *)
(* event (Continue; Quiet holds the events back).                             *)

EXTENDS Naturals, FiniteSets

CONSTANTS
  Clients,   \* the starts of the server
  ToolCalls, \* calls of its tools by agents
  NoClient   \* no start

ASSUME McpConstants == NoClient \notin Clients

VARIABLES
  client,      \* each McpClient: how it was started and where its connect() is
  current,     \* clients.get(id)
  tools,       \* the client whose tools the registry holds (as a set)
  configured,  \* the server is in serverConfigs
  toolCall     \* each callTool

mcp == <<client, current, tools, configured, toolCall>>

Lists == {"tools", "resources", "prompts"}

(* `pending` holds the discovery requests without an answer; `found` says     *)
(* that tools/list has given tools.                                           *)
NewClient == [transport |-> "stdio", task |-> "start", stage |-> "new", proc |-> "none",
              connected |-> FALSE, stopping |-> FALSE, pending |-> {}, found |-> FALSE]

McpInit ==
  /\ client = [c \in Clients |-> NewClient]
  /\ current = NoClient /\ tools = {} /\ configured \in BOOLEAN
  /\ toolCall = [r \in ToolCalls |-> [stage |-> "idle", host |-> NoClient]]

(* connect() has settled and whoever awaits it has not been resumed yet: it   *)
(* resolved, did so for a connection that is gone ("cut"), or was rejected.   *)
Resuming(c) == client[c].stage \in {"discovered", "cut", "rejected"}
Quiet == \A c \in Clients : ~Resuming(c)

(* A request can be sent: a process with its stdin, or any HTTP client. *)
Linked(c) == client[c].proc = "up" \/ (client[c].transport = "http" /\ client[c].stage # "new")

--------------------------------------------------
(* McpClient *)

(* A slip: a connect that is waiting for the handshake is not told. *)
CleanedUpSilently(p) ==
  [p EXCEPT !.connected = FALSE, !.proc = IF @ = "up" THEN "ending" ELSE @, !.pending = {},
            !.stage = IF @ \in {"discovery", "discovered"} THEN "cut" ELSE @]

(* cleanup: the process is told to end and every request that is pending      *)
(* fails. A handshake that fails rejects connect(); a list that fails is an   *)
(* empty one, so connect() resolves, with the tools if they had come.         *)
CleanedUp(p) ==
  [p EXCEPT !.connected = FALSE, !.proc = IF @ = "up" THEN "ending" ELSE @, !.pending = {},
            !.stage = CASE @ = "handshake" -> "rejected"
                        [] @ \in {"discovery", "discovered"} -> "cut"
                        [] OTHER -> @]

Disconnected(p) == [CleanedUp(p) EXCEPT !.stopping = TRUE]

(* A connection that fails right after the answer to its handshake: connect() *)
(* goes on, has itself for connected and finds nothing.                       *)
Greeted(p) == [Disconnected(p) EXCEPT !.connected = TRUE, !.stage = "cut"]

(* A slip: the calls of a connection that is gone are left to their timers. *)
NoCallFails(cs) == UNCHANGED toolCall

(* Every request of these connections fails with them. *)
FailCallsOf(cs) ==
  toolCall' = [r \in ToolCalls |->
    IF toolCall[r].stage = "open" /\ toolCall[r].host \in cs
    THEN [toolCall[r] EXCEPT !.stage = "failed"] ELSE toolCall[r]]

HandshakeDone(c) ==
  /\ Quiet /\ client[c].stage = "handshake" /\ Linked(c)
  /\ client' = [client EXCEPT ![c].stage = "discovery", ![c].connected = TRUE, ![c].pending = Lists]
  /\ UNCHANGED <<current, tools, configured, toolCall>>

(* A refusal, the timer, or a process that cannot be spawned. *)
HandshakeFails(c) ==
  /\ Quiet /\ client[c].stage = "handshake"
  /\ client' = [client EXCEPT ![c] = CleanedUp(@)]
  /\ UNCHANGED <<current, tools, configured, toolCall>>

(* One list is there, or empty for want of an answer; connect() resolves with *)
(* the last.                                                                  *)
ListSettles(c, l) ==
  /\ Quiet /\ client[c].stage = "discovery" /\ l \in client[c].pending
  /\ \E some \in {FALSE, l = "tools"} :
       client' = [client EXCEPT ![c].pending = @ \ {l}, ![c].found = @ \/ some,
                                ![c].stage = IF client[c].pending = {l} THEN "discovered" ELSE @]
  /\ UNCHANGED <<current, tools, configured, toolCall>>

(* The manager hears 'disconnected' of the client it still holds. *)
ToolsWithout(c) == tools \ (IF current = c THEN {c} ELSE {})

(* The process exits by itself; connect(), if it still runs, is rejected. *)
Exited(p) ==
  [p EXCEPT !.proc = "gone", !.connected = FALSE, !.pending = {},
            !.stage = IF @ \in {"handshake", "discovery"} THEN "rejected" ELSE @]

Exits(c) ==
  /\ Quiet /\ client[c].proc = "up"
  /\ client' = [client EXCEPT ![c] = Exited(@)]
  /\ tools' = ToolsWithout(c) /\ FailCallsOf({c})
  /\ UNCHANGED <<current, configured>>

(* Nothing is waiting, or only a connect() whose last list came in the same   *)
(* piece of the server's output.                                              *)
Hearing(c) == \A d \in Clients : Resuming(d) => d = c /\ client[d].stage = "discovered"

(* A slip: the manager is not told. *)
FailProtocolQuietly(c) ==
  /\ Hearing(c) /\ client[c].proc = "up"
  /\ client' = [client EXCEPT ![c] = Disconnected(@)]
  /\ FailCallsOf({c})
  /\ UNCHANGED <<current, tools, configured>>

(* failProtocol: too much output, a failed write, a server that does not read *)
(* its input.                                                                 *)
FailProtocol(c) ==
  /\ Hearing(c) /\ client[c].proc = "up"
  /\ \/ client' = [client EXCEPT ![c] = Disconnected(@)]
     \/ client[c].stage = "handshake" /\ client' = [client EXCEPT ![c] = Greeted(@)]
  /\ tools' = ToolsWithout(c) /\ FailCallsOf({c})
  /\ UNCHANGED <<current, configured>>

(* The process that was told to end is gone. *)
ProcessCloses(c) ==
  /\ client[c].proc = "ending"
  /\ client' = [client EXCEPT ![c].proc = "gone"]
  /\ UNCHANGED <<current, tools, configured, toolCall>>

--------------------------------------------------
(* callTool *)

Callable(c) == client[c].transport = "http" \/ (client[c].connected /\ client[c].proc = "up")

(* By an agent that has the tool, maybe of a client that has stopped. *)
CallTool(r, c) ==
  /\ Quiet /\ toolCall[r].stage = "idle"
  /\ client[c].stage \in {"started", "adrift"} /\ client[c].found
  /\ toolCall' = [toolCall EXCEPT ![r] = [stage |-> IF Callable(c) THEN "open" ELSE "failed", host |-> c]]
  /\ UNCHANGED <<client, current, tools, configured>>

(* handleMessage finds the request by its id. *)
CallAnswered(r) ==
  /\ Quiet /\ toolCall[r].stage = "open" /\ Linked(toolCall[r].host)
  /\ \E end \in {"answered", "failed"} : toolCall' = [toolCall EXCEPT ![r].stage = end]
  /\ UNCHANGED <<client, current, tools, configured>>

CallTimesOut(r) ==
  /\ Quiet /\ toolCall[r].stage = "open"
  /\ toolCall' = [toolCall EXCEPT ![r].stage = "failed"]
  /\ UNCHANGED <<client, current, tools, configured>>

--------------------------------------------------
(* McpManager *)

(* stopServer; `next` is the client that takes the stopped one's place. *)
StopServer(clients, next) ==
  /\ client' = [c \in Clients |-> IF c = current THEN Disconnected(clients[c]) ELSE clients[c]]
  /\ current' = next /\ tools' = {}
  /\ FailCallsOf({current})

(* addServer starts a server that is new; updateServer, init and a restart    *)
(* one that is configured.                                                    *)
StartServer(c) ==
  /\ Quiet /\ client[c].stage = "new"
  /\ \E transport \in {"stdio", "http"}, task \in {"add", "start"} :
       /\ configured = (task = "start")
       /\ StopServer([client EXCEPT ![c] =
            [NewClient EXCEPT !.transport = transport, !.task = task, !.stage = "handshake",
                              !.proc = IF transport = "stdio" THEN "up" ELSE "none"]], c)
  /\ configured' = TRUE

(* removeServer, a server that is disabled, stopAll. *)
Stop ==
  /\ Quiet /\ configured
  /\ StopServer(client, NoClient)
  /\ configured' \in BOOLEAN

(* The end of startServer: a connection that was superseded is closed; tools  *)
(* are registered, or the client is ended if they cannot be. A client whose   *)
(* connection was cut is the current one all the same ("adrift").             *)
StartEnds(c) ==
  /\ client[c].stage \in {"discovered", "cut"}
  /\ \/ /\ current = c
        /\ client' = [client EXCEPT ![c].stage = IF @ = "cut" THEN "adrift" ELSE "started"]
        /\ tools' = IF client[c].found THEN {c} ELSE {}
     \/ /\ current = c /\ client[c].found
        /\ client' = [client EXCEPT ![c] = [Disconnected(@) EXCEPT !.stage = "rejected"]]
        /\ tools' = {}
     \/ /\ current # c
        /\ client' = [client EXCEPT ![c] = [Disconnected(@) EXCEPT !.stage = "rejected"]]
        /\ UNCHANGED tools
  /\ UNCHANGED <<current, configured, toolCall>>

(* A failed start: addServer stops the server and takes it out again. *)
StartFails(c) ==
  /\ client[c].stage = "rejected"
  /\ LET failed == [client EXCEPT ![c].stage = "failed"] IN
       IF client[c].task = "add"
       THEN /\ StopServer(failed, NoClient) /\ configured' = FALSE
       ELSE /\ client' = failed /\ UNCHANGED <<current, tools, configured, toolCall>>

Continue(c) == StartEnds(c) \/ StartFails(c)

McpNext ==
  \/ \E c \in Clients, l \in Lists : ListSettles(c, l)
  \/ \E c \in Clients : StartServer(c) \/ HandshakeDone(c) \/ HandshakeFails(c) \/ Exits(c)
                        \/ FailProtocol(c) \/ ProcessCloses(c) \/ Continue(c)
  \/ \E r \in ToolCalls : CallAnswered(r) \/ CallTimesOut(r) \/ \E c \in Clients : CallTool(r, c)
  \/ Stop

(* Requests have timers, promises are resumed, killed processes end. *)
McpFairness ==
  WF_mcp(\/ \E c \in Clients, l \in Lists : ListSettles(c, l)
         \/ \E c \in Clients : HandshakeFails(c) \/ Continue(c) \/ ProcessCloses(c)
         \/ \E r \in ToolCalls : CallTimesOut(r))

McpSpec == McpInit /\ [][McpNext]_mcp /\ McpFairness

--------------------------------------------------
(* Properties *)

McpTypeOK ==
  /\ client \in [Clients -> [transport : {"stdio", "http"}, task : {"add", "start"},
       stage : {"new", "handshake", "discovery", "discovered", "cut", "rejected", "started", "adrift", "failed"},
       proc : {"none", "up", "ending", "gone"}, connected : BOOLEAN, stopping : BOOLEAN,
       pending : SUBSET Lists, found : BOOLEAN]]
  /\ current \in Clients \union {NoClient} /\ tools \subseteq Clients /\ configured \in BOOLEAN
  /\ toolCall \in [ToolCalls -> [stage : {"idle", "open", "answered", "failed"}, host : Clients \union {NoClient}]]

(* One connection per server: through overlapping starts, stops, exits and    *)
(* roll-backs, a server process that was not told to end is the current       *)
(* client's, a server that was removed has none, and the agent's tools are    *)
(* the current client's, and it is connected. One exception: connect() also   *)
(* resolves for a connection that failed after tools/list was answered and    *)
(* before the other lists were, and the tools of that client are registered.  *)
OneServer ==
  /\ \A c \in Clients : client[c].proc = "up" => current = c
  /\ Quiet /\ ~configured => current = NoClient
  /\ tools # {} => tools = {current} /\ (client[current].connected \/ client[current].stage = "adrift")

(* Every start of a server and every call of a tool comes to an end, and so   *)
(* does a process that was told to. (Each is used once.)                      *)
McpSettles ==
  []<>(/\ \A c \in Clients : client[c].stage \in {"new", "started", "adrift", "failed"} /\ client[c].proc # "ending"
       /\ \A r \in ToolCalls : toolCall[r].stage # "open")

=============================================================================
