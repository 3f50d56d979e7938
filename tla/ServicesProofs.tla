--------------------------- MODULE ServicesProofs ---------------------------
(* The services, part by part and then together. For any number of starts,    *)
(* deactivations and calls of a plugin, and of starts and calls of an MCP     *)
(* server: one process of each is in use, what is registered is that one's,   *)
(* and every step of the managers is one that Calls allows. For any commands  *)
(* of an agent: none runs without the user's approval, and the chat gets the  *)
(* output of each. For any text of an agent, the action in it is cut out      *)
(* exactly; the token of an MCP server goes to that server only; and for any  *)
(* rounds and calls the history a provider gets answers each call. A step     *)
(* of the program is a step of one part and leaves the others alone, so what  *)
(* is proved of each part's steps holds of every behaviour of ServicesSpec.   *)

EXTENDS MCServices, WorkspacesProofs, FiniteSetTheorems, SequenceTheorems, WellFoundedInduction, TLAPS

--------------------------------------------------
(* Plugins: PluginManager.ts, PluginProcessHost.ts *)

(* A call that waits was made to a process. *)
CallsHaveHosts == \A i \in Invocations : invocation[i].stage = "open" => invocation[i].host \in Hosts

Host == [child : {"none", "up", "gone"}, activation : {"none", "waiting", "done", "failed"},
         ending : BOOLEAN, shutting : BOOLEAN]
CallRec == [stage : {"idle", "open", "answered", "failed"}, host : Hosts \union {NoHost}]

PlugTypes ==
  /\ host \in [Hosts -> Host]
  /\ running \in Hosts \union {NoHost}
  /\ stopper \in [Stoppers -> [stage : {"idle", "asked", "exiting", "done"}, host : Hosts \union {NoHost}]]
  /\ invocation \in [Invocations -> CallRec]

PluginInv == PlugTypes /\ CallsHaveHosts /\ OneCopy

--------------------------------------------------
(* A process that was killed stays a process and cannot be reached. *)
LEMMA KilledIsDeaf ==
  ASSUME NEW p \in Host
  PROVE  /\ Killed(p) \in Host /\ ~(Killed(p).child = "up" /\ ~Killed(p).ending)
         /\ Rejected(p) \in Host /\ Rejected(p).child = p.child /\ Rejected(p).ending = p.ending
         /\ AllFailed(p) \in Host /\ AllFailed(p).child = p.child /\ AllFailed(p).ending = p.ending
BY DEF Killed, AllFailed, Rejected, Host

(* Failing the calls of some processes leaves calls. *)
LEMMA FailCallsTypes ==
  ASSUME PluginInv, NEW hs, FailCalls(hs)
  PROVE  invocation' \in [Invocations -> CallRec] /\ CallsHaveHosts'
BY DEF PluginInv, PlugTypes, CallsHaveHosts, FailCalls, CallRec

(* What the operations on an entry have in common: the processes they kill    *)
(* or lose cannot be reached afterwards, and the calls to them fail.          *)
LEMMA GiveUpKeeps ==
  ASSUME PluginInv, NEW h \in Hosts, GiveUp(h)
  PROVE  /\ host' \in [Hosts -> Host] /\ running' \in Hosts \union {NoHost} /\ OneCopy'
         /\ \A g \in Hosts : Reaches(g)' <=> Reaches(g) /\ g # h
         /\ FailCalls({h})
<1>1. host' = [host EXCEPT ![h] = Killed(Rejected(host[h]))] /\ host \in [Hosts -> Host] /\ FailCalls({h})
 BY DEF GiveUp, PluginInv, PlugTypes
<1>2. /\ Killed(Rejected(host[h])) \in Host
      /\ ~(Killed(Rejected(host[h])).child = "up" /\ ~Killed(Rejected(host[h])).ending)
 BY <1>1, KilledIsDeaf
<1>3. host' \in [Hosts -> Host] /\ \A g \in Hosts : Reaches(g)' <=> Reaches(g) /\ g # h
 BY <1>1, <1>2 DEF Reaches
<1>4. running' \in Hosts \union {NoHost} /\ OneCopy'
 BY <1>3, PluginConstants DEF GiveUp, ForgetEntry, manager, PluginInv, PlugTypes, OneCopy
<1> QED BY <1>1, <1>3, <1>4

LEMMA CleanUpKeeps ==
  ASSUME PluginInv, CleanUp
  PROVE  /\ host' \in [Hosts -> Host] /\ running' \in Hosts \union {NoHost} /\ OneCopy'
         /\ \A g \in Hosts : ~Reaches(g)'
<1>1. \A h \in Hosts : host'[h] = IF h = running THEN Killed(host[h]) ELSE host[h]
 BY DEF CleanUp
<1>2. host' \in [Hosts -> Host] BY KilledIsDeaf DEF CleanUp, PluginInv, PlugTypes
<1>3. \A g \in Hosts : ~Reaches(g)'
 BY <1>1, KilledIsDeaf DEF Reaches, PluginInv, PlugTypes, OneCopy
<1> QED BY <1>2, <1>3 DEF CleanUp, ForgetEntry, PluginInv, PlugTypes, OneCopy

--------------------------------------------------
(* One step *)

LEMMA PluginInitInv == PluginsInit => PluginInv
BY DEF PluginsInit, PluginInv, PlugTypes, CallsHaveHosts, OneCopy, New, NoCall, Host, CallRec, Reaches

(* A step keeps the invariant: one step of the proof for each of the manager's. *)
LEMMA PluginNextInv == ASSUME PluginInv, PluginsNext PROVE PluginInv'
<1> USE DEF PluginInv
<1>t. /\ host \in [Hosts -> Host] /\ running \in Hosts \union {NoHost} /\ OneCopy
      /\ stopper \in [Stoppers -> [stage : {"idle", "asked", "exiting", "done"}, host : Hosts \union {NoHost}]]
      /\ invocation \in [Invocations -> CallRec] /\ CallsHaveHosts
 BY DEF PlugTypes
<1>1. ASSUME NEW h \in Hosts, Start(h) PROVE PluginInv'
 <2>1. \A g \in Hosts : host'[g] = IF g = h THEN [New EXCEPT !.child = "up", !.activation = "waiting"]
                                   ELSE IF g = running THEN Killed(host[g]) ELSE host[g]
  BY <1>1 DEF Start
 <2>2. host' \in [Hosts -> Host] BY <1>1, <1>t, KilledIsDeaf DEF Start, New, Host
 <2>3. \A g \in Hosts : Reaches(g)' => g = h BY <2>1, <1>t, KilledIsDeaf DEF Reaches, OneCopy
 <2>4. OneCopy' BY <1>1, <1>t, <2>3 DEF Start, OneCopy
 <2> QED BY <1>1, <1>t, <2>2, <2>4, FailCallsTypes DEF Start, PlugTypes
<1>2. ASSUME NEW h \in Hosts, GiveUp(h), UNCHANGED stopper PROVE PluginInv'
 BY <1>2, <1>t, GiveUpKeeps, FailCallsTypes DEF PlugTypes
<1>3. ASSUME NEW h \in Hosts, Activated(h), ~GiveUp(h) PROVE PluginInv'
 <2>1. /\ running = h /\ host' = [host EXCEPT ![h].activation = "done"]
       /\ handlers' = handlers \union {h} /\ UNCHANGED <<running, listeners, invocation, stopper>>
  BY <1>3 DEF Activated
 <2>2. [host[h] EXCEPT !.activation = "done"] \in Host BY <1>t DEF Host
 <2>3. host' \in [Hosts -> Host] BY <2>1, <2>2, <1>t
 <2>4. \A g \in Hosts : Reaches(g)' <=> Reaches(g) BY <2>1, <1>t DEF Host, Reaches
 <2>5. OneCopy' BY <2>1, <2>4, <1>t, <1>3 DEF OneCopy, Activated
 <2> QED BY <2>1, <2>3, <2>5, <1>t DEF PlugTypes, CallsHaveHosts
<1>4. ASSUME NEW h \in Hosts, Violates(h), ~GiveUp(h) PROVE PluginInv'
 <2>1. host' = [host EXCEPT ![h] = Killed(host[h])] /\ FailCalls({h}) /\ UNCHANGED <<manager, stopper>>
  BY <1>4 DEF Violates
 <2>2. host' \in [Hosts -> Host] /\ \A g \in Hosts : Reaches(g)' => Reaches(g)
  BY <2>1, <1>t, KilledIsDeaf DEF Reaches
 <2> QED BY <2>1, <2>2, <1>t, FailCallsTypes DEF PlugTypes, OneCopy, manager
<1>5. ASSUME NEW h \in Hosts, Closed(h) PROVE PluginInv'
 <2>1. host' = [host EXCEPT ![h] = AllFailed([host[h] EXCEPT !.child = "gone", !.ending = FALSE])]
  BY <1>5 DEF Closed
 <2>2. PICK p \in Host : /\ p = [host[h] EXCEPT !.child = "gone", !.ending = FALSE]
                         /\ p.child = "gone"
  <3>1. [host[h] EXCEPT !.child = "gone", !.ending = FALSE] \in Host
   BY ZenonT(60), <1>t DEF Host
  <3>2. [host[h] EXCEPT !.child = "gone", !.ending = FALSE].child = "gone" BY <1>t DEF Host
  <3> QED BY <3>1, <3>2
 <2>3. host' \in [Hosts -> Host] /\ \A g \in Hosts : Reaches(g)' => Reaches(g) /\ g # h
  <3>1. AllFailed(p) \in Host /\ AllFailed(p).child = "gone" BY <2>2, KilledIsDeaf
  <3> QED BY <2>1, <2>2, <3>1, <1>t DEF Reaches
 <2>4. OneCopy' /\ running' \in Hosts \union {NoHost}
  BY <1>5, <2>3, <1>t DEF Closed, ForgetEntry, manager, OneCopy
 <2> QED BY <1>5, <2>3, <2>4, <1>t, FailCallsTypes DEF Closed, PlugTypes
<1>6. ASSUME NEW i \in Invocations, NEW h \in Hosts, Invoke(i, h) PROVE PluginInv'
 BY <1>6, <1>t DEF Invoke, manager, PlugTypes, OneCopy, CallsHaveHosts, CallRec, Reaches
<1>7. ASSUME NEW i \in Invocations, InvokeAnswered(i) \/ InvokeTimesOut(i) PROVE PluginInv'
 BY <1>7, <1>t DEF InvokeAnswered, InvokeTimesOut, manager, PlugTypes, OneCopy, CallsHaveHosts, CallRec, Reaches
<1>8. ASSUME NEW s \in Stoppers, Deactivate(s) PROVE PluginInv'
 <2>1. CASE Reaches(running)
  <3>1. /\ running \in Hosts /\ host' = [host EXCEPT ![running].shutting = TRUE]
        /\ stopper' = [stopper EXCEPT ![s] = [stage |-> "asked", host |-> running]]
        /\ UNCHANGED <<manager, invocation>>
   BY <1>8, <2>1, <1>t DEF Deactivate
  <3>2. host' \in [Hosts -> Host] /\ \A g \in Hosts : Reaches(g)' <=> Reaches(g)
   BY ZenonT(60), <3>1, <1>t DEF Host, Reaches
  <3> QED BY <3>1, <3>2, <1>t DEF manager, PlugTypes, OneCopy, CallsHaveHosts
 <2>2. CASE ~Reaches(running)
  <3>1. CleanUp /\ stopper' = [stopper EXCEPT ![s] = [stage |-> "done", host |-> running]]
   BY <1>8, <2>2 DEF Deactivate
  <3> QED BY <3>1, <1>t, CleanUpKeeps, FailCallsTypes DEF CleanUp, PlugTypes
 <2> QED BY <2>1, <2>2
<1>9. ASSUME NEW s \in Stoppers, ShutdownAnswered(s) PROVE PluginInv'
 BY <1>9, <1>t DEF ShutdownAnswered, manager, PlugTypes, OneCopy, CallsHaveHosts, Reaches
<1>10. ASSUME NEW s \in Stoppers, Deactivated(s) PROVE PluginInv'
 <2>1. \A h \in Hosts : host'[h] = IF h \in {running, stopper[s].host} THEN Killed(host[h]) ELSE host[h]
  BY <1>10 DEF Deactivated
 <2>2. host' \in [Hosts -> Host] BY <1>10, <1>t, KilledIsDeaf DEF Deactivated
 <2>3. \A g \in Hosts : ~Reaches(g)' BY <2>1, <1>t, KilledIsDeaf DEF Reaches, OneCopy
 <2>4. OneCopy' BY <1>10, <2>3, <1>t DEF Deactivated, ForgetEntry, OneCopy
 <2> QED BY <1>10, <2>2, <2>4, <1>t, FailCallsTypes DEF Deactivated, ForgetEntry, PlugTypes
<1>11. CASE ForceKill
 BY <1>11, <1>t, CleanUpKeeps, FailCallsTypes DEF ForceKill, CleanUp, PlugTypes
<1>12. ASSUME NEW h \in Hosts, Subscribe(h) \/ Unsubscribe(h) PROVE PluginInv'
 BY <1>12, <1>t DEF Subscribe, Unsubscribe, Serves, PlugTypes, OneCopy, CallsHaveHosts, Reaches
<1>13. ASSUME \/ \E w \in Writes, h \in Hosts : SshWrite(w, h)
              \/ Deny \/ AllowOnce \/ AllowRun
       PROVE  PluginInv'
 BY <1>13, <1>t DEF SshWrite, Deny, AllowOnce, AllowRun, manager, PlugTypes, OneCopy, CallsHaveHosts, Reaches
<1> QED BY <1>1, <1>2, <1>3, <1>4, <1>5, <1>6, <1>7, <1>8, <1>9, <1>10, <1>11, <1>12, <1>13
        DEF PluginsNext, Activated, ActivationTimesOut, Violates

--------------------------------------------------
(* Calls *)

(* The processes that can be written to, as Calls sees them. *)
Up == {h \in Hosts : Reaches(h)}

(* When only processes whose calls fail are lost, Calls allows the step. *)
LEMMA ProcessLostWithItsCalls ==
  ASSUME PluginInv, NEW hs, FailCalls(hs), \A h \in Hosts : Reaches(h) => Reaches(h)' \/ h \in hs
  PROVE  PluginCalls!Change
<1>1. Up' \subseteq Hosts /\ Up \ Up' \subseteq hs \intersect Hosts BY DEF Up
<1>2. invocation' = [i \in Invocations |->
        IF invocation[i].stage = "open" /\ invocation[i].host \in hs \intersect Hosts
        THEN [invocation[i] EXCEPT !.stage = "failed"] ELSE invocation[i]]
 BY DEF FailCalls, PluginInv, CallsHaveHosts
<1> QED BY <1>1, <1>2 DEF PluginCalls!Change, Up

LEMMA PluginStepIsCalls ==
  ASSUME PluginInv, PluginsNext
  PROVE  PluginCalls!CallsNext \/ UNCHANGED PluginCalls!calling
<1> USE DEF PluginInv
<1>t. /\ host \in [Hosts -> Host] /\ OneCopy /\ invocation \in [Invocations -> CallRec]
 BY DEF PlugTypes
<1>1. ASSUME NEW h \in Hosts, Start(h) PROVE PluginCalls!Change
 <2>1. \A g \in Hosts : Reaches(g) => g = running BY <1>t DEF OneCopy
 <2> QED BY <1>1, <2>1, ProcessLostWithItsCalls DEF Start
<1>2. ASSUME NEW h \in Hosts, GiveUp(h) PROVE PluginCalls!Change
 BY <1>2, GiveUpKeeps, ProcessLostWithItsCalls
<1>3. ASSUME NEW h \in Hosts, Activated(h), ~GiveUp(h) PROVE UNCHANGED PluginCalls!calling
 <2>1. host' = [host EXCEPT ![h].activation = "done"] /\ UNCHANGED invocation
  BY <1>3 DEF Activated
 <2> QED BY <2>1, <1>t DEF PluginCalls!calling, Reaches, Host
<1>4. ASSUME NEW h \in Hosts, Violates(h) \/ Closed(h), ~GiveUp(h) PROVE PluginCalls!Change
 <2>1. FailCalls({h}) /\ \A g \in Hosts : g # h => host'[g] = host[g]
  BY <1>4, <1>t DEF Violates, Closed
 <2> QED BY <2>1, ProcessLostWithItsCalls DEF Reaches
<1>5. ASSUME NEW i \in Invocations, NEW h \in Hosts, Invoke(i, h) PROVE PluginCalls!Make(i, h)
 BY <1>5 DEF Invoke, PluginCalls!Make, Reaches
<1>6. ASSUME NEW i \in Invocations, InvokeAnswered(i) \/ InvokeTimesOut(i) PROVE PluginCalls!Settle(i)
 BY <1>6 DEF InvokeAnswered, InvokeTimesOut, PluginCalls!Settle, Reaches
<1>7. ASSUME CleanUp PROVE PluginCalls!Change
 <2>1. \A g \in Hosts : Reaches(g) => g = running BY <1>t DEF OneCopy
 <2> QED BY <1>7, <2>1, ProcessLostWithItsCalls DEF CleanUp
<1>8. ASSUME NEW s \in Stoppers, Deactivate(s), ~CleanUp PROVE UNCHANGED PluginCalls!calling
 <2>1. host' = [host EXCEPT ![running].shutting = TRUE] /\ UNCHANGED invocation
  BY <1>8 DEF Deactivate
 <2> QED BY <2>1, <1>t DEF PluginCalls!calling, Reaches, Host
<1>9. ASSUME NEW s \in Stoppers, Deactivated(s) PROVE PluginCalls!Change
 <2>1. FailCalls({running, stopper[s].host}) /\ \A g \in Hosts : Reaches(g) => g = running
  BY <1>9, <1>t DEF Deactivated, OneCopy
 <2> QED BY <2>1, ProcessLostWithItsCalls
<1>10. ASSUME UNCHANGED <<host, invocation>> PROVE UNCHANGED PluginCalls!calling
 BY <1>10 DEF PluginCalls!calling, Reaches
<1> QED BY <1>1, <1>2, <1>3, <1>4, <1>5, <1>6, <1>7, <1>8, <1>9, <1>10
DEF PluginsNext, PluginCalls!CallsNext, Activated, ActivationTimesOut, Violates, Deactivate,
    ForceKill, ShutdownAnswered, Subscribe, Unsubscribe, SshWrite, Deny, AllowOnce, AllowRun

--------------------------------------------------
(* Theorems *)

(* PluginManager.ts: the invariant above holds for any number of starts,      *)
(* deactivations, calls and writes, whatever overlaps.                        *)
THEOREM PluginInvariant == PluginsSpec => []PluginInv
<1>1. PluginInv /\ [PluginsNext]_plugin => PluginInv'
 <2>1. ASSUME PluginInv, UNCHANGED plugin PROVE PluginInv'
  BY <2>1 DEF plugin, PluginInv, PlugTypes, CallsHaveHosts, OneCopy, Reaches
 <2> QED BY <2>1, PluginNextInv
<1> QED BY <1>1, PluginInitInv, PTL DEF PluginsSpec

(* Only the process runningPlugins names can be talked to, and every handler  *)
(* and every listener is that process's.                                      *)
THEOREM PluginOneCopy == PluginsSpec => []OneCopy
<1>1. PluginInv => OneCopy BY DEF PluginInv
<1> QED BY <1>1, PluginInvariant, PTL

(* PluginProcessHost.invoke: a call is settled once, and a process that is    *)
(* lost takes all of its calls with it in the same step.                      *)
THEOREM PluginsImplementCalls == PluginsSpec => PluginCalls!CallsSafe
<1>1. PluginsInit => PluginCalls!CallsInit
 BY DEF PluginsInit, PluginCalls!CallsInit, New, NoCall, Reaches
<1>2. PluginInv /\ [PluginsNext]_plugin => [PluginCalls!CallsNext]_PluginCalls!calling
 <2>1. ASSUME UNCHANGED plugin PROVE UNCHANGED PluginCalls!calling
  BY <2>1 DEF plugin, PluginCalls!calling, Reaches
 <2> QED BY <2>1, PluginStepIsCalls
<1> QED BY <1>1, <1>2, PluginInvariant, PTL DEF PluginsSpec, PluginCalls!CallsSafe

--------------------------------------------------
(* MCP servers: McpManager.ts, McpClient.ts *)

Client == [transport : {"stdio", "http"}, task : {"add", "start"},
           stage : {"new", "handshake", "discovery", "discovered", "cut", "rejected", "started", "adrift", "failed"},
           proc : {"none", "up", "ending", "gone"}, connected : BOOLEAN, stopping : BOOLEAN,
           pending : SUBSET Lists, found : BOOLEAN]
ToolCall == [stage : {"idle", "open", "answered", "failed"}, host : Clients \union {NoClient}]

McpTypes ==
  /\ client \in [Clients -> Client]
  /\ current \in Clients \union {NoClient} /\ configured \in BOOLEAN
  /\ toolCall \in [ToolCalls -> ToolCall]

(* What the stage of a client says of its process: a local one is connected   *)
(* from the handshake on for as long as its process can be written to, unless *)
(* the connection failed right after the handshake.                           *)
InStage(p) ==
  /\ p.proc = "up" => p.transport = "stdio" /\ (p.connected \/ p.stage = "handshake")
  /\ p.transport = "stdio" /\ (p.stage = "handshake" \/ (p.connected /\ p.stage \notin {"cut", "adrift"}))
       => p.proc = "up"
  /\ p.stage = "new" => p = NewClient

(* The stages of a client whose start has gone well. *)
Ready == {"started", "adrift"}

(* The client the manager holds: connected while it looks the tools up and    *)
(* once they are registered, if its connection was not cut meanwhile.         *)
HeldInv ==
  /\ \A c \in Clients : client[c].proc = "up" => current = c
  /\ current \in Clients =>
       /\ client[current].stage # "new"
       /\ client[current].stage \in {"discovery", "discovered"} => client[current].connected
  /\ ~configured => current = NoClient
  /\ tools # {} => /\ tools = {current} /\ current \in Clients
                   /\ \/ client[current].stage = "started" /\ client[current].connected
                      \/ client[current].stage = "adrift"

(* A call was made to a client that had started. *)
CallsOfStarted ==
  \A r \in ToolCalls : toolCall[r].stage = "open" =>
    toolCall[r].host \in Clients /\ client[toolCall[r].host].stage \in Ready

McpInv ==
  /\ McpTypes /\ HeldInv /\ CallsOfStarted
  /\ \A c \in Clients : InStage(client[c])

--------------------------------------------------
(* A client that is told to end, whatever it was doing. *)
LEMMA CleanedUpEnds ==
  ASSUME NEW p \in Client, InStage(p)
  PROVE  /\ CleanedUp(p) \in Client /\ Disconnected(p) \in Client
         /\ p.stage # "new" => InStage(CleanedUp(p)) /\ InStage(Disconnected(p))
         /\ CleanedUp(p).proc # "up" /\ Disconnected(p).proc # "up"
         /\ ~CleanedUp(p).connected /\ ~Disconnected(p).connected
         /\ CleanedUp(p).transport = p.transport /\ Disconnected(p).transport = p.transport
         /\ CleanedUp(p).stage = Disconnected(p).stage
         /\ p.stage = "handshake" => CleanedUp(p).stage = "rejected"
         /\ p.stage \in {"discovery", "discovered"} => CleanedUp(p).stage = "cut"
         /\ p.stage \notin {"handshake", "discovery", "discovered"} => CleanedUp(p).stage = p.stage
<1> DEFINE q == [p EXCEPT !.connected = FALSE, !.proc = IF p.proc = "up" THEN "ending" ELSE p.proc, !.pending = {},
            !.stage = CASE p.stage = "handshake" -> "rejected"
                        [] p.stage \in {"discovery", "discovered"} -> "cut" [] OTHER -> p.stage]
<1>1. CleanedUp(p) = q BY DEF CleanedUp
<1>2. /\ q \in Client /\ ~q.connected /\ q.transport = p.transport /\ q.proc # "up"
      /\ p.stage = "handshake" => q.stage = "rejected"
      /\ p.stage \in {"discovery", "discovered"} => q.stage = "cut"
      /\ p.stage \notin {"handshake", "discovery", "discovered"} => q.stage = p.stage
      /\ [q EXCEPT !.stopping = TRUE] \in Client
 BY DEF Client
<1> HIDE DEF q
<1> DEFINE d == [q EXCEPT !.stopping = TRUE]
<1>3. /\ d.stage = q.stage /\ d.proc = q.proc /\ d.connected = q.connected /\ d.transport = q.transport
 BY <1>2 DEF Client
<1>4. Disconnected(p) = d BY <1>1 DEF Disconnected
<1> HIDE DEF d
<1>5. p.stage # "new" => q.stage # "new" /\ q.stage # "handshake" BY <1>2 DEF Client
<1>6. p.stage # "new" => InStage(q) /\ InStage(d) BY <1>2, <1>3, <1>5 DEF InStage
<1>7. d \in Client BY <1>2 DEF d
<1> QED BY <1>1, <1>2, <1>3, <1>4, <1>6, <1>7

LEMMA GreetedEnds ==
  ASSUME NEW p \in Client, InStage(p)
  PROVE  /\ Greeted(p) \in Client /\ InStage(Greeted(p))
         /\ Greeted(p).proc # "up" /\ Greeted(p).stage = "cut"
<1>1. PICK d \in Client : d = Disconnected(p) /\ d.proc # "up" BY CleanedUpEnds
<1> DEFINE q == [d EXCEPT !.connected = TRUE, !.stage = "cut"]
<1>2. q \in Client /\ q.proc = d.proc /\ q.stage = "cut" BY DEF Client
<1>3. Greeted(p) = q BY <1>1 DEF Greeted
<1> HIDE DEF q
<1> QED BY <1>1, <1>2, <1>3 DEF InStage

LEMMA FailCallsOfTypes ==
  ASSUME McpInv, NEW cs, FailCallsOf(cs)
  PROVE  /\ toolCall' \in [ToolCalls -> ToolCall]
         /\ \A r \in ToolCalls : toolCall'[r].stage = "open" =>
              toolCall[r].stage = "open" /\ toolCall'[r].host = toolCall[r].host
BY DEF McpInv, McpTypes, FailCallsOf, ToolCall

LEMMA McpInitInv == McpInit => McpInv
BY McpConstants DEF McpInit, McpInv, McpTypes, HeldInv, CallsOfStarted, InStage, NewClient, Client, ToolCall, Lists

--------------------------------------------------
(* One step *)

(* A connection that fails by itself or is closed: the client stays in its    *)
(* place, its process is not up any more.                                     *)
LEMMA EndsInPlace ==
  ASSUME McpInv, NEW c \in Clients, client[c].stage # "new", NEW q \in Client,
         client' = [client EXCEPT ![c] = q], InStage(q), q.proc # "up",
         q.stage \notin {"new", "discovery", "discovered"},
         client[c].stage \in Ready => q.stage = client[c].stage,
         tools' = {} \/ (UNCHANGED tools /\ c \notin tools),
         FailCallsOf({c}) \/ UNCHANGED toolCall, UNCHANGED <<current, configured>>
  PROVE  McpInv'
<1> USE DEF McpInv
<1>1. /\ client \in [Clients -> Client] /\ client' \in [Clients -> Client] /\ client'[c] = q
      /\ \A d \in Clients : d # c => client'[d] = client[d]
 BY DEF McpTypes
<1>2. McpTypes' BY <1>1, FailCallsOfTypes DEF McpTypes
<1>3. HeldInv' BY <1>1 DEF HeldInv
<1>4. CallsOfStarted' BY <1>1, FailCallsOfTypes DEF CallsOfStarted
<1>5. \A d \in Clients : InStage(client'[d]) BY <1>1
<1> QED BY <1>2, <1>3, <1>4, <1>5

(* The manager stops the client it holds; what takes its place, if anything,  *)
(* is a client that is starting.                                              *)
LEMMA StopKeeps ==
  ASSUME McpInv, NEW clients \in [Clients -> Client], NEW next \in Clients \union {NoClient},
         StopServer(clients, next), configured' \in BOOLEAN, ~configured' => next = NoClient,
         \A c \in Clients :
           /\ InStage(clients[c]) /\ (clients[c].proc = "up" => c \in {current, next})
           /\ client[c].stage \in Ready => clients[c].stage = client[c].stage,
         next \in Clients => next # current /\ clients[next].stage = "handshake",
         current \in Clients => clients[current].stage # "new"
  PROVE  McpInv'
<1> USE DEF McpInv
<1>1. \A c \in Clients : client'[c] = IF c = current THEN Disconnected(clients[c]) ELSE clients[c]
 BY DEF StopServer
<1>2. current' = next /\ tools' = {} /\ FailCallsOf({current}) BY DEF StopServer
<1>3. \A c \in Clients : Disconnected(clients[c]) \in Client BY CleanedUpEnds
<1>4. client' \in [Clients -> Client] BY <1>3 DEF StopServer
<1>5. McpTypes' BY <1>2, <1>4, FailCallsOfTypes DEF McpTypes
<1>6. \A c \in Clients : InStage(client'[c]) /\ (client'[c].proc = "up" => c = next)
 BY <1>1, CleanedUpEnds
<1>7. \A c \in Clients : client[c].stage \in Ready => client'[c].stage = client[c].stage
 BY <1>1, CleanedUpEnds DEF Ready
<1>8. CallsOfStarted' BY <1>2, <1>7, FailCallsOfTypes DEF CallsOfStarted
<1>9. HeldInv' BY <1>1, <1>2, <1>6 DEF HeldInv
<1> QED BY <1>5, <1>6, <1>8, <1>9

LEMMA McpNextInv == ASSUME McpInv, McpNext PROVE McpInv'
<1> USE DEF McpInv
<1>t. /\ client \in [Clients -> Client] /\ toolCall \in [ToolCalls -> ToolCall]
      /\ current \in Clients \union {NoClient} /\ configured \in BOOLEAN
 BY DEF McpTypes
<1>1. ASSUME NEW c \in Clients, StartServer(c) PROVE McpInv'
 <2>1. PICK transport \in {"stdio", "http"}, task \in {"add", "start"} :
         StopServer([client EXCEPT ![c] =
           [NewClient EXCEPT !.transport = transport, !.task = task, !.stage = "handshake",
                             !.proc = IF transport = "stdio" THEN "up" ELSE "none"]], c)
  BY <1>1 DEF StartServer
 <2> DEFINE q == [NewClient EXCEPT !.transport = transport, !.task = task, !.stage = "handshake",
                                   !.proc = IF transport = "stdio" THEN "up" ELSE "none"]
            clients == [client EXCEPT ![c] = q]
 <2>2. q \in Client /\ InStage(q) /\ q.stage = "handshake" BY DEF NewClient, Client, InStage, Lists
 <2> HIDE DEF q
 <2>3. client[c].stage = "new" /\ configured' BY <1>1 DEF StartServer
 <2>4. current # c BY <2>3, <1>t DEF HeldInv
 <2>5. /\ clients \in [Clients -> Client] /\ clients[c] = q
       /\ \A d \in Clients : d # c => clients[d] = client[d]
  BY <2>2, <1>t
 <2>6. \A d \in Clients : /\ InStage(clients[d]) /\ (clients[d].proc = "up" => d \in {current, c})
                          /\ client[d].stage \in Ready => clients[d].stage = client[d].stage
  BY <2>2, <2>3, <2>5 DEF HeldInv, Ready
 <2>7. StopServer(clients, c) BY <2>1 DEF q
 <2>8. current \in Clients => clients[current].stage # "new" BY <2>4, <2>5 DEF HeldInv
 <2> HIDE DEF clients
 <2> QED BY <2>2, <2>3, <2>4, <2>5, <2>6, <2>7, <2>8, <1>1, StopKeeps DEF StartServer
<1>2. ASSUME NEW c \in Clients, HandshakeDone(c) PROVE McpInv'
 <2>1. /\ client[c].stage = "handshake" /\ UNCHANGED <<current, tools, configured, toolCall>>
       /\ client' = [client EXCEPT ![c] = [client[c] EXCEPT !.stage = "discovery", !.connected = TRUE, !.pending = Lists]]
  BY <1>2, <1>t DEF HandshakeDone, Client
 <2>2. PICK q \in Client : /\ q = [client[c] EXCEPT !.stage = "discovery", !.connected = TRUE, !.pending = Lists]
                           /\ q.stage = "discovery" /\ q.connected
                           /\ q.proc = client[c].proc /\ q.transport = client[c].transport
  <3>1. [client[c] EXCEPT !.stage = "discovery", !.connected = TRUE, !.pending = Lists] \in Client
   BY <1>t DEF Client
  <3> QED BY <3>1, <1>t DEF Client
 <2>3. client'[c] = q /\ client' \in [Clients -> Client] /\ \A d \in Clients : d # c => client'[d] = client[d]
  BY <2>1, <2>2, <1>t
 <2>4. InStage(q) BY <1>2, <2>1, <2>2, <1>t DEF InStage
 <2>5. HeldInv' /\ CallsOfStarted' BY <2>1, <2>2, <2>3 DEF HeldInv, CallsOfStarted, Ready
 <2> QED BY <2>1, <2>3, <2>4, <2>5, <1>t DEF McpTypes
<1>3. ASSUME NEW c \in Clients, HandshakeFails(c) PROVE McpInv'
 <2>1. /\ client[c].stage = "handshake" /\ client' = [client EXCEPT ![c] = CleanedUp(client[c])]
       /\ UNCHANGED <<current, tools, configured, toolCall>>
  BY <1>3 DEF HandshakeFails
 <2>2. c \notin tools BY <2>1 DEF HeldInv
 <2>3. /\ CleanedUp(client[c]) \in Client /\ InStage(CleanedUp(client[c]))
       /\ CleanedUp(client[c]).proc # "up" /\ CleanedUp(client[c]).stage = "rejected"
  BY <2>1, <1>t, CleanedUpEnds
 <2> QED BY <2>1, <2>2, <2>3, EndsInPlace DEF Ready
<1>4. ASSUME NEW c \in Clients, NEW l \in Lists, ListSettles(c, l) PROVE McpInv'
 <2>1. PICK some \in BOOLEAN :
         client' = [client EXCEPT ![c] =
           [client[c] EXCEPT !.pending = client[c].pending \ {l}, !.found = client[c].found \/ some,
                             !.stage = IF client[c].pending = {l} THEN "discovered" ELSE client[c].stage]]
  BY <1>4, <1>t DEF ListSettles, Client
 <2> DEFINE t == [client[c] EXCEPT !.pending = client[c].pending \ {l}, !.found = client[c].found \/ some,
                             !.stage = IF client[c].pending = {l} THEN "discovered" ELSE client[c].stage]
 <2>4. client[c].stage = "discovery" /\ UNCHANGED <<current, tools, configured, toolCall>>
  BY <1>4 DEF ListSettles
 <2>2. PICK q \in Client : /\ q = t
                           /\ q.stage \in {"discovery", "discovered"} /\ q.connected = client[c].connected
                           /\ q.proc = client[c].proc /\ q.transport = client[c].transport
  <3>1. t \in Client BY <1>t DEF Client
  <3>2. t.stage = IF client[c].pending = {l} THEN "discovered" ELSE client[c].stage BY <1>t DEF Client
  <3>3. t.connected = client[c].connected /\ t.proc = client[c].proc /\ t.transport = client[c].transport
   BY <1>t DEF Client
  <3> HIDE DEF t
  <3> QED BY <3>1, <3>2, <3>3, <2>4
 <2>3. client'[c] = q /\ client' \in [Clients -> Client] /\ \A d \in Clients : d # c => client'[d] = client[d]
  BY <2>1, <2>2, <1>t
 <2>5. InStage(q) BY <2>2, <2>4, <1>t DEF InStage
 <2> HIDE DEF t
 <2>6. HeldInv' /\ CallsOfStarted' BY <2>2, <2>3, <2>4 DEF HeldInv, CallsOfStarted, Ready
 <2> QED BY <2>3, <2>4, <2>5, <2>6, <1>t DEF McpTypes
<1>5. ASSUME NEW c \in Clients, Exits(c) PROVE McpInv'
 <2> DEFINE p == client[c]
            q == [p EXCEPT !.proc = "gone", !.connected = FALSE, !.pending = {},
                           !.stage = IF p.stage \in {"handshake", "discovery"} THEN "rejected" ELSE p.stage]
 <2>0. q = Exited(p) BY DEF Exited
 <2>1. /\ p.proc = "up" /\ Quiet /\ client' = [client EXCEPT ![c] = q]
       /\ tools' = ToolsWithout(c) /\ FailCallsOf({c}) /\ UNCHANGED <<current, configured>>
  BY <1>5, <2>0 DEF Exits
 <2>2. /\ q \in Client /\ q.proc = "gone" /\ ~q.connected
       /\ p.stage \in {"handshake", "discovery"} => q.stage = "rejected"
       /\ p.stage \notin {"handshake", "discovery"} => q.stage = p.stage
  <3>1. p \in Client BY <1>t
  <3> HIDE DEF p
  <3>2. q \in Client BY <3>1 DEF Client
  <3>3. q.proc = "gone" /\ ~q.connected BY <3>1 DEF Client
  <3>4. q.stage = IF p.stage \in {"handshake", "discovery"} THEN "rejected" ELSE p.stage
   BY <3>1 DEF Client
  <3> QED BY <3>2, <3>3, <3>4
 <2>3. p.stage \notin {"new", "discovered", "cut"} /\ p.transport = "stdio"
  BY <2>1, <1>t DEF InStage, NewClient, Quiet, Resuming
 <2>4. InStage(q) BY <2>2, <2>3 DEF InStage
 <2>5. current = c /\ tools' = {} BY <2>1 DEF HeldInv, ToolsWithout
 <2> QED BY <2>1, <2>2, <2>3, <2>4, <2>5, EndsInPlace DEF Ready
<1>6. ASSUME NEW c \in Clients, FailProtocol(c) PROVE McpInv'
 <2>1. PICK q : /\ client' = [client EXCEPT ![c] = q]
                /\ \/ q = Disconnected(client[c])
                   \/ client[c].stage = "handshake" /\ q = Greeted(client[c])
  BY <1>6 DEF FailProtocol
 <2>2. client[c].proc = "up" /\ tools' = ToolsWithout(c) /\ FailCallsOf({c}) /\ UNCHANGED <<current, configured>>
  BY <1>6 DEF FailProtocol
 <2>3. client[c].stage # "new" BY <2>2, <1>t DEF InStage, NewClient
 <2>4. current = c /\ tools' = {} BY <2>2 DEF HeldInv, ToolsWithout
 <2>5. /\ q \in Client /\ InStage(q) /\ q.proc # "up" /\ q.stage \notin {"new", "discovery", "discovered"}
       /\ client[c].stage \in Ready => q.stage = client[c].stage
  BY <2>1, <2>3, <1>t, CleanedUpEnds, GreetedEnds DEF Ready
 <2> QED BY <2>1, <2>2, <2>3, <2>4, <2>5, EndsInPlace
<1>7. ASSUME NEW c \in Clients, ProcessCloses(c) PROVE McpInv'
 <2>1. /\ client[c].proc = "ending" /\ UNCHANGED <<current, tools, configured, toolCall>>
       /\ client' = [client EXCEPT ![c].proc = "gone"]
  BY <1>7 DEF ProcessCloses
 <2>2. PICK q \in Client : /\ q = [client[c] EXCEPT !.proc = "gone"]
                           /\ q.proc = "gone" /\ q.stage = client[c].stage
                           /\ q.connected = client[c].connected /\ q.transport = client[c].transport
  <3>1. [client[c] EXCEPT !.proc = "gone"] \in Client BY <1>t DEF Client
  <3> QED BY <3>1, <1>t DEF Client
 <2>3. client'[c] = q /\ client' \in [Clients -> Client] /\ \A d \in Clients : d # c => client'[d] = client[d]
  BY <2>1, <2>2, <1>t
 <2>4. InStage(q) BY <2>1, <2>2, <1>t DEF InStage, NewClient
 <2>5. HeldInv' /\ CallsOfStarted' BY <2>1, <2>2, <2>3 DEF HeldInv, CallsOfStarted
 <2> QED BY <2>1, <2>3, <2>4, <2>5, <1>t DEF McpTypes
<1>8. ASSUME NEW c \in Clients, StartEnds(c) PROVE McpInv'
 <2>1. client[c].stage \in {"discovered", "cut"} /\ UNCHANGED <<current, configured, toolCall>>
  BY <1>8 DEF StartEnds
 <2> DEFINE end == IF client[c].stage = "cut" THEN "adrift" ELSE "started"
 <2>2. CASE client' = [client EXCEPT ![c] = [client[c] EXCEPT !.stage = end]]
  <3>1. PICK q \in Client : /\ q = [client[c] EXCEPT !.stage = end]
                            /\ q.stage = end /\ q.proc = client[c].proc
                            /\ q.connected = client[c].connected /\ q.transport = client[c].transport
   <4>1. [client[c] EXCEPT !.stage = end] \in Client BY <1>t DEF Client
   <4> QED BY <4>1, <1>t DEF Client
  <3>2. client'[c] = q /\ client' \in [Clients -> Client] /\ \A d \in Clients : d # c => client'[d] = client[d]
   BY <2>2, <3>1, <1>t
  <3>3. InStage(q) BY <2>1, <3>1, <1>t DEF InStage
  <3>4. current = c /\ tools' \in {{}, {c}}
   <4>1. client'[c].stage # "rejected" BY <3>1, <3>2
   <4>2. [Disconnected(client[c]) EXCEPT !.stage = "rejected"].stage = "rejected"
    BY <1>t, CleanedUpEnds DEF Client
   <4> QED BY <1>8, <1>t, <4>1, <4>2 DEF StartEnds
  <3>5. HeldInv' /\ CallsOfStarted'
   BY <2>1, <3>1, <3>2, <3>4 DEF HeldInv, CallsOfStarted, Ready
  <3> QED BY <2>1, <3>2, <3>3, <3>5, <1>t DEF McpTypes
 <2>3. CASE client' # [client EXCEPT ![c] = [client[c] EXCEPT !.stage = end]]
  <3>1. /\ client' = [client EXCEPT ![c] = [Disconnected(client[c]) EXCEPT !.stage = "rejected"]]
        /\ tools' = {} \/ (UNCHANGED tools /\ current # c)
   BY <1>8, <2>3 DEF StartEnds
  <3>2. PICK d \in Client : /\ d = Disconnected(client[c]) /\ d.proc # "up" /\ InStage(d) /\ ~d.connected
                            /\ d.transport = client[c].transport /\ d.stage = "cut"
   BY <2>1, <1>t, CleanedUpEnds
  <3>3. PICK q \in Client : /\ q = [d EXCEPT !.stage = "rejected"]
                            /\ q.stage = "rejected" /\ q.proc = d.proc
                            /\ q.connected = d.connected /\ q.transport = d.transport
   <4>1. [d EXCEPT !.stage = "rejected"] \in Client BY DEF Client
   <4> QED BY <4>1 DEF Client
  <3>4. InStage(q) BY <3>2, <3>3 DEF InStage
  <3>5. c \notin tools BY <2>1 DEF HeldInv
  <3> QED BY <2>1, <3>1, <3>2, <3>3, <3>4, <3>5, EndsInPlace DEF Ready
 <2> QED BY <2>2, <2>3
<1>9. ASSUME NEW c \in Clients, StartFails(c) PROVE McpInv'
 <2>1. PICK q \in Client : /\ q = [client[c] EXCEPT !.stage = "failed"]
                           /\ q.stage = "failed" /\ q.proc = client[c].proc
                           /\ q.connected = client[c].connected /\ q.transport = client[c].transport
  <3>1. [client[c] EXCEPT !.stage = "failed"] \in Client BY <1>t DEF Client
  <3> QED BY <3>1, <1>t DEF Client
 <2> DEFINE failed == [client EXCEPT ![c].stage = "failed"]
 <2>2. /\ failed \in [Clients -> Client] /\ failed[c] = q
       /\ \A d \in Clients : d # c => failed[d] = client[d]
  BY <2>1, <1>t
 <2>3. client[c].stage = "rejected" BY <1>9 DEF StartFails
 <2>4. \A d \in Clients : InStage(failed[d]) BY <2>1, <2>2, <2>3 DEF InStage
 <2>5. CASE client[c].task = "add"
  <3>1. StopServer(failed, NoClient) /\ configured' = FALSE BY <1>9, <2>5 DEF StartFails
  <3>2. \A d \in Clients : /\ failed[d].proc = "up" => d \in {current, NoClient}
                           /\ client[d].stage \in Ready => failed[d].stage = client[d].stage
   BY <2>1, <2>2, <2>3 DEF HeldInv, Ready
  <3>3. current \in Clients => failed[current].stage # "new" BY <2>1, <2>2 DEF HeldInv
  <3> HIDE DEF failed
  <3> QED BY ZenonT(60), <2>2, <2>4, <3>1, <3>2, <3>3, McpConstants, StopKeeps
 <2>6. CASE client[c].task # "add"
  <3>1. client' = failed /\ UNCHANGED <<current, tools, configured, toolCall>>
   BY <1>9, <2>6 DEF StartFails
  <3>2. HeldInv' /\ CallsOfStarted' BY <2>1, <2>2, <2>3, <3>1 DEF HeldInv, CallsOfStarted, Ready
  <3> QED BY <2>2, <2>4, <3>1, <3>2, <1>t DEF McpTypes
 <2> QED BY <2>5, <2>6
<1>10. CASE Stop
 <2>1. \A c \in Clients : client[c].proc = "up" => c \in {current, NoClient} BY DEF HeldInv
 <2>2. current \in Clients => client[current].stage # "new" BY DEF HeldInv
 <2> QED BY <1>10, <1>t, <2>1, <2>2, McpConstants, StopKeeps DEF Stop
<1>11. ASSUME NEW r \in ToolCalls, NEW c \in Clients, CallTool(r, c) PROVE McpInv'
 BY <1>11, <1>t DEF CallTool, McpTypes, HeldInv, CallsOfStarted, ToolCall, Ready
<1>12. ASSUME NEW r \in ToolCalls, CallAnswered(r) \/ CallTimesOut(r) PROVE McpInv'
 BY <1>12, <1>t DEF CallAnswered, CallTimesOut, McpTypes, HeldInv, CallsOfStarted, ToolCall
<1> QED BY <1>1, <1>2, <1>3, <1>4, <1>5, <1>6, <1>7, <1>8, <1>9, <1>10, <1>11, <1>12 DEF McpNext, Continue

--------------------------------------------------
(* Calls *)

LinkedClients == {c \in Clients : Linked(c)}

(* A step that loses only connections whose calls fail is one of Calls. *)
LEMMA ServerLostWithItsCalls ==
  ASSUME McpInv, NEW cs, FailCallsOf(cs), \A c \in Clients : Linked(c) => Linked(c)' \/ c \in cs
  PROVE  ToolCallsOfAgents!Change
<1>1. LinkedClients' \subseteq Clients /\ LinkedClients \ LinkedClients' \subseteq cs \intersect Clients
 BY DEF LinkedClients
<1>2. toolCall' = [r \in ToolCalls |->
        IF toolCall[r].stage = "open" /\ toolCall[r].host \in cs \intersect Clients
        THEN [toolCall[r] EXCEPT !.stage = "failed"] ELSE toolCall[r]]
 BY DEF FailCallsOf, McpInv, CallsOfStarted
<1> QED BY <1>1, <1>2 DEF ToolCallsOfAgents!Change, LinkedClients

(* And so is one that moves a client no call waits for. *)
LEMMA NobodyCalls ==
  ASSUME McpInv, NEW c \in Clients, client[c].stage \notin Ready,
         \A d \in Clients \ {c} : client'[d] = client[d], UNCHANGED toolCall
  PROVE  ToolCallsOfAgents!Change
<1>1. FailCallsOf({c}) BY DEF FailCallsOf, McpInv, McpTypes, CallsOfStarted
<1> QED BY <1>1, ServerLostWithItsCalls DEF Linked

LEMMA StopIsChange ==
  ASSUME McpInv, NEW clients, NEW next, StopServer(clients, next),
         \A c \in Clients \ {current} :
           Linked(c) => clients[c] = client[c]
  PROVE  ToolCallsOfAgents!Change
<1>1. \A c \in Clients : Linked(c) => Linked(c)' \/ c \in {current} BY DEF StopServer, Linked
<1> QED BY <1>1, ServerLostWithItsCalls DEF StopServer

LEMMA McpStepIsCalls ==
  ASSUME McpInv, McpNext
  PROVE  ToolCallsOfAgents!CallsNext \/ UNCHANGED ToolCallsOfAgents!calling
<1> USE DEF McpInv
<1>t. client \in [Clients -> Client] /\ toolCall \in [ToolCalls -> ToolCall] BY DEF McpTypes
<1>1. ASSUME NEW c \in Clients, StartServer(c) PROVE ToolCallsOfAgents!Change
 <2>1. ~Linked(c) BY <1>1 DEF StartServer, Linked, InStage, NewClient
 <2>2. PICK q : StopServer([client EXCEPT ![c] = q], c) BY <1>1 DEF StartServer
 <2> QED BY <2>1, <2>2, <1>t, StopIsChange
<1>2. ASSUME NEW c \in Clients, NEW l, HandshakeDone(c) \/ HandshakeFails(c) \/ ListSettles(c, l) \/ StartEnds(c)
      PROVE  ToolCallsOfAgents!Change
 <2>1. client[c].stage \notin Ready /\ UNCHANGED toolCall /\ \A d \in Clients \ {c} : client'[d] = client[d]
  BY <1>2, <1>t DEF HandshakeDone, HandshakeFails, ListSettles, StartEnds, Ready
 <2> QED BY <2>1, NobodyCalls
<1>3. ASSUME NEW c \in Clients, ProcessCloses(c) PROVE UNCHANGED ToolCallsOfAgents!calling
 <2>1. client' = [client EXCEPT ![c].proc = "gone"] /\ client[c].proc = "ending" /\ UNCHANGED toolCall
  BY <1>3 DEF ProcessCloses
 <2>2. \A d \in Clients : Linked(d)' <=> Linked(d) BY <2>1, <1>t DEF Linked, Client
 <2> QED BY <2>1, <2>2 DEF ToolCallsOfAgents!calling
<1>4. ASSUME NEW c \in Clients, Exits(c) \/ FailProtocol(c) PROVE ToolCallsOfAgents!Change
 <2>1. FailCallsOf({c}) /\ \A d \in Clients \ {c} : client'[d] = client[d]
  BY <1>4, <1>t DEF Exits, FailProtocol
 <2> QED BY <2>1, ServerLostWithItsCalls DEF Linked
<1>5. ASSUME NEW c \in Clients, StartFails(c) PROVE ToolCallsOfAgents!Change
 <2>1. client[c].stage = "rejected" BY <1>5 DEF StartFails
 <2>2. CASE client[c].task = "add"
  <3> DEFINE failed == [client EXCEPT ![c].stage = "failed"]
  <3>1. StopServer(failed, NoClient) BY <1>5, <2>2 DEF StartFails
  <3>2. /\ failed[c].proc = client[c].proc /\ failed[c].transport = client[c].transport
        /\ failed[c].stage = "failed" /\ \A d \in Clients \ {c} : failed[d] = client[d]
   BY <1>t DEF Client
  <3> HIDE DEF failed
  <3>3. \A d \in Clients : Linked(d) => Linked(d)' \/ d \in {current}
   BY <3>1, <3>2 DEF StopServer, Linked
  <3> QED BY <3>1, <3>3, ServerLostWithItsCalls DEF StopServer
 <2>3. CASE client[c].task # "add"
  <3>1. UNCHANGED toolCall /\ \A d \in Clients \ {c} : client'[d] = client[d]
   BY <1>5, <2>3, <1>t DEF StartFails
  <3> QED BY <2>1, <3>1, NobodyCalls DEF Ready
 <2> QED BY <2>2, <2>3
<1>6. ASSUME Stop PROVE ToolCallsOfAgents!Change
 BY <1>6, StopIsChange DEF Stop
<1>7. ASSUME NEW r \in ToolCalls, NEW c \in Clients, CallTool(r, c) PROVE ToolCallsOfAgents!Make(r, c)
 <2>1. /\ client[c].stage \in Ready /\ UNCHANGED client /\ toolCall[r].stage = "idle"
       /\ toolCall' = [toolCall EXCEPT ![r] = [stage |-> IF Callable(c) THEN "open" ELSE "failed", host |-> c]]
  BY <1>7 DEF CallTool, Ready
 <2>2. Callable(c) <=> Linked(c) BY <2>1, <1>t DEF Linked, Callable, Ready, InStage, Client
 <2> QED BY <2>1, <2>2 DEF ToolCallsOfAgents!Make, Linked
<1>8. ASSUME NEW r \in ToolCalls, CallAnswered(r) \/ CallTimesOut(r) PROVE ToolCallsOfAgents!Settle(r)
 BY <1>8 DEF CallAnswered, CallTimesOut, ToolCallsOfAgents!Settle, Linked
<1>9. ASSUME NEW c \in Clients, NEW l,
             StartServer(c) \/ HandshakeDone(c) \/ HandshakeFails(c) \/ ListSettles(c, l)
               \/ Exits(c) \/ FailProtocol(c) \/ ProcessCloses(c) \/ Continue(c)
      PROVE  ToolCallsOfAgents!Change \/ UNCHANGED ToolCallsOfAgents!calling
 BY <1>9, <1>1, <1>2, <1>3, <1>4, <1>5 DEF Continue
<1> QED BY <1>6, <1>7, <1>8, <1>9 DEF McpNext, ToolCallsOfAgents!CallsNext

--------------------------------------------------
(* Theorems *)

(* McpManager.ts: the invariant above holds for any number of starts and      *)
(* calls, whatever overlaps.                                                  *)
THEOREM McpInvariant == McpSpec => []McpInv
<1>1. McpInv /\ [McpNext]_mcp => McpInv'
 <2>1. ASSUME McpInv, UNCHANGED mcp PROVE McpInv'
  BY <2>1 DEF mcp, McpInv, McpTypes, HeldInv, CallsOfStarted
 <2> QED BY <2>1, McpNextInv
<1> QED BY <1>1, McpInitInv, PTL DEF McpSpec

(* A server process that was not told to end is the current client's, a       *)
(* server that was removed has none, and the tools are those of the current   *)
(* client, which is connected unless the connection failed during discovery.  *)
THEOREM McpOneServer == McpSpec => []OneServer
<1>1. McpInv => OneServer BY DEF McpInv, HeldInv, OneServer
<1> QED BY <1>1, McpInvariant, PTL

(* McpClient.sendRequest: a call is settled once, and a connection that is    *)
(* lost takes all of its calls with it in the same step.                      *)
THEOREM McpImplementsCalls == McpSpec => ToolCallsOfAgents!CallsSafe
<1>1. McpInit => ToolCallsOfAgents!CallsInit BY DEF McpInit, ToolCallsOfAgents!CallsInit
<1>2. McpInv /\ [McpNext]_mcp => [ToolCallsOfAgents!CallsNext]_ToolCallsOfAgents!calling
 <2>1. ASSUME UNCHANGED mcp PROVE UNCHANGED ToolCallsOfAgents!calling
  BY <2>1 DEF mcp, ToolCallsOfAgents!calling, Linked
 <2> QED BY <2>1, McpStepIsCalls
<1> QED BY <1>1, <1>2, McpInvariant, PTL DEF McpSpec, ToolCallsOfAgents!CallsSafe

--------------------------------------------------
(* Commands of an agent: ExecuteTerminalTool.ts, askApproval *)

CommandRec == [stage : {"none", "asking", "answered", "collecting", "waiting", "done", "failed"},
            approved : BOOLEAN, settle : BOOLEAN, received : 0..MaxOutput,
            pending : Seq(Nat), forwarded : Seq(Nat), truncated : BOOLEAN]

(* What the chat has been sent or is about to be, and how much of it must be  *)
(* output: OutputShown, element by element.                                   *)
Out(r) == r.forwarded \o r.pending
Room(r) == IF r.received <= MaxChat THEN r.received ELSE MaxChat

OutputWhole(r) ==
  /\ Len(Out(r)) = Room(r) + (IF r.truncated THEN 1 ELSE 0)
  /\ \A i \in 1..Room(r) : Out(r)[i] = i
  /\ r.truncated <=> r.received > MaxChat
  /\ r.truncated => Out(r)[Room(r) + 1] = Notice
  /\ r.stage = "done" => r.pending = <<>>

Approved(c, r) == r.approved \/ r.stage \in {"collecting", "waiting", "done"} => c \in clicked

CommandsInv ==
  /\ cmd \in [Commands -> CommandRec] /\ replies \subseteq Commands \X BOOLEAN
  /\ window \in BOOLEAN /\ term \in BOOLEAN
  /\ \A c \in Commands : OutputWhole(cmd[c]) /\ Approved(c, cmd[c])
  /\ \A c \in Commands : <<c, TRUE>> \in replies => c \in clicked

(* Sending what is pending changes nothing of what the chat gets in all. *)
LEMMA FlushedWhole ==
  ASSUME NEW r \in CommandRec
  PROVE  /\ Flushed(r) \in CommandRec /\ Out(Flushed(r)) = Out(r) /\ Flushed(r).pending = <<>>
         /\ Flushed(r).stage = r.stage /\ Flushed(r).approved = r.approved
         /\ Flushed(r).received = r.received /\ Flushed(r).truncated = r.truncated
<1>1. r.forwarded \in Seq(Nat) /\ r.pending \in Seq(Nat) BY DEF CommandRec
<1>2. r.forwarded \o r.pending \in Seq(Nat) /\ <<>> \in Seq(Nat) BY <1>1
<1>3. (r.forwarded \o r.pending) \o <<>> = r.forwarded \o r.pending BY <1>2
<1>4. /\ Flushed(r) \in CommandRec
      /\ Flushed(r).forwarded = r.forwarded \o r.pending /\ Flushed(r).pending = <<>>
      /\ Flushed(r).stage = r.stage /\ Flushed(r).approved = r.approved
      /\ Flushed(r).received = r.received /\ Flushed(r).truncated = r.truncated
 BY <1>2 DEF Flushed, CommandRec
<1> QED BY <1>3, <1>4 DEF Out

(* One more at the end leaves the rest where it was. *)
LEMMA OneMore ==
  ASSUME NEW f \in Seq(Nat), NEW p \in Seq(Nat), NEW x \in Nat,
         NEW o, o = f \o p, NEW q, q = f \o Append(p, x)
  PROVE  /\ q \in Seq(Nat) /\ o \in Seq(Nat) /\ Len(o) \in Nat /\ Len(q) = Len(o) + 1
         /\ q[Len(o) + 1] = x /\ \A i \in 1..Len(o) : q[i] = o[i]
<1> DEFINE a == Append(p, x)
<1>1. /\ a \in Seq(Nat) /\ Len(a) = Len(p) + 1 /\ a[Len(p) + 1] = x
      /\ \A i \in 1..Len(p) : a[i] = p[i]
 OBVIOUS
<1>2. q = f \o a OBVIOUS
<1> HIDE DEF a
<1>3. /\ q \in Seq(Nat) /\ Len(q) = Len(f) + Len(a)
      /\ \A i \in 1..(Len(f) + Len(a)) : q[i] = IF i <= Len(f) THEN f[i] ELSE a[i - Len(f)]
 BY <1>1, <1>2
<1>4. /\ o \in Seq(Nat) /\ Len(o) = Len(f) + Len(p)
      /\ \A i \in 1..(Len(f) + Len(p)) : o[i] = IF i <= Len(f) THEN f[i] ELSE p[i - Len(f)]
 OBVIOUS
<1>5. Len(f) \in Nat /\ Len(p) \in Nat OBVIOUS
<1>6. q[Len(o) + 1] = x BY <1>1, <1>3, <1>4, <1>5
<1>7. ASSUME NEW i \in 1..Len(o) PROVE q[i] = o[i]
 BY <1>1, <1>3, <1>4, <1>5
<1> QED BY SMTT(30), <1>1, <1>3, <1>4, <1>5, <1>6, <1>7

(* The next piece is appended while there is room; then the notice, once. *)
LEMMA PushedWhole ==
  ASSUME NEW r \in CommandRec, OutputWhole(r), r.stage # "done", r.received < MaxOutput,
         NEW next, next = [r EXCEPT !.received = @ + 1, !.settle = TRUE],
         NEW q, q = Pushed(next, r.received + 1)
  PROVE  /\ q \in CommandRec /\ OutputWhole(q)
         /\ q.stage = r.stage /\ q.approved = r.approved
<1>1. /\ r.forwarded \in Seq(Nat) /\ r.pending \in Seq(Nat) /\ r.received \in Nat /\ MaxOutput \in Nat
      /\ r.truncated \in BOOLEAN /\ MaxChat \in Nat
 BY CommandsConstants DEF CommandRec
<1>s. \A x \in Nat : Append(r.pending, x) \in Seq(Nat) BY <1>1
<1>r. r.received + 1 \in 0..MaxOutput BY <1>1
<1>2. /\ next \in CommandRec /\ next.forwarded = r.forwarded /\ next.pending = r.pending
      /\ next.received = r.received + 1 /\ next.truncated = r.truncated
      /\ next.stage = r.stage /\ next.approved = r.approved
 BY <1>r DEF CommandRec
<1>3. /\ Out(r) \in Seq(Nat) /\ Len(Out(r)) = Len(r.forwarded) + Len(r.pending)
      /\ Len(Out(r)) \in Nat /\ Out(next) = Out(r)
 <2>1. ASSUME NEW f \in Seq(Nat), NEW p \in Seq(Nat)
       PROVE  f \o p \in Seq(Nat) /\ Len(f \o p) = Len(f) + Len(p) /\ Len(f \o p) \in Nat
  OBVIOUS
 <2> QED BY <1>1, <1>2, <2>1 DEF Out
<1>4. CASE r.truncated
 <2>1. q = next BY <1>2, <1>4 DEF Pushed
 <2>2. Room(next) = MaxChat /\ Room(r) = MaxChat /\ next.received > MaxChat
  BY <1>1, <1>2, <1>4 DEF OutputWhole, Room
 <2>3. OutputWhole(next) BY <1>2, <1>3, <1>4, <2>2 DEF OutputWhole
 <2> QED BY <1>2, <2>1, <2>3
<1>5. ASSUME NEW x \in Nat, NEW p \in CommandRec, ~r.truncated,
             p.forwarded = r.forwarded, p.pending = Append(r.pending, x),
             p.received = r.received + 1, p.stage = r.stage,
             \/ ~p.truncated /\ Len(Out(r)) < MaxChat /\ x = r.received + 1
             \/ p.truncated /\ Len(Out(r)) >= MaxChat /\ x = Notice
      PROVE  OutputWhole(p)
 <2>1. /\ Out(p) \in Seq(Nat) /\ Len(Out(p)) = Len(Out(r)) + 1 /\ Out(p)[Len(Out(r)) + 1] = x
       /\ \A i \in 1..Len(Out(r)) : Out(p)[i] = Out(r)[i]
  <3> DEFINE f == r.forwarded
             g == r.pending
  <3>1. f \in Seq(Nat) /\ g \in Seq(Nat) /\ Out(r) = f \o g /\ Out(p) = f \o Append(g, x)
   BY <1>1, <1>5 DEF Out
  <3> HIDE DEF f, g
  <3> QED BY <3>1, OneMore
 <2>2. Len(Out(r)) = r.received /\ r.received <= MaxChat BY <1>1, <1>5 DEF OutputWhole, Room
 <2>3. CASE ~p.truncated
  <3>1. r.received < MaxChat /\ x = r.received + 1 /\ Room(p) = r.received + 1 /\ Room(r) = r.received
   BY <1>1, <1>5, <2>2, <2>3 DEF Room
  <3>2. \A i \in 1..Room(p) : Out(p)[i] = i BY SMTT(30), <1>1, <2>1, <2>2, <3>1 DEF OutputWhole
  <3> QED BY <1>1, <1>5, <2>1, <2>2, <2>3, <3>1, <3>2 DEF OutputWhole
 <2>4. CASE p.truncated
  <3>1. r.received = MaxChat /\ x = Notice /\ Room(p) = MaxChat /\ Room(r) = MaxChat
   BY <1>1, <1>5, <2>2, <2>4 DEF Room
  <3>2. \A i \in 1..Room(p) : Out(p)[i] = i BY <1>1, <2>1, <2>2, <3>1 DEF OutputWhole
  <3> QED BY <1>1, <1>5, <2>1, <2>2, <2>4, <3>1, <3>2 DEF OutputWhole
 <2> QED BY <2>3, <2>4, <1>5 DEF CommandRec
<1>6. CASE ~r.truncated /\ Len(Out(r)) < MaxChat
 <2> DEFINE p == [next EXCEPT !.pending = Append(@, r.received + 1)]
 <2>0. r.received + 1 \in Nat /\ Append(r.pending, r.received + 1) \in Seq(Nat) BY <1>1, <1>s
 <2>1. q = p BY <1>2, <1>3, <1>6 DEF Pushed
 <2>2. /\ p \in CommandRec /\ p.forwarded = r.forwarded /\ p.pending = Append(r.pending, r.received + 1)
       /\ p.received = r.received + 1 /\ p.stage = r.stage /\ p.approved = r.approved /\ ~p.truncated
  BY <1>1, <2>0, <1>2, <1>6 DEF CommandRec
 <2> HIDE DEF p
 <2>3. OutputWhole(p) BY <1>5, <1>6, <2>0, <2>2
 <2> QED BY <2>1, <2>2, <2>3
<1>7. CASE ~r.truncated /\ ~(Len(Out(r)) < MaxChat)
 <2> DEFINE p == [next EXCEPT !.pending = Append(@, Notice), !.truncated = TRUE]
 <2>0. Notice \in Nat /\ Append(r.pending, Notice) \in Seq(Nat) BY <1>s DEF Notice
 <2>1. q = Flushed(p) BY <1>2, <1>3, <1>7 DEF Pushed
 <2>2. /\ p \in CommandRec /\ p.forwarded = r.forwarded /\ p.pending = Append(r.pending, Notice)
       /\ p.received = r.received + 1 /\ p.stage = r.stage /\ p.approved = r.approved /\ p.truncated
  BY <1>1, <2>0, <1>2, <1>7 DEF CommandRec
 <2> HIDE DEF p
 <2>3. OutputWhole(p)
  <3>1. Len(Out(r)) >= MaxChat
   <4>1. ~(Len(Out(r)) < MaxChat) /\ Len(Out(r)) \in Nat /\ MaxChat \in Nat BY <1>1, <1>3, <1>7
   <4> HIDE DEF Out
   <4> QED BY <4>1
  <3> QED BY <1>5, <1>7, <2>0, <2>2, <3>1
 <2>4. OutputWhole(Flushed(p)) BY <2>2, <2>3, FlushedWhole DEF OutputWhole, Room
 <2> QED BY <2>1, <2>2, <2>4, FlushedWhole
<1> QED BY <1>4, <1>6, <1>7

(* A command that has not run, asked for or not, has nothing to show. *)
LEMMA UnaskedWhole ==
  ASSUME NEW st \in {"none", "asking"}, NEW r, r = [Unasked EXCEPT !.stage = st]
  PROVE  /\ Unasked \in CommandRec /\ OutputWhole(Unasked) /\ Unasked.stage = "none" /\ ~Unasked.approved
         /\ r \in CommandRec /\ OutputWhole(r) /\ r.stage = st /\ ~r.approved
<1>1. <<>> \in Seq(Nat) /\ <<>> \o <<>> = <<>> /\ Len(<<>>) = 0 /\ 0 \in 0..MaxOutput /\ MaxChat \in Nat
 BY CommandsConstants
<1>2. Unasked \in CommandRec BY <1>1 DEF Unasked, CommandRec
<1>3. r = [stage |-> st, approved |-> FALSE, settle |-> FALSE, received |-> 0,
           pending |-> <<>>, forwarded |-> <<>>, truncated |-> FALSE]
 BY DEF Unasked
<1>4. ASSUME NEW s \in CommandRec, s.received = 0, s.pending = <<>>, s.forwarded = <<>>, ~s.truncated
      PROVE  OutputWhole(s)
 BY <1>1, <1>4 DEF OutputWhole, Out, Room
<1>5. r \in CommandRec
 <2>1. st \in {"none", "asking", "answered", "collecting", "waiting", "done", "failed"} /\ FALSE \in BOOLEAN
  OBVIOUS
 <2> QED BY <1>2, <2>1 DEF CommandRec
<1> QED BY <1>2, <1>3, <1>4, <1>5 DEF Unasked

LEMMA CommandsInitInv == CommandsInit => CommandsInv
<1> SUFFICES ASSUME CommandsInit PROVE CommandsInv
 OBVIOUS
<1>1. Unasked \in CommandRec /\ OutputWhole(Unasked) BY UnaskedWhole
<1> QED BY <1>1 DEF CommandsInit, CommandsInv, Approved, Unasked

(* A step of one command. *)
LEMMA CommandMoves ==
  ASSUME CommandsInv, NEW c \in Commands, NEW r \in CommandRec, Becomes(c, r),
         OutputWhole(r), Approved(c, r), UNCHANGED <<replies, clicked, window, term>>
  PROVE  CommandsInv'
BY DEF CommandsInv, Becomes, Approved

(* An answer, also the one nobody gave, changes nothing of the output. *)
LEMMA FinishedWhole ==
  ASSUME NEW r \in CommandRec, OutputWhole(r), r.stage # "done", NEW yes \in BOOLEAN
  PROVE  /\ Finished(r, yes) \in CommandRec /\ OutputWhole(Finished(r, yes))
         /\ Finished(r, yes).stage = "answered" /\ Finished(r, yes).approved = yes
<1>1. /\ Finished(r, yes) \in CommandRec /\ Finished(r, yes).stage = "answered"
      /\ Finished(r, yes).approved = yes /\ Out(Finished(r, yes)) = Out(r)
      /\ Finished(r, yes).received = r.received /\ Finished(r, yes).truncated = r.truncated
 BY DEF Finished, CommandRec, Out
<1> QED BY <1>1 DEF OutputWhole, Room

LEMMA CommandsNextInv == ASSUME CommandsInv, CommandsNext PROVE CommandsInv'
<1> USE DEF CommandsInv
<1>1. CASE WindowGoes
 <2>1. /\ cmd' = [c \in Commands |-> IF cmd[c].stage = "asking" THEN Finished(cmd[c], FALSE) ELSE cmd[c]]
       /\ window' = FALSE /\ replies' = {} /\ clicked' = clicked /\ term' = term
  BY <1>1 DEF WindowGoes
 <2>2. ASSUME NEW c \in Commands
       PROVE  cmd'[c] \in CommandRec /\ OutputWhole(cmd'[c]) /\ Approved(c, cmd[c])'
  <3>1. CASE cmd[c].stage = "asking" BY <2>1, <3>1, FinishedWhole DEF Approved
  <3>2. CASE cmd[c].stage # "asking" BY <2>1, <3>2 DEF Approved
  <3> QED BY <3>1, <3>2
 <2> QED BY <2>1, <2>2
<1>2. CASE SessionEnds BY <1>2 DEF SessionEnds, Approved
<1>3. CASE Output
 <2>1. /\ UNCHANGED <<replies, clicked, window, term>>
       /\ \A c \in Commands : cmd[c].received < MaxOutput
       /\ cmd' = [c \in Commands |->
            IF Listening(c)
            THEN Pushed([cmd[c] EXCEPT !.received = @ + 1, !.settle = TRUE], cmd[c].received + 1)
            ELSE cmd[c]]
  BY <1>3 DEF Output
 <2>2. ASSUME NEW c \in Commands
       PROVE  cmd'[c] \in CommandRec /\ OutputWhole(cmd'[c]) /\ Approved(c, cmd[c])'
  <3>1. CASE Listening(c) BY <2>1, <3>1, PushedWhole DEF Approved, Listening
  <3>2. CASE ~Listening(c) BY <2>1, <3>2 DEF Approved
  <3> QED BY <3>1, <3>2
 <2> QED BY <2>1, <2>2
<1>4. ASSUME NEW m \in replies, Reply(m) PROVE CommandsInv'
 <2>1. /\ replies' = replies \ {m} /\ UNCHANGED <<clicked, window, term>>
       /\ cmd' = [cmd EXCEPT ![m[1]] = IF @.stage = "asking" THEN Finished(@, m[2]) ELSE @]
  BY <1>4 DEF Reply
 <2>2. m[1] \in Commands /\ m[2] \in BOOLEAN /\ m = <<m[1], m[2]>> OBVIOUS
 <2>3. m[2] => m[1] \in clicked BY <2>2
 <2>4. ASSUME NEW c \in Commands
       PROVE  cmd'[c] \in CommandRec /\ OutputWhole(cmd'[c]) /\ Approved(c, cmd[c])'
  <3>1. CASE c = m[1] /\ cmd[c].stage = "asking"
   BY <2>1, <2>2, <2>3, <3>1, FinishedWhole DEF Approved
  <3>2. CASE ~(c = m[1] /\ cmd[c].stage = "asking") BY <2>1, <2>2, <3>2 DEF Approved
  <3> QED BY <3>1, <3>2
 <2> QED BY <2>1, <2>4
<1>5. ASSUME NEW c \in Commands, Propose(c) PROVE CommandsInv'
 <2>1. Unasked \in CommandRec /\ OutputWhole(Unasked) /\ Unasked.stage = "none" /\ ~Unasked.approved
  BY UnaskedWhole
 <2> DEFINE askingNow == [Unasked EXCEPT !.stage = "asking"]
 <2>2. askingNow \in CommandRec /\ OutputWhole(askingNow) /\ askingNow.stage = "asking" /\ ~askingNow.approved
  BY UnaskedWhole
 <2> HIDE DEF askingNow
 <2>3. Finished(Unasked, FALSE) \in CommandRec /\ OutputWhole(Finished(Unasked, FALSE))
       /\ Finished(Unasked, FALSE).stage = "answered" /\ ~Finished(Unasked, FALSE).approved
  BY <2>1, FinishedWhole
 <2>4. Becomes(c, askingNow) \/ Becomes(c, Finished(Unasked, FALSE))
  BY <1>5 DEF Propose, askingNow
 <2> QED BY <1>5, <2>2, <2>3, <2>4, CommandMoves DEF Propose, Approved
<1>6. ASSUME NEW c \in Commands, NEW yes \in BOOLEAN, Click(c, yes) PROVE CommandsInv'
 <2>1. /\ replies' = replies \union {<<c, yes>>} /\ UNCHANGED <<cmd, window, term>>
       /\ clicked' = IF yes THEN clicked \union {c} ELSE clicked
  BY <1>6 DEF Click
 <2>2. clicked \subseteq clicked' /\ (yes => c \in clicked') BY <2>1
 <2>3. \A k \in Commands : <<k, TRUE>> \in replies' => k \in clicked' BY <2>1, <2>2
 <2>4. \A k \in Commands : OutputWhole(cmd'[k]) /\ Approved(k, cmd[k])'
  BY <2>1, <2>2 DEF Approved
 <2>5. replies' \subseteq Commands \X BOOLEAN BY <2>1
 <2> QED BY <2>1, <2>3, <2>4, <2>5
<1>7. ASSUME NEW c \in Commands, ApprovalTimesOut(c) PROVE CommandsInv'
 BY <1>7, FinishedWhole, CommandMoves DEF ApprovalTimesOut, Approved
<1>8. ASSUME NEW c \in Commands, Run(c) PROVE CommandsInv'
 <2> DEFINE run == [cmd[c] EXCEPT !.stage = "collecting", !.settle = TRUE]
            failed == [cmd[c] EXCEPT !.stage = "failed"]
 <2>1. /\ run \in CommandRec /\ run.stage = "collecting" /\ Out(run) = Out(cmd[c])
       /\ run.received = cmd[c].received /\ run.truncated = cmd[c].truncated
       /\ run.approved = cmd[c].approved
  BY DEF CommandRec, Out
 <2>2. /\ failed \in CommandRec /\ failed.stage = "failed" /\ Out(failed) = Out(cmd[c])
       /\ failed.received = cmd[c].received /\ failed.truncated = cmd[c].truncated
       /\ failed.approved = cmd[c].approved
  BY DEF CommandRec, Out
 <2>3. (Becomes(c, run) /\ cmd[c].approved) \/ Becomes(c, failed) BY <1>8 DEF Run
 <2> HIDE DEF run, failed
 <2>4. OutputWhole(run) /\ OutputWhole(failed) BY <2>1, <2>2 DEF OutputWhole, Room
 <2> QED BY <1>8, <2>1, <2>2, <2>3, <2>4, CommandMoves DEF Run, Approved
<1>9. ASSUME NEW c \in Commands, Flush(c) PROVE CommandsInv'
 <2>1. OutputWhole(Flushed(cmd[c])) BY FlushedWhole DEF OutputWhole, Room
 <2> QED BY <1>9, <2>1, FlushedWhole, CommandMoves DEF Flush, Approved
<1>10. ASSUME NEW c \in Commands, NEW to \in {"done", "waiting"}, EndsWith(c, to), Listening(c),
              UNCHANGED <<replies, clicked, window, term>>
       PROVE  CommandsInv'
 <2> DEFINE p == [cmd[c] EXCEPT !.stage = to, !.settle = FALSE]
 <2>1. /\ p \in CommandRec /\ p.stage = to /\ Out(p) = Out(cmd[c]) /\ p.received = cmd[c].received
       /\ p.truncated = cmd[c].truncated /\ p.approved = cmd[c].approved
  BY DEF CommandRec, Out
 <2>2. Becomes(c, Flushed(p)) BY <1>10 DEF EndsWith
 <2> HIDE DEF p
 <2>3. OutputWhole(Flushed(p)) BY <2>1, FlushedWhole DEF OutputWhole, Room
 <2> QED BY <1>10, <2>1, <2>2, <2>3, FlushedWhole, CommandMoves DEF Approved, Listening
<1>11. ASSUME NEW c \in Commands, Collected(c) \/ UserWaited(c) PROVE CommandsInv'
 BY <1>10, <1>11 DEF Collected, UserWaited, Listening
<1> QED BY <1>1, <1>2, <1>3, <1>4, <1>5, <1>6, <1>7, <1>8, <1>9, <1>11 DEF CommandsNext

(* What the invariant says of the properties. *)
LEMMA CommandsInvImplies == ASSUME CommandsInv PROVE CommandsTypeOK /\ CommandsAsked /\ OutputShown
<1>1. CommandsTypeOK /\ CommandsAsked
 BY DEF CommandsInv, CommandsTypeOK, CommandsAsked, CommandRec, Approved, Listening
<1>2. OutputShown
 <2> SUFFICES ASSUME NEW c \in Commands
              PROVE  /\ SubSeq(Out(cmd[c]), 1, Room(cmd[c])) = [i \in 1..Room(cmd[c]) |-> i]
                     /\ Len(Out(cmd[c])) = Room(cmd[c]) + (IF cmd[c].truncated THEN 1 ELSE 0)
                     /\ cmd[c].truncated <=> cmd[c].received > MaxChat
                     /\ cmd[c].truncated => Out(cmd[c])[Room(cmd[c]) + 1] = Notice
                     /\ cmd[c].stage = "done" => cmd[c].pending = <<>>
  BY DEF OutputShown, Out, Room
 <2>1. /\ Out(cmd[c]) \in Seq(Nat) /\ Room(cmd[c]) \in Nat /\ OutputWhole(cmd[c])
  BY CommandsConstants DEF CommandsInv, CommandRec, Out, Room
 <2>2. Room(cmd[c]) <= Len(Out(cmd[c])) BY <2>1 DEF OutputWhole
 <2>3. SubSeq(Out(cmd[c]), 1, Room(cmd[c])) = [i \in 1..Room(cmd[c]) |-> Out(cmd[c])[i]]
  BY <2>1, <2>2
 <2> QED BY <2>1, <2>3 DEF OutputWhole
<1> QED BY <1>1, <1>2

(* ExecuteTerminalTool.ts: for any commands, answers and timeouts, the        *)
(* invariant above holds.                                                     *)
THEOREM CommandsInvariant == CommandsSpec => []CommandsInv
<1>1. CommandsInv /\ [CommandsNext]_agentCommands => CommandsInv'
 <2>1. ASSUME CommandsInv, UNCHANGED agentCommands PROVE CommandsInv'
  BY <2>1 DEF agentCommands, CommandsInv, Approved
 <2> QED BY <2>1, CommandsNextInv
<1> QED BY <1>1, CommandsInitInv, PTL DEF CommandsSpec

--------------------------------------------------
(* The action in an agent's text: AgentEngine.ts, onChunk *)

LEMMA LeastNumber ==
  ASSUME NEW S \in SUBSET Nat, S # {}
  PROVE  \E n \in S : \A m \in S : n <= m
<1>1. PICK n \in S : \A m \in S : ~ (<<m, n>> \in OpToRel(<, Nat))
 BY NatLessThanWellFounded, WFMin, Zenon
<1>2. \A m \in S : ~ (m < n) BY <1>1 DEF OpToRel
<1> QED BY <1>2

(* A tag stands at the place of its first symbol. *)
Text == Seq(Symbols)
Tags == {startTag, endTag}
Occurs(tag, s, i) == i \in 1..Len(s) - 1 /\ s[i] = tag[1] /\ s[i + 1] = tag[2]
First(tag, s, i) == Occurs(tag, s, i) /\ \A j \in Nat : Occurs(tag, s, j) => i <= j

LEMMA TagThere ==
  ASSUME NEW tag \in Tags, NEW s \in Text, NEW i \in 1..Len(s) - 1
  PROVE  SubSeq(s, i, i + 1) = tag <=> Occurs(tag, s, i)
<1>1. /\ tag \in Seq(Symbols) /\ Len(tag) = 2
 <2>1. CASE tag = startTag BY <2>1 DEF startTag, Symbols
 <2>2. CASE tag = endTag BY <2>2 DEF endTag, Symbols
 <2> QED BY <2>1, <2>2 DEF Tags
<1>2. /\ SubSeq(s, i, i + 1) \in Seq(Symbols) /\ Len(SubSeq(s, i, i + 1)) = 2
      /\ SubSeq(s, i, i + 1)[1] = s[i] /\ SubSeq(s, i, i + 1)[2] = s[i + 1]
 <2>1. s \in Seq(Symbols) /\ i \in 1..Len(s) /\ i + 1 \in 1..Len(s) /\ (i + 1) - i + 1 = 2
  BY DEF Text
 <2>2. /\ SubSeq(s, i, i + 1) \in Seq(Symbols) /\ Len(SubSeq(s, i, i + 1)) = 2
       /\ \A j \in 1..2 : SubSeq(s, i, i + 1)[j] = s[i + j - 1]
  BY <2>1, SubSeqProperties
 <2>3. i + 1 - 1 = i /\ i + 2 - 1 = i + 1 /\ 1 \in 1..2 /\ 2 \in 1..2 BY <2>1
 <2> QED BY ONLY <2>2, <2>3
<1>3. ASSUME SubSeq(s, i, i + 1)[1] = tag[1], SubSeq(s, i, i + 1)[2] = tag[2]
      PROVE  SubSeq(s, i, i + 1) = tag
 <2>1. PICK p : p = SubSeq(s, i, i + 1) OBVIOUS
 <2>2. p \in Seq(Symbols) /\ Len(p) = 2 /\ p[1] = tag[1] /\ p[2] = tag[2] BY <1>2, <1>3, <2>1
 <2>3. \A j \in 1..2 : p[j] = tag[j] BY <2>2
 <2>4. p = tag BY ONLY <1>1, <2>2, <2>3
 <2> QED BY <2>1, <2>4
<1> QED BY <1>2, <1>3 DEF Occurs

LEMMA FirstOrNone ==
  ASSUME NEW tag \in Tags, NEW s \in Text
  PROVE  /\ IndexOf(tag, s) \in Nat
         /\ IndexOf(tag, s) = 0 => \A i : ~Occurs(tag, s, i)
         /\ IndexOf(tag, s) # 0 => First(tag, s, IndexOf(tag, s))
<1> DEFINE at == {i \in 1..Len(s) - 1 : SubSeq(s, i, i + 1) = tag}
<1>1. at = {i \in 1..Len(s) - 1 : Occurs(tag, s, i)} BY TagThere
<1>2. IndexOf(tag, s) = IF at = {} THEN 0 ELSE CHOOSE i \in at : \A j \in at : i <= j
 BY DEF IndexOf
<1>3. at \subseteq Nat /\ 0 \notin at /\ \A i : Occurs(tag, s, i) => i \in at
 BY <1>1 DEF Text, Occurs
<1> HIDE DEF at
<1>4. CASE at = {} BY <1>2, <1>3, <1>4
<1>5. CASE at # {}
 <2>1. \E i \in at : \A j \in at : i <= j BY <1>3, <1>5, LeastNumber
 <2>2. IndexOf(tag, s) \in at /\ \A j \in at : IndexOf(tag, s) <= j BY <1>2, <1>5, <2>1
 <2>3. Occurs(tag, s, IndexOf(tag, s)) BY <1>1, <2>2
 <2> QED BY <1>3, <2>2, <2>3 DEF First
<1> QED BY <1>4, <1>5

LEMMA OnlyFirst ==
  ASSUME NEW tag \in Tags, NEW s \in Text, NEW i, First(tag, s, i)
  PROVE  IndexOf(tag, s) = i /\ i # 0 /\ i \in Nat
<1>1. Occurs(tag, s, i) /\ i \in Nat /\ i # 0 BY DEF First, Occurs, Text
<1>2. First(tag, s, IndexOf(tag, s)) /\ IndexOf(tag, s) \in Nat BY <1>1, FirstOrNone
<1> QED BY <1>1, <1>2 DEF First

LEMMA CutText ==
  ASSUME NEW s \in Text, NEW i \in 1..Len(s) - 1
  PROVE  /\ Before(s, i) \in Text /\ Len(Before(s, i)) = i - 1
         /\ \A j \in 1..i - 1 : Before(s, i)[j] = s[j]
         /\ After(s, i) \in Text /\ Len(After(s, i)) = Len(s) - i - 1
         /\ \A j \in 1..(Len(s) - i - 1) : After(s, i)[j] = s[i + 1 + j]
<1>1. Len(s) \in Nat /\ i \in Nat /\ i <= Len(s) - 1 /\ i > 0 BY DEF Text
<1>2. SubSeq(s, 1, i - 1) \in Text /\ Len(SubSeq(s, 1, i - 1)) = i - 1
      /\ \A j \in 1..i - 1 : SubSeq(s, 1, i - 1)[j] = s[j]
 BY <1>1 DEF Text
<1>3. SubSeq(s, i + 2, Len(s)) \in Text /\ Len(SubSeq(s, i + 2, Len(s))) = Len(s) - i - 1
      /\ \A j \in 1..(Len(s) - i - 1) : SubSeq(s, i + 2, Len(s))[j] = s[i + 1 + j]
 BY <1>1 DEF Text
<1> QED BY <1>2, <1>3 DEF Before, After

LEMMA JoinText ==
  ASSUME NEW s \in Text, NEW t \in Text
  PROVE  /\ s \o t \in Text /\ Len(s \o t) = Len(s) + Len(t) /\ Len(s) \in Nat /\ Len(t) \in Nat
         /\ \A j \in 1..Len(s) : (s \o t)[j] = s[j]
         /\ \A j \in 1..Len(t) : (s \o t)[Len(s) + j] = t[j]
BY DEF Text

LEMMA PartOf ==
  ASSUME NEW s \in Text, NEW k \in 0..Len(s)
  PROVE  /\ SubSeq(s, 1, k) \in Text /\ Len(SubSeq(s, 1, k)) = k
         /\ \A j \in 1..k : SubSeq(s, 1, k)[j] = s[j]
         /\ SubSeq(s, k + 1, Len(s)) \in Text /\ Len(SubSeq(s, k + 1, Len(s))) = Len(s) - k
         /\ \A j \in 1..Len(s) - k : SubSeq(s, k + 1, Len(s))[j] = s[k + j]
<1>1. Len(s) \in Nat BY DEF Text
<1>2. SubSeq(s, 1, k) \in Text /\ Len(SubSeq(s, 1, k)) = k
      /\ \A j \in 1..k : SubSeq(s, 1, k)[j] = s[j]
 BY <1>1 DEF Text
<1>3. SubSeq(s, k + 1, Len(s)) \in Text /\ Len(SubSeq(s, k + 1, Len(s))) = Len(s) - k
      /\ \A j \in 1..Len(s) - k : SubSeq(s, k + 1, Len(s))[j] = s[k + j]
 BY <1>1 DEF Text
<1> QED BY <1>2, <1>3

(* What Chunk shows of its buffer, and what it holds back. *)
Sendable(s) == SubSeq(s, 1, Len(s) - Held(s))
Reserve(s) == SubSeq(s, (Len(s) - Held(s)) + 1, Len(s))

(* Two texts that begin alike. *)
LEMMA SamePart ==
  ASSUME NEW s \in Text, NEW t \in Text, NEW k \in Nat, k <= Len(s), k <= Len(t),
         \A i \in 1..k : s[i] = t[i]
  PROVE  SubSeq(s, 1, k) = SubSeq(t, 1, k)
<1>1. k \in 0..Len(s) /\ k \in 0..Len(t) BY DEF Text
<1>2. /\ SubSeq(s, 1, k) \in Seq(Symbols) /\ Len(SubSeq(s, 1, k)) = k
      /\ SubSeq(t, 1, k) \in Seq(Symbols) /\ Len(SubSeq(t, 1, k)) = k
      /\ \A j \in 1..k : SubSeq(s, 1, k)[j] = SubSeq(t, 1, k)[j]
 BY <1>1, PartOf DEF Text
<1> QED BY <1>2

(* At most the first half of a tag is held back, and never shown. *)
LEMMA KeptBack ==
  ASSUME NEW s \in Text, s # <<>>
  PROVE  /\ Sendable(s) \in Text /\ Reserve(s) \in {<<>>, <<"<">>} /\ Sendable(s) \o Reserve(s) = s
         /\ Reserve(s) = <<>> => Sendable(s) # <<>> /\ Sendable(s)[Len(Sendable(s))] # "<"
<1>0. PICK a, b : a = Sendable(s) /\ b = Reserve(s) OBVIOUS
<1> SUFFICES /\ a \in Text /\ b \in {<<>>, <<"<">>} /\ a \o b = s
             /\ b = <<>> => a # <<>> /\ a[Len(a)] # "<"
 BY <1>0
<1>1. PICK n : n = Len(s) OBVIOUS
<1>2. s \in Seq(Symbols) /\ n \in Nat /\ n > 0 /\ \A i \in 1..n : s[i] \in Symbols
 BY <1>1 DEF Text
<1>3. Held(s) = IF s[n] = "<" THEN 1 ELSE 0 BY <1>1 DEF Held, Last
<1>4. PICK k : k = n - Held(s) OBVIOUS
<1>5. k \in 0..n /\ a = SubSeq(s, 1, k) /\ b = SubSeq(s, k + 1, n)
 BY <1>0, <1>1, <1>2, <1>3, <1>4 DEF Sendable, Reserve
<1>6. a \o b = s
 <2>1. /\ 1 \in 1..Len(s) + 1 /\ k \in 1 - 1..Len(s) /\ n \in k..Len(s)
       /\ s \in Seq(Symbols)
  BY <1>1, <1>2, <1>5
 <2>2. SubSeq(s, 1, k) \o SubSeq(s, k + 1, n) = SubSeq(s, 1, n)
  BY ONLY <2>1, ConcatAdjacentSubSeq
 <2> QED BY <1>1, <1>2, <1>5, <2>2, SubSeqFull
<1>7. a \in Seq(Symbols) /\ Len(a) = k /\ \A j \in 1..k : a[j] = s[j]
 BY <1>1, <1>5, PartOf DEF Text
<1>8. b \in Seq(Symbols) /\ Len(b) = n - k /\ \A j \in 1..n - k : b[j] = s[k + j]
 BY <1>1, <1>5, PartOf DEF Text
<1>9. CASE s[n] # "<"
 <2>1. k = n /\ b = <<>> BY <1>2, <1>3, <1>4, <1>5, <1>9, SubSeqEmpty
 <2>2. Len(a) > 0 /\ a[Len(a)] # "<" BY <1>2, <1>7, <1>9, <2>1
 <2>3. a # <<>> BY <1>7, <2>2, EmptySeq
 <2>4. a \in Text BY <1>7 DEF Text
 <2> QED BY <1>6, <2>1, <2>2, <2>3, <2>4, Zenon
<1>10. CASE s[n] = "<"
 <2>1. k = n - 1 BY <1>2, <1>3, <1>4, <1>10
 <2>2. b \in Seq(Symbols) /\ Len(b) = 1 /\ b[1] = "<"
  <3>1. Len(b) = 1 /\ 1 \in 1..n - k /\ k + 1 = n BY ONLY <1>2, <1>8, <2>1
  <3>2. b[1] = s[k + 1] BY ONLY <1>8, <3>1, Zenon
  <3> QED BY <1>8, <1>10, <3>1, <3>2, Zenon
 <2>3. <<"<">> \in Seq(Symbols) /\ Len(<<"<">>) = 1 /\ <<"<">>[1] = "<" BY DEF Symbols
 <2>4. b = <<"<">> BY ONLY <2>2, <2>3
 <2>5. b # <<>>
  <3>1. <<"<">> # <<>> OBVIOUS
  <3> QED BY <2>4, <3>1, Zenon
 <2>6. a \in Text BY <1>7 DEF Text
 <2> QED BY <1>6, <2>4, <2>5, <2>6, Zenon
<1> QED BY <1>9, <1>10

(* All that was taken for text. *)
Whole == displayed \o textBuffer
NoAction == \A i : ~Occurs(startTag, arrived, i)

ActionTypes ==
  /\ arrived \in Text /\ displayed \in Text /\ action \in Text /\ textBuffer \in {<<>>, <<"<">>}
  /\ executing \in BOOLEAN /\ ended \in BOOLEAN /\ (executing \/ ended => textBuffer = <<>>)

(* An answer without an action, so far. *)
ShownAsItCame ==
  NoAction =>
    /\ ~executing /\ action = <<>> /\ Whole = arrived
    /\ ~ended /\ textBuffer = <<>> => displayed = <<>> \/ displayed[Len(displayed)] # "<"

(* The last symbols shown are the last to have come behind the action. *)
ShownBehind(s, r, e) ==
  LET behind == Len(Whole) - (s - 1) IN
    /\ ~executing /\ First(endTag, action, e) /\ \A i \in 1..e - 1 : action[i] = r[i]
    /\ behind <= Len(r) - (e + 1) /\ \A i \in 1..behind : Whole[(s - 1) + i] = r[(Len(r) - behind) + i]

OneAction(r, e) == First(endTag, r, e) /\ \A j : Occurs(startTag, r, j) => j <= e + 1

(* An answer with one: the text in front of it is shown; without an end all   *)
(* of the rest is the action, and with one the action is what stands before.  *)
CutOut ==
  \A s : First(startTag, arrived, s) =>
    LET r == After(arrived, s) IN
      /\ Len(displayed) >= s - 1 /\ \A i \in 1..s - 1 : displayed[i] = arrived[i]
      /\ (\A i : ~Occurs(endTag, r, i)) => executing /\ action = r /\ Len(displayed) = s - 1
      /\ \A e : OneAction(r, e) => ShownBehind(s, r, e)

ActionInv == ActionTypes /\ ShownAsItCame /\ CutOut

LEMMA ActionInitInv == ActionTextInit => ActionInv
<1> SUFFICES ASSUME ActionTextInit PROVE ActionInv
 OBVIOUS
<1>1. <<>> \in Text /\ Len(<<>>) = 0 /\ <<>> \o <<>> = <<>> BY DEF Text
<1>2. \A tag, i : ~Occurs(tag, <<>>, i) BY <1>1 DEF Occurs
<1> QED BY <1>1, <1>2 DEF ActionTextInit, ActionInv, ActionTypes, ShownAsItCame, CutOut, First, Whole

(* What comes behind a text moves nothing in it. *)
LEMMA Stays ==
  ASSUME NEW tag, NEW s \in Text, NEW t \in Text
  PROVE  /\ \A i : Occurs(tag, s, i) => Occurs(tag, s \o t, i)
         /\ \A i : Occurs(tag, s \o t, i) /\ i < Len(s) => Occurs(tag, s, i)
         /\ \A i : First(tag, s, i) => First(tag, s \o t, i)
         /\ \A i : Occurs(tag, t, i) => Occurs(tag, s \o t, Len(s) + i)
         /\ \A i : Occurs(tag, s \o t, i) /\ i > Len(s) => Occurs(tag, t, i - Len(s))
<1>1. /\ s \o t \in Text /\ Len(s \o t) = Len(s) + Len(t) /\ Len(s) \in Nat /\ Len(t) \in Nat
      /\ \A j \in 1..Len(s) : (s \o t)[j] = s[j]
      /\ \A j \in 1..Len(t) : (s \o t)[Len(s) + j] = t[j]
 BY JoinText
<1>2. ASSUME NEW i PROVE Occurs(tag, s, i) => Occurs(tag, s \o t, i)
 BY <1>1 DEF Occurs
<1>3. ASSUME NEW i PROVE Occurs(tag, s \o t, i) /\ i < Len(s) => Occurs(tag, s, i)
 BY <1>1 DEF Occurs
<1>4. ASSUME NEW i, First(tag, s, i) PROVE First(tag, s \o t, i)
 BY <1>1, <1>2, <1>3, <1>4 DEF First, Occurs
<1>5. ASSUME NEW i, Occurs(tag, t, i) PROVE Occurs(tag, s \o t, Len(s) + i)
 <2>1. /\ i \in 1..Len(t) /\ i + 1 \in 1..Len(t) /\ Len(s) + i \in 1..Len(s \o t) - 1
       /\ (Len(s) + i) + 1 = Len(s) + (i + 1)
  BY <1>1, <1>5 DEF Occurs
 <2> QED BY <1>1, <1>5, <2>1 DEF Occurs
<1>6. ASSUME NEW i, Occurs(tag, s \o t, i), i > Len(s) PROVE Occurs(tag, t, i - Len(s))
 <2>1. /\ i - Len(s) \in 1..Len(t) - 1 /\ (i - Len(s)) + 1 \in 1..Len(t)
       /\ i = Len(s) + (i - Len(s)) /\ i + 1 = Len(s) + ((i - Len(s)) + 1)
  BY <1>1, <1>6 DEF Occurs
 <2> QED BY <1>1, <1>6, <2>1 DEF Occurs
<1> QED BY <1>2, <1>3, <1>4, <1>5, <1>6

(* Of an answer with a tag there is a first one. *)
LEMMA FirstThere ==
  ASSUME NEW tag \in Tags, NEW s \in Text
  PROVE  /\ (\A i : ~Occurs(tag, s, i)) \/ \E i \in Nat : First(tag, s, i)
         /\ \A i, j : First(tag, s, i) /\ First(tag, s, j) => i = j
BY FirstOrNone, OnlyFirst

LEMMA Regrouped == \A x, y, z \in Text : (x \o y) \o z = x \o (y \o z)
<1> SUFFICES ASSUME NEW x \in Text, NEW y \in Text, NEW z \in Text
             PROVE  (x \o y) \o z = x \o (y \o z)
 OBVIOUS
<1> QED BY ConcatAssociative DEF Text

(* The three cases of Chunk, with the tags' places. *)
Looks(b) == /\ ~executing /\ IndexOf(startTag, b) # 0
            /\ displayed' = displayed \o Before(b, IndexOf(startTag, b))
            /\ action' = After(b, IndexOf(startTag, b)) /\ textBuffer' = <<>>
            /\ executing' = (IndexOf(endTag, action') = 0)
Keeps(c) == /\ executing /\ action' = action \o c /\ executing' = (IndexOf(endTag, action') = 0)
            /\ UNCHANGED <<textBuffer, displayed>>
Shows(b, c) == /\ ~executing /\ IndexOf(startTag, b) = 0 /\ UNCHANGED <<executing, action>>
               /\ Whole' = Whole \o c
               /\ textBuffer' = <<>> => displayed' # <<>> /\ displayed'[Len(displayed')] # "<"

(* What a chunk does, in terms of what is shown or held back in all. *)
LEMMA ChunkParts ==
  ASSUME ActionInv, NEW c \in Text, c # <<>>, Chunk(c), NEW b, b = textBuffer \o c
  PROVE  /\ b \in Text /\ textBuffer \in Text /\ displayed \o b = Whole \o c
         /\ arrived' = arrived \o c /\ ~ended /\ ended' = ended
         /\ Keeps(c) \/ Looks(b) \/ Shows(b, c)
         /\ \E x \in Text : displayed' = displayed \o x
         /\ ActionTypes'
<1>0. /\ arrived \in Text /\ displayed \in Text /\ action \in Text /\ textBuffer \in {<<>>, <<"<">>}
      /\ executing \in BOOLEAN /\ ended \in BOOLEAN /\ (executing => textBuffer = <<>>)
 BY DEF ActionInv, ActionTypes
<1>1. textBuffer \in Text /\ <<>> \in Text
 <2>1. <<>> \in Text /\ <<"<">> \in Text BY DEF Text, Symbols
 <2> QED BY <1>0, <2>1
<1>2. b \in Text /\ Len(b) = Len(textBuffer) + Len(c) /\ arrived \o c \in Text
 BY <1>0, <1>1, JoinText
<1>3. b # <<>>
 <2>1. Len(c) \in Nat \ {0} /\ Len(textBuffer) \in Nat BY <1>1, EmptySeq DEF Text
 <2>2. Len(b) # 0 BY <1>2, <2>1
 <2>3. Len(<<>>) = 0 BY EmptySeq
 <2> QED BY <2>2, <2>3, Zenon
<1>4. displayed \o b = Whole \o c BY <1>0, <1>1, Regrouped, Zenon DEF Whole
<1>5. arrived' = arrived \o c /\ ~ended /\ ended' = ended BY DEF Chunk
<1>6. PICK x, y : x = Sendable(b) /\ y = Reserve(b) OBVIOUS
<1>9. /\ x \in Text /\ y \in {<<>>, <<"<">>} /\ y \in Text /\ x \o y = b
      /\ y = <<>> => x # <<>> /\ x[Len(x)] # "<"
 <2>1. /\ x \in Text /\ y \in {<<>>, <<"<">>} /\ x \o y = b
       /\ y = <<>> => x # <<>> /\ x[Len(x)] # "<"
  BY <1>2, <1>3, <1>6, KeptBack
 <2>2. <<>> \in Text /\ <<"<">> \in Text BY DEF Text, Symbols
 <2> QED BY <2>1, <2>2
<1>10. CASE Keeps(c)
 <2>1. displayed' = displayed \o <<>> BY <1>0, <1>10, ConcatEmptySeq DEF Keeps, Text
 <2>2. action' \in Text /\ executing' \in BOOLEAN /\ textBuffer' = <<>> /\ displayed' = displayed
  BY <1>0, <1>10, JoinText DEF Keeps
 <2>3. ActionTypes' BY <1>0, <1>2, <1>5, <2>2 DEF ActionTypes
 <2> QED BY <1>1, <1>2, <1>4, <1>5, <1>10, <2>1, <2>3
<1>11. CASE Looks(b)
 <2>1. PICK i : i = IndexOf(startTag, b) OBVIOUS
 <2>2. i \in 1..Len(b) - 1 BY <1>2, <1>11, <2>1, FirstOrNone DEF Looks, Tags, First, Occurs
 <2>3. Before(b, i) \in Text /\ After(b, i) \in Text BY <1>2, <2>2, CutText
 <2>4. /\ displayed' = displayed \o Before(b, i) /\ action' = After(b, i) /\ textBuffer' = <<>>
       /\ executing' \in BOOLEAN
  BY <1>11, <2>1 DEF Looks
 <2>5. displayed' \in Text BY <1>0, <2>3, <2>4, JoinText
 <2>6. ActionTypes' BY <1>0, <1>2, <1>5, <2>3, <2>4, <2>5 DEF ActionTypes
 <2> QED BY <1>1, <1>2, <1>4, <1>5, <1>11, <2>3, <2>4, <2>6
<1>12. ASSUME ~executing, IndexOf(startTag, b) = 0, displayed' = displayed \o x, textBuffer' = y,
              UNCHANGED <<executing, action>>
       PROVE  Shows(b, c) /\ ActionTypes'
 <2>1. Whole' = Whole \o c
  <3>1. (displayed \o x) \o y = displayed \o (x \o y) BY ZenonT(60), <1>0, <1>9, Regrouped
  <3> QED BY <1>4, <1>9, <1>12, <3>1 DEF Whole
 <2>2. displayed' \in Text /\ Len(displayed') = Len(displayed) + Len(x)
       /\ Len(displayed) \in Nat /\ Len(x) \in Nat
       /\ \A j \in 1..Len(x) : displayed'[Len(displayed) + j] = x[j]
  BY <1>0, <1>9, <1>12, JoinText
 <2>3. ASSUME y = <<>> PROVE displayed' # <<>> /\ displayed'[Len(displayed')] # "<"
  <3>1. Len(x) \in Nat \ {0} BY <1>9, <2>3, EmptySeq DEF Text
  <3>2. displayed'[Len(displayed')] = x[Len(x)] /\ Len(displayed') # 0 BY <2>2, <3>1
  <3>3. Len(<<>>) = 0 BY EmptySeq
  <3> QED BY <1>9, <2>3, <3>2, <3>3, Zenon
 <2>4. ActionTypes' BY <1>0, <1>2, <1>5, <1>9, <1>12, <2>2 DEF ActionTypes
 <2> QED BY <1>12, <2>1, <2>3, <2>4 DEF Shows
<1>13. \/ Keeps(c) \/ Looks(b)
       \/ /\ ~executing /\ IndexOf(startTag, b) = 0 /\ displayed' = displayed \o x /\ textBuffer' = y
          /\ UNCHANGED <<executing, action>>
 BY <1>6 DEF Chunk, Keeps, Looks, Sendable, Reserve
<1> QED BY <1>2, <1>1, <1>4, <1>5, <1>9, <1>10, <1>11, <1>12, <1>13

(* A tag in what arrives is one in what was held back and the chunk. *)
LEMMA ChunkTags ==
  ASSUME ActionInv, NoAction, NEW c \in Text, NEW b \in Text, b = textBuffer \o c,
         ~ended, displayed \o b = arrived \o c, textBuffer \in Text
  PROVE  \A i \in Nat : Occurs(startTag, arrived \o c, i) <=> i > Len(displayed) /\ Occurs(startTag, b, i - Len(displayed))
<1>0. /\ arrived \in Text /\ displayed \in Text /\ Whole = arrived
      /\ textBuffer = <<>> => displayed = <<>> \/ displayed[Len(displayed)] # "<"
      /\ textBuffer \in {<<>>, <<"<">>}
 BY DEF ActionInv, ActionTypes, ShownAsItCame
<1>1. /\ Len(displayed) \in Nat /\ Len(arrived) = Len(displayed) + Len(textBuffer)
      /\ Len(arrived) \in Nat /\ Len(textBuffer) \in Nat /\ Len(b) \in Nat
      /\ Len(displayed \o b) = Len(displayed) + Len(b)
      /\ \A j \in 1..Len(displayed) : (displayed \o b)[j] = displayed[j]
 BY <1>0, JoinText DEF Whole
<1>2. ASSUME NEW i \in Nat, Occurs(startTag, arrived \o c, i) PROVE i > Len(displayed)
 <2>1. i \in Nat /\ i > 0 /\ i + 1 <= Len(displayed \o b) /\ (displayed \o b)[i] = "<" /\ (arrived \o c)[i] = "<"
  BY <1>1, <1>2 DEF Occurs, startTag
 <2>2. i >= Len(arrived)
  <3>1. Occurs(startTag, arrived \o c, i) /\ i < Len(arrived) => Occurs(startTag, arrived, i)
   BY <1>0, Stays, Zenon
  <3>2. ~(i < Len(arrived)) BY <1>2, <3>1, Zenon DEF NoAction
  <3> QED BY <1>1, <3>2
 <2>3. SUFFICES ASSUME i <= Len(displayed) PROVE FALSE
  BY <1>1, <2>1
 <2>4. i = Len(displayed) /\ Len(textBuffer) = 0 BY <1>1, <2>2, <2>3, <2>1
 <2>5. textBuffer = <<>> BY <1>0, <2>4, EmptySeq DEF Text
 <2>6. displayed # <<>>
  <3>1. Len(displayed) # 0 /\ Len(<<>>) = 0 BY <2>1, <2>4, EmptySeq
  <3> QED BY <3>1, Zenon
 <2>7. displayed[Len(displayed)] = "<" BY <1>1, <2>1, <2>4
 <2> QED BY <1>0, <2>5, <2>6, <2>7
<1>3. ASSUME NEW i \in Nat, i > Len(displayed), Occurs(startTag, arrived \o c, i)
      PROVE  Occurs(startTag, b, i - Len(displayed))
 BY <1>0, <1>3, Stays
<1>4. ASSUME NEW i \in Nat, i > Len(displayed), Occurs(startTag, b, i - Len(displayed))
      PROVE  Occurs(startTag, arrived \o c, i)
 <2>1. i - Len(displayed) \in Nat BY <1>1, <1>4 DEF Occurs
 <2>2. Occurs(startTag, displayed \o b, Len(displayed) + (i - Len(displayed)))
  BY <1>0, <1>4, Stays
 <2>3. PICK k : k = i - Len(displayed) OBVIOUS
 <2> QED BY <1>1, <1>4, <2>1, <2>2
<1> QED BY <1>2, <1>3, <1>4

(* The first action begins in this chunk, or none has begun yet. *)
LEMMA ChunkFirst ==
  ASSUME ActionInv, NoAction, NEW c \in Text, c # <<>>, Chunk(c)
  PROVE  ShownAsItCame' /\ CutOut'
<1>0. PICK b : b = textBuffer \o c OBVIOUS
<1>1. /\ arrived \in Text /\ displayed \in Text /\ Whole = arrived /\ ~executing /\ action = <<>>
 BY DEF ActionInv, ActionTypes, ShownAsItCame
<1>2. /\ b \in Text /\ textBuffer \in Text /\ arrived' = displayed \o b /\ arrived' \in Text
      /\ arrived \o c = displayed \o b
      /\ ~ended /\ (Looks(b) \/ Shows(b, c))
 BY <1>0, <1>1, ChunkParts DEF Keeps, ActionTypes
<1>3. /\ Len(displayed) \in Nat /\ Len(b) \in Nat /\ Len(arrived') = Len(displayed) + Len(b)
      /\ \A j \in 1..Len(displayed) : arrived'[j] = displayed[j]
      /\ \A j \in 1..Len(b) : arrived'[Len(displayed) + j] = b[j]
 BY <1>1, <1>2, JoinText
<1>4. \A i \in Nat : Occurs(startTag, arrived', i)
                    <=> i > Len(displayed) /\ Occurs(startTag, b, i - Len(displayed))
 BY <1>0, <1>2, ChunkTags
<1>5. \A i : Occurs(startTag, arrived', i) => i \in Nat BY <1>3 DEF Occurs
<1>6. CASE Shows(b, c)
 <2>1. \A i : ~Occurs(startTag, b, i) BY <1>2, <1>6, FirstOrNone DEF Shows, Tags
 <2>2. NoAction' BY <1>4, <1>5, <2>1 DEF NoAction
 <2>3. /\ ~executing' /\ action' = <<>> /\ Whole' = arrived'
       /\ textBuffer' = <<>> => displayed' = <<>> \/ displayed'[Len(displayed')] # "<"
  BY <1>1, <1>2, <1>6, ChunkParts DEF Shows
 <2> QED BY <2>2, <2>3 DEF ShownAsItCame, CutOut, First, NoAction
<1>7. CASE Looks(b)
 <2>1. PICK k : k = IndexOf(startTag, b) OBVIOUS
 <2>2. First(startTag, b, k) /\ k \in 1..Len(b) - 1 /\ k \in Nat
  <3>1. First(startTag, b, k) BY <1>2, <1>7, <2>1, FirstOrNone DEF Looks, Tags
  <3> QED BY SMTT(30), <1>3, <3>1 DEF First, Occurs
 <2>3. PICK s : s = Len(displayed) + k OBVIOUS
 <2>4. s \in 1..Len(arrived') - 1 /\ s \in Nat /\ s > Len(displayed) /\ s - Len(displayed) = k
  BY <1>3, <2>2, <2>3
 <2>5. First(startTag, arrived', s)
  <3>1. Occurs(startTag, arrived', s) BY <1>4, <2>2, <2>4 DEF First
  <3>2. ASSUME NEW j \in Nat, Occurs(startTag, arrived', j) PROVE s <= j
   <4>1. j > Len(displayed) /\ Occurs(startTag, b, j - Len(displayed)) BY <1>4, <3>2
   <4>2. j - Len(displayed) \in Nat BY <1>3, <4>1
   <4>3. k <= j - Len(displayed) BY <2>2, <4>1, <4>2 DEF First
   <4> QED BY <1>3, <2>2, <2>3, <4>3
  <3> QED BY <3>1, <3>2 DEF First
 <2>6. ~NoAction' BY <2>5 DEF NoAction, First
 <2>7. /\ Before(b, k) \in Text /\ Len(Before(b, k)) = k - 1 /\ \A j \in 1..k - 1 : Before(b, k)[j] = b[j]
       /\ After(b, k) \in Text /\ Len(After(b, k)) = Len(b) - k - 1
       /\ \A j \in 1..Len(b) - k - 1 : After(b, k)[j] = b[k + 1 + j]
  BY <1>2, <2>2, CutText
 <2>8. PICK r : r = After(b, k) OBVIOUS
 <2>9. After(arrived', s) = r
  <3>1. /\ After(arrived', s) \in Text /\ Len(After(arrived', s)) = Len(arrived') - s - 1
        /\ \A j \in 1..Len(arrived') - s - 1 : After(arrived', s)[j] = arrived'[s + 1 + j]
   BY <1>2, <2>4, CutText
  <3>2. Len(arrived') - s - 1 = Len(b) - k - 1 BY <1>3, <2>2, <2>3
  <3>3. ASSUME NEW j \in 1..Len(r) PROVE After(arrived', s)[j] = r[j]
   <4>1. /\ j \in 1..Len(b) - k - 1 /\ k + 1 + j \in 1..Len(b)
         /\ s + 1 + j = Len(displayed) + (k + 1 + j)
    BY <1>3, <2>2, <2>3, <2>7, <2>8
   <4>2. r[j] = b[k + 1 + j] /\ arrived'[s + 1 + j] = b[k + 1 + j] BY <1>3, <2>7, <2>8, <4>1
   <4> QED BY <3>1, <3>2, <4>1, <4>2
  <3>4. /\ After(arrived', s) \in Seq(Symbols) /\ r \in Seq(Symbols) /\ Len(After(arrived', s)) = Len(r)
   BY <2>7, <2>8, <3>1, <3>2 DEF Text
  <3> QED BY ONLY <3>3, <3>4
 <2>10. /\ displayed' = displayed \o Before(b, k) /\ action' = r /\ textBuffer' = <<>>
        /\ executing' = (IndexOf(endTag, r) = 0)
  BY <1>7, <2>1, <2>8 DEF Looks
 <2>11. /\ displayed' \in Text /\ Len(displayed') = s - 1 /\ \A i \in 1..s - 1 : displayed'[i] = arrived'[i]
  <3>1. /\ displayed' \in Text /\ Len(displayed') = Len(displayed) + Len(Before(b, k))
        /\ \A j \in 1..Len(displayed) : displayed'[j] = displayed[j]
        /\ \A j \in 1..Len(Before(b, k)) : displayed'[Len(displayed) + j] = Before(b, k)[j]
   BY <1>1, <2>7, <2>10, JoinText
  <3>2. Len(displayed') = s - 1 BY <1>3, <2>2, <2>3, <2>7, <3>1
  <3>3. ASSUME NEW i \in 1..s - 1 PROVE displayed'[i] = arrived'[i]
   <4>1. CASE i <= Len(displayed) BY <1>3, <3>1, <4>1
   <4>2. CASE i > Len(displayed)
    <5>1. PICK j : j = i - Len(displayed) OBVIOUS
    <5>2. j \in 1..k - 1 /\ j \in 1..Len(b) /\ i = Len(displayed) + j
     BY <1>3, <2>2, <2>3, <4>2, <5>1
    <5> QED BY <1>3, <2>7, <3>1, <5>2
   <4> QED BY <1>3, <2>4, <4>1, <4>2
  <3> QED BY <3>1, <3>2, <3>3
 <2>12. Whole' = displayed' BY <2>10, <2>11, ConcatEmptySeq DEF Whole, Text
 <2>13. (\A i : ~Occurs(endTag, r, i)) => executing'
  BY <2>7, <2>8, <2>10, FirstOrNone DEF Tags, First
 <2>14. ASSUME NEW e, OneAction(r, e) PROVE ShownBehind(s, r, e)'
  <3>1. First(endTag, r, e) /\ e \in 1..Len(r) - 1 BY <2>14 DEF OneAction, First, Occurs
  <3>2. ~executing' BY <2>7, <2>8, <2>10, <3>1, OnlyFirst DEF Tags
  <3>3. Len(Whole') - (s - 1) = 0 /\ Len(r) \in Nat BY <2>4, <2>7, <2>8, <2>11, <2>12 DEF Text
  <3> QED BY <2>10, <3>1, <3>2, <3>3 DEF ShownBehind
 <2>15. ASSUME NEW q, First(startTag, arrived', q) PROVE q = s
  BY <1>2, <2>5, <2>15, FirstThere DEF Tags
 <2> QED BY <2>4, <2>6, <2>9, <2>10, <2>11, <2>13, <2>14, <2>15 DEF ShownAsItCame, CutOut
<1> QED BY <1>2, <1>6, <1>7

(* An action has begun: what comes is part of it, or is shown behind it. *)
LEMMA ChunkAfter ==
  ASSUME ActionInv, NEW s, First(startTag, arrived, s), NEW c \in Text, c # <<>>, Chunk(c)
  PROVE  ShownAsItCame' /\ CutOut'
<1>0. PICK b : b = textBuffer \o c OBVIOUS
<1>1. /\ arrived \in Text /\ displayed \in Text /\ action \in Text /\ ~NoAction
      /\ s \in 1..Len(arrived) - 1 /\ s \in Nat /\ Len(arrived) \in Nat
 <2>1. arrived \in Text /\ displayed \in Text /\ action \in Text BY DEF ActionInv, ActionTypes
 <2>2. ~NoAction BY DEF NoAction, First
 <2>3. s \in 1..Len(arrived) - 1 /\ s \in Nat /\ Len(arrived) \in Nat
  BY <2>1 DEF First, Occurs, Text
 <2> QED BY <2>1, <2>2, <2>3
<1>2. /\ b \in Text /\ textBuffer \in Text /\ displayed \o b = Whole \o c /\ arrived' = arrived \o c
      /\ Keeps(c) \/ Looks(b) \/ Shows(b, c)
 BY <1>0, ChunkParts
<1>3. PICK x \in Text : displayed' = displayed \o x BY ChunkParts
<1>4. PICK r : r = After(arrived, s) OBVIOUS
<1>5. PICK r1 : r1 = r \o c OBVIOUS
<1>6. /\ r \in Text /\ Len(r) = Len(arrived) - s - 1
      /\ \A j \in 1..Len(arrived) - s - 1 : r[j] = arrived[s + 1 + j]
 BY <1>1, <1>4, CutText
<1>7. /\ r1 \in Text /\ Len(r1) = Len(r) + Len(c) /\ Len(r) \in Nat /\ Len(c) \in Nat
      /\ \A j \in 1..Len(r) : r1[j] = r[j]
      /\ \A j \in 1..Len(c) : r1[Len(r) + j] = c[j]
 BY <1>5, <1>6, JoinText
<1>8. /\ arrived' \in Text /\ Len(arrived') = Len(arrived) + Len(c)
      /\ \A j \in 1..Len(arrived) : arrived'[j] = arrived[j]
      /\ \A j \in 1..Len(c) : arrived'[Len(arrived) + j] = c[j]
 BY <1>1, <1>2, JoinText
<1>9. First(startTag, arrived', s) /\ ~NoAction'
 <2>1. First(startTag, arrived', s) BY <1>1, <1>2, Stays
 <2> QED BY <2>1 DEF First, NoAction
<1>10. \A q : First(startTag, arrived', q) => q = s BY <1>8, <1>9, FirstThere DEF Tags
<1>11. After(arrived', s) = r1
 <2>1. s \in 1..Len(arrived') - 1 BY <1>1, <1>7, <1>8
 <2>2. /\ After(arrived', s) \in Text /\ Len(After(arrived', s)) = Len(arrived') - s - 1
       /\ \A j \in 1..Len(arrived') - s - 1 : After(arrived', s)[j] = arrived'[s + 1 + j]
  BY <1>8, <2>1, CutText
 <2>3. Len(arrived') - s - 1 = Len(r1) BY <1>1, <1>6, <1>7, <1>8
 <2>4. ASSUME NEW j \in 1..Len(r1) PROVE After(arrived', s)[j] = r1[j]
  <3>1. CASE j <= Len(r)
   <4>1. j \in 1..Len(r) /\ j \in 1..Len(arrived) - s - 1 /\ s + 1 + j \in 1..Len(arrived)
    BY <1>1, <1>6, <1>7, <2>4, <3>1
   <4>2. r1[j] = arrived[s + 1 + j] /\ arrived'[s + 1 + j] = arrived[s + 1 + j]
    BY <1>6, <1>7, <1>8, <4>1
   <4> QED BY <2>2, <2>3, <2>4, <4>2
  <3>2. CASE j > Len(r)
   <4>1. PICK k : k = j - Len(r) OBVIOUS
   <4>2. k \in 1..Len(c) /\ j = Len(r) + k /\ s + 1 + j = Len(arrived) + k
    BY <1>1, <1>6, <1>7, <2>4, <3>2, <4>1
   <4>3. r1[j] = c[k] /\ arrived'[s + 1 + j] = c[k] BY <1>7, <1>8, <4>2
   <4> QED BY <2>2, <2>3, <2>4, <4>3
  <3> QED BY <1>7, <2>4, <3>1, <3>2
 <2>5. /\ After(arrived', s) \in Seq(Symbols) /\ r1 \in Seq(Symbols) /\ Len(After(arrived', s)) = Len(r1)
  BY <1>7, <2>2, <2>3 DEF Text
 <2> QED BY ONLY <2>4, <2>5
<1>12. Len(displayed') >= s - 1 /\ \A i \in 1..s - 1 : displayed'[i] = arrived'[i]
 <2>1. Len(displayed) >= s - 1 /\ \A i \in 1..s - 1 : displayed[i] = arrived[i]
  BY DEF ActionInv, CutOut
 <2>2. /\ Len(displayed') = Len(displayed) + Len(x) /\ Len(displayed) \in Nat /\ Len(x) \in Nat
       /\ \A j \in 1..Len(displayed) : displayed'[j] = displayed[j]
  BY <1>1, <1>3, JoinText
 <2>3. ASSUME NEW i \in 1..s - 1 PROVE displayed'[i] = arrived'[i]
  <3>1. i \in 1..Len(displayed) /\ i \in 1..Len(arrived) BY <1>1, <2>1, <2>2
  <3> QED BY <1>8, <2>1, <2>2, <3>1
 <2> QED BY <1>1, <2>1, <2>2, <2>3
<1> SUFFICES /\ (\A i : ~Occurs(endTag, r1, i)) => executing' /\ action' = r1 /\ Len(displayed') = s - 1
             /\ \A e : OneAction(r1, e) => ShownBehind(s, r1, e)'
 BY <1>9, <1>10, <1>11, <1>12 DEF ShownAsItCame, CutOut, ShownBehind, OneAction
<1>13. CASE \A i : ~Occurs(endTag, r, i)
 <2>1. executing /\ action = r /\ Len(displayed) = s - 1 /\ textBuffer = <<>>
  BY <1>4, <1>13 DEF ActionInv, CutOut, ActionTypes
 <2>2. action' = r1 /\ displayed' = displayed /\ textBuffer' = <<>> /\ executing' = (IndexOf(endTag, r1) = 0)
  BY <1>2, <1>5, <2>1 DEF Keeps, Looks, Shows
 <2>3. Len(Whole') = s - 1 BY <1>1, <2>1, <2>2, ConcatEmptySeq DEF Whole, Text
 <2>4. (\A i : ~Occurs(endTag, r1, i)) => executing' BY <1>7, <2>2, FirstOrNone DEF Tags, First
 <2>5. ASSUME NEW e, OneAction(r1, e) PROVE ShownBehind(s, r1, e)'
  <3>1. First(endTag, r1, e) /\ e \in 1..Len(r1) - 1 BY <2>5 DEF OneAction, First, Occurs
  <3>2. ~executing' BY <1>7, <2>2, <3>1, OnlyFirst DEF Tags
  <3>3. Len(Whole') - (s - 1) = 0 /\ Len(r1) \in Nat BY <1>1, <1>7, <2>3
  <3> QED BY <2>2, <3>1, <3>2, <3>3 DEF ShownBehind
 <2> QED BY <2>1, <2>2, <2>4, <2>5
<1>14. ASSUME NEW e, First(endTag, r, e)
       PROVE  /\ \E i : Occurs(endTag, r1, i)
              /\ \A q : OneAction(r1, q) => ShownBehind(s, r1, q)'
 <2>1. First(endTag, r1, e) BY <1>5, <1>6, <1>14, Stays
 <2>2. e \in 1..Len(r) - 1 /\ e \in Nat BY <1>7, <1>14 DEF First, Occurs
 <2>3. SUFFICES ASSUME OneAction(r1, e) PROVE ShownBehind(s, r1, e)'
  <3>1. \A q : OneAction(r1, q) => q = e BY <1>7, <2>1, FirstThere DEF Tags, OneAction
  <3> QED BY <2>1, <3>1 DEF First
 <2>4. \A j : Occurs(startTag, r, j) => Occurs(startTag, r1, j) BY <1>5, <1>6, Stays
 <2>5. OneAction(r, e) BY <1>14, <2>3, <2>4 DEF OneAction
 <2>6. ShownBehind(s, r, e) BY <1>4, <2>5 DEF ActionInv, CutOut
 <2>7. PICK u : u = Len(Whole) - (s - 1) OBVIOUS
 <2>8. /\ Whole \in Text /\ Len(Whole) = Len(displayed) + Len(textBuffer)
       /\ Len(displayed) \in Nat /\ Len(textBuffer) \in Nat
  BY <1>1, <1>2, JoinText DEF Whole
 <2>9. /\ u \in Nat /\ u <= Len(r) - (e + 1) /\ Len(displayed) >= s - 1
       /\ \A i \in 1..u : Whole[(s - 1) + i] = r[(Len(r) - u) + i]
  <3>1. Len(displayed) >= s - 1 BY DEF ActionInv, CutOut
  <3> QED BY <1>1, <2>6, <2>7, <2>8, <3>1 DEF ShownBehind
 <2>10. PICK w : w = Whole \o c OBVIOUS
 <2>11. /\ Len(w) = Len(Whole) + Len(c)
        /\ \A j \in 1..Len(Whole) : w[j] = Whole[j]
        /\ \A j \in 1..Len(c) : w[Len(Whole) + j] = c[j]
  BY <2>8, <2>10, JoinText
 <2>12. PICK v : v = u + Len(c) OBVIOUS
 <2>13. /\ v = Len(w) - (s - 1) /\ v \in Nat /\ v <= Len(r1) - (e + 1)
  <3>1. Len(w) = Len(Whole) + Len(c) /\ Len(r1) = Len(r) + Len(c) /\ u <= Len(r) - (e + 1)
   BY <1>7, <2>9, <2>11
  <3>2. /\ Len(Whole) \in Nat /\ Len(c) \in Nat /\ Len(r) \in Nat /\ s \in Nat /\ u \in Nat /\ e \in Nat
   BY <1>1, <1>7, <2>2, <2>8, <2>9
  <3> QED BY ONLY <2>7, <2>12, <3>1, <3>2
 <2>14. ASSUME NEW i \in 1..v PROVE w[(s - 1) + i] = r1[(Len(r1) - v) + i]
  <3>1. Len(r1) - v = Len(r) - u BY <1>7, <2>9, <2>12
  <3>2. CASE i <= u
   <4>1. /\ i \in 1..u /\ (s - 1) + i \in 1..Len(Whole) /\ (Len(r) - u) + i \in 1..Len(r)
    BY SMTT(30), <1>1, <1>7, <2>2, <2>7, <2>8, <2>9, <2>14, <3>2
   <4> QED BY <1>7, <2>9, <2>11, <3>1, <4>1
  <3>3. CASE i > u
   <4>1. PICK k : k = i - u OBVIOUS
   <4>2. k \in 1..Len(c) /\ (s - 1) + i = Len(Whole) + k /\ (Len(r) - u) + i = Len(r) + k
    <5>1. /\ Len(Whole) \in Nat /\ Len(c) \in Nat /\ Len(r) \in Nat /\ s \in Nat /\ u \in Nat
     BY <1>1, <1>7, <2>8, <2>9
    <5> QED BY ONLY <2>7, <2>12, <2>14, <3>3, <4>1, <5>1
   <4> QED BY <1>7, <2>11, <3>1, <4>2
  <3> QED BY <2>9, <2>14, <2>13, <3>2, <3>3
 <2>15. ~executing /\ First(endTag, action, e) /\ \A i \in 1..e - 1 : action[i] = r[i]
  BY <2>6 DEF ShownBehind
 <2>16. \A i \in 1..e - 1 : r1[i] = r[i] BY <1>7, <2>2
 <2>17. ~Looks(b)
  <3> SUFFICES ASSUME Looks(b) PROVE FALSE
   OBVIOUS
  <3>1. PICK k : First(startTag, b, k) BY <1>2, FirstOrNone DEF Looks, Tags
  <3>2. /\ k \in 1..Len(b) - 1 /\ k + 1 \in 1..Len(b) /\ k \in 1..Len(b) /\ Len(b) \in Nat
        /\ b[k] = startTag[1] /\ b[k + 1] = startTag[2]
   BY <1>2, <3>1 DEF First, Occurs, Text
  <3>3. /\ w = displayed \o b /\ Len(w) = Len(displayed) + Len(b)
        /\ \A j \in 1..Len(b) : w[Len(displayed) + j] = b[j]
   <4>1. w = displayed \o b BY <1>2, <2>10
   <4>2. displayed \in Text /\ b \in Text BY <1>1, <1>2
   <4> QED BY ONLY <4>1, <4>2, JoinText, SMTT(30)
  <3>4. PICK d : d = Len(r1) - Len(b) OBVIOUS
  <3>5. ASSUME NEW j \in 1..Len(b) PROVE r1[d + j] = b[j]
   <4>1. PICK i : i = (Len(displayed) + j) - (s - 1) OBVIOUS
   <4>2. i \in 1..v /\ (s - 1) + i = Len(displayed) + j /\ (Len(r1) - v) + i = d + j
    BY <1>1, <1>7, <2>8, <2>9, <2>13, <3>2, <3>3, <3>4, <4>1
   <4> QED BY <2>14, <3>3, <4>2
  <3>6. d + k \in 1..Len(r1) - 1 /\ d + k > e + 1 /\ (d + k) + 1 = d + (k + 1)
   <4>1. /\ Len(r1) \in Nat /\ Len(b) \in Nat /\ v \in Nat /\ s \in Nat /\ e \in Nat /\ Len(displayed) \in Nat
         /\ Len(displayed) >= s - 1 /\ v = Len(w) - (s - 1) /\ v <= Len(r1) - (e + 1)
         /\ Len(w) = Len(displayed) + Len(b)
    BY <1>1, <1>7, <2>2, <2>8, <2>9, <2>13, <3>2, <3>3
   <4>2. d >= e + 1 /\ d \in Nat BY ONLY <3>4, <4>1
   <4>3. k \in Nat /\ k > 0 /\ k + 1 <= Len(b) BY <3>2
   <4> QED BY ONLY <3>4, <4>1, <4>2, <4>3
  <3>7. Occurs(startTag, r1, d + k) BY <3>2, <3>5, <3>6 DEF Occurs
  <3> QED BY <1>7, <2>2, <2>3, <3>4, <3>2, <3>6, <3>7 DEF OneAction
 <2>18. Shows(b, c) BY <1>2, <2>15, <2>17 DEF Keeps
 <2>19. Whole' = w /\ executing' = executing /\ action' = action BY <2>10, <2>18 DEF Shows
 <2> QED BY <2>13, <2>14, <2>15, <2>16, <2>19 DEF ShownBehind
<1> QED BY <1>6, <1>13, <1>14, FirstThere DEF Tags

LEMMA EndsKeeps == ASSUME ActionInv, Ends PROVE ActionInv'
<1>1. /\ arrived \in Text /\ displayed \in Text /\ action \in Text /\ textBuffer \in Text
      /\ executing \in BOOLEAN /\ (executing => textBuffer = <<>>)
 <2>1. <<>> \in Text /\ <<"<">> \in Text BY DEF Text, Symbols
 <2> QED BY <2>1 DEF ActionInv, ActionTypes
<1>2. /\ arrived' = arrived /\ action' = action /\ executing' = executing /\ ended' = TRUE
      /\ textBuffer' = <<>> /\ displayed' = displayed \o textBuffer
 <2>1. displayed \o <<>> = displayed BY <1>1, ConcatEmptySeq DEF Text
 <2> QED BY <1>1, <2>1 DEF Ends
<1>3. displayed' \in Text /\ Whole' = Whole
 <2>1. displayed' \in Text BY <1>1, <1>2, JoinText
 <2> QED BY <1>2, <2>1, ConcatEmptySeq DEF Whole, Text
<1>4. ActionTypes' BY <1>1, <1>2, <1>3 DEF ActionTypes
<1>5. ShownAsItCame' BY <1>2, <1>3 DEF ActionInv, ShownAsItCame, NoAction
<1>6. CutOut'
 <2> SUFFICES ASSUME NEW s, First(startTag, arrived, s), NEW r, r = After(arrived, s)
              PROVE  /\ Len(displayed') >= s - 1 /\ \A i \in 1..s - 1 : displayed'[i] = arrived[i]
                     /\ (\A i : ~Occurs(endTag, r, i)) => executing /\ action = r /\ Len(displayed') = s - 1
                     /\ \A e : OneAction(r, e) => ShownBehind(s, r, e)'
  BY <1>2 DEF CutOut
 <2>1. /\ Len(displayed) >= s - 1 /\ \A i \in 1..s - 1 : displayed[i] = arrived[i]
       /\ (\A i : ~Occurs(endTag, r, i)) => executing /\ action = r /\ Len(displayed) = s - 1
       /\ \A e : OneAction(r, e) => ShownBehind(s, r, e)
  BY DEF ActionInv, CutOut
 <2>2. /\ Len(displayed') = Len(displayed) + Len(textBuffer) /\ Len(displayed) \in Nat /\ Len(textBuffer) \in Nat
       /\ \A j \in 1..Len(displayed) : displayed'[j] = displayed[j]
  BY <1>1, <1>2, JoinText
 <2>3. s \in Nat BY <1>1 DEF First, Occurs, Text
 <2>4. executing => Len(displayed') = Len(displayed) BY <1>1, <1>2, <2>2, EmptySeq
 <2>5. Len(displayed') >= s - 1 /\ \A i \in 1..s - 1 : displayed'[i] = arrived[i]
  BY <2>1, <2>2, <2>3
 <2>6. \A e : OneAction(r, e) => ShownBehind(s, r, e)' BY <1>2, <1>3, <2>1 DEF ShownBehind
 <2> QED BY <2>1, <2>4, <2>5, <2>6
<1> QED BY <1>4, <1>5, <1>6 DEF ActionInv

LEMMA ActionNextInv == ASSUME ActionInv, ActionTextNext PROVE ActionInv'
<1>1. CASE Ends BY <1>1, EndsKeeps
<1>2. ASSUME NEW n \in 1..MaxChunk, NEW c \in [1..n -> Symbols], Chunk(c) PROVE ActionInv'
 <2>1. n \in Nat /\ n > 0 BY ActionTextConstants
 <2>2. c \in Text /\ Len(c) = n BY <2>1 DEF Text
 <2>3. c # <<>>
  <3>1. Len(c) # 0 /\ Len(<<>>) = 0 BY <2>1, <2>2, EmptySeq
  <3> QED BY <3>1, Zenon
 <2>4. ActionTypes' BY <1>2, <2>2, <2>3, ChunkParts
 <2>5. NoAction \/ \E s : First(startTag, arrived, s)
  BY FirstThere DEF NoAction, ActionInv, ActionTypes, Tags
 <2> QED BY <1>2, <2>2, <2>3, <2>4, <2>5, ChunkFirst, ChunkAfter DEF ActionInv
<1> QED BY <1>1, <1>2 DEF ActionTextNext

LEMMA EndOfText ==
  ASSUME NEW q \in Text, NEW t \in Text, Len(q) <= Len(t),
         \A i \in 1..Len(q) : q[i] = t[(Len(t) - Len(q)) + i]
  PROVE  IsSuffix(q, t)
<1>1. Len(q) \in Nat /\ Len(t) \in Nat BY DEF Text
<1>2. /\ Reverse(q) = [i \in 1..Len(q) |-> q[(Len(q) - i) + 1]]
      /\ Reverse(t) = [i \in 1..Len(t) |-> t[(Len(t) - i) + 1]]
 BY DEF Reverse
<1>3. /\ Reverse(q) \in Text /\ Len(Reverse(q)) = Len(q) /\ \A i \in 1..Len(q) : Reverse(q)[i] = q[(Len(q) - i) + 1]
 <2>1. \A i \in 1..Len(q) : q[(Len(q) - i) + 1] \in Symbols BY <1>1 DEF Text
 <2> QED BY <1>1, <1>2, <2>1 DEF Text
<1>4. /\ Reverse(t) \in Text /\ Len(Reverse(t)) = Len(t) /\ \A i \in 1..Len(t) : Reverse(t)[i] = t[(Len(t) - i) + 1]
 <2>1. \A i \in 1..Len(t) : t[(Len(t) - i) + 1] \in Symbols BY <1>1 DEF Text
 <2> QED BY <1>1, <1>2, <2>1 DEF Text
<1>5. \A i \in 1..Len(q) : Reverse(q)[i] = Reverse(t)[i]
 <2> SUFFICES ASSUME NEW i \in 1..Len(q) PROVE Reverse(q)[i] = Reverse(t)[i]
  OBVIOUS
 <2>1. /\ (Len(q) - i) + 1 \in 1..Len(q) /\ i \in 1..Len(t)
       /\ (Len(t) - Len(q)) + ((Len(q) - i) + 1) = (Len(t) - i) + 1
  BY <1>1
 <2>2. q[(Len(q) - i) + 1] = t[(Len(t) - i) + 1] BY <2>1
 <2> QED BY <1>3, <1>4, <2>1, <2>2
<1>6. SubSeq(Reverse(q), 1, Len(q)) = SubSeq(Reverse(t), 1, Len(q))
 BY <1>1, <1>3, <1>4, <1>5, SamePart
<1> QED BY <1>3, <1>4, <1>6 DEF IsSuffix, IsPrefix

LEMMA ActionInvImplies == ASSUME ActionInv PROVE ActionKept
<1> SUFFICES ASSUME ended PROVE
      /\ StartOfAction = 0 => displayed = arrived /\ action = <<>>
      /\ StartOfAction # 0 =>
           LET rest == After(arrived, StartOfAction)
               end == IndexOf(endTag, rest)
               tail == IF end = 0 THEN <<>> ELSE After(rest, end) IN
             /\ IsPrefix(Before(arrived, StartOfAction), displayed)
             /\ IndexOf(startTag, tail) = 0 =>
                  /\ Command = IF end = 0 THEN rest ELSE Before(rest, end)
                  /\ IsSuffix(SubSeq(displayed, StartOfAction, Len(displayed)), tail)
 BY DEF ActionKept
<1>1. arrived \in Text /\ displayed \in Text /\ action \in Text /\ textBuffer = <<>>
 BY DEF ActionInv, ActionTypes
<1>2. Whole = displayed /\ Len(displayed) \in Nat BY <1>1, ConcatEmptySeq DEF Whole, Text
<1>3. ASSUME StartOfAction = 0 PROVE displayed = arrived /\ action = <<>>
 <2>1. NoAction BY <1>1, <1>3, FirstOrNone DEF StartOfAction, NoAction, Tags
 <2> QED BY <1>2, <2>1 DEF ActionInv, ShownAsItCame
<1>4. PICK s : s = StartOfAction OBVIOUS
<1>5. PICK r : r = After(arrived, s) OBVIOUS
<1>6. PICK e : e = IndexOf(endTag, r) OBVIOUS
<1>7. PICK q : q = SubSeq(displayed, s, Len(displayed)) OBVIOUS
<1>8. ASSUME s # 0
      PROVE  /\ IsPrefix(Before(arrived, s), displayed)
             /\ e = 0 => Command = r /\ IsSuffix(q, <<>>)
             /\ e # 0 /\ IndexOf(startTag, After(r, e)) = 0 => Command = Before(r, e) /\ IsSuffix(q, After(r, e))
 <2>1. First(startTag, arrived, s) BY <1>1, <1>4, <1>8, FirstOrNone DEF StartOfAction, Tags
 <2>2. s \in 1..Len(arrived) - 1 /\ s \in Nat /\ s > 0 BY <1>1, <2>1 DEF First, Occurs, Text
 <2>3. /\ Len(displayed) >= s - 1 /\ \A i \in 1..s - 1 : displayed[i] = arrived[i]
       /\ (\A i : ~Occurs(endTag, r, i)) => executing /\ action = r /\ Len(displayed) = s - 1
       /\ \A i : OneAction(r, i) => ShownBehind(s, r, i)
  BY <1>5, <2>1 DEF ActionInv, CutOut
 <2>4. r \in Text BY <1>1, <1>5, <2>2, CutText
 <2>5. IsPrefix(Before(arrived, s), displayed)
  <3>1. /\ Before(arrived, s) \in Text /\ Len(Before(arrived, s)) = s - 1
        /\ \A j \in 1..s - 1 : Before(arrived, s)[j] = arrived[j]
   BY <1>1, <2>2, CutText
  <3>2. SubSeq(Before(arrived, s), 1, s - 1) = SubSeq(displayed, 1, s - 1)
   <4>1. s - 1 \in Nat /\ s - 1 <= Len(Before(arrived, s)) /\ s - 1 <= Len(displayed)
    BY <2>2, <2>3, <3>1
   <4>2. \A i \in 1..s - 1 : Before(arrived, s)[i] = displayed[i] BY <2>3, <3>1
   <4> QED BY <1>1, <3>1, <4>1, <4>2, SamePart
  <3> QED BY <2>3, <3>1, <3>2 DEF IsPrefix
 <2>6. q \in Text /\ Len(q) = Len(displayed) - (s - 1) /\ \A i \in 1..Len(q) : q[i] = displayed[(s - 1) + i]
  <3>1. PICK k : k = s - 1 OBVIOUS
  <3>2. k \in 0..Len(displayed) /\ q = SubSeq(displayed, k + 1, Len(displayed))
   BY SMTT(30), <1>2, <1>7, <2>2, <2>3, <3>1
  <3> QED BY SMTT(30), <1>1, <3>1, <3>2, PartOf
 <2>7. ASSUME e = 0 PROVE Command = r /\ IsSuffix(q, <<>>)
  <3>1. \A i : ~Occurs(endTag, r, i) BY <1>6, <2>4, <2>7, FirstOrNone DEF Tags
  <3>2. action = r /\ Len(q) = 0 BY <2>2, <2>3, <2>6, <3>1
  <3>3. Command = r BY <1>6, <2>7, <3>2 DEF Command
  <3>4. <<>> \in Text /\ Len(<<>>) = 0 BY EmptySeq DEF Text
  <3>5. IsSuffix(q, <<>>) BY <2>6, <3>2, <3>4, EndOfText
  <3> QED BY <3>3, <3>5
 <2>8. ASSUME e # 0, IndexOf(startTag, After(r, e)) = 0
       PROVE  Command = Before(r, e) /\ IsSuffix(q, After(r, e))
  <3>1. First(endTag, r, e) /\ e \in 1..Len(r) - 1 /\ e \in Nat /\ Len(r) \in Nat
   <4>1. First(endTag, r, e) BY <1>6, <2>4, <2>8, FirstOrNone DEF Tags
   <4> QED BY <2>4, <4>1 DEF First, Occurs, Text
  <3>2. PICK t : t = After(r, e) OBVIOUS
  <3>3. t \in Text /\ Len(t) = Len(r) - e - 1 /\ \A j \in 1..Len(r) - e - 1 : t[j] = r[e + 1 + j]
   BY <2>4, <3>1, <3>2, CutText
  <3>4. \A i : ~Occurs(startTag, t, i) BY <2>8, <3>2, <3>3, FirstOrNone DEF Tags
  <3>5. ASSUME NEW j, Occurs(startTag, r, j) PROVE j <= e + 1
   <4>1. j \in 1..Len(r) - 1 /\ j \in Nat /\ r[j] = startTag[1] /\ r[j + 1] = startTag[2]
    BY <3>1, <3>5 DEF Occurs
   <4> SUFFICES ASSUME j > e + 1 PROVE FALSE
    BY <3>1, <4>1
   <4>2. PICK i : i = j - (e + 1) OBVIOUS
   <4>3. /\ i \in 1..Len(r) - e - 1 /\ i + 1 \in 1..Len(r) - e - 1 /\ i \in 1..Len(t) - 1
         /\ e + 1 + i = j /\ e + 1 + (i + 1) = j + 1
    BY <3>1, <3>3, <4>1, <4>2
   <4>4. Occurs(startTag, t, i) BY <3>3, <4>1, <4>3 DEF Occurs
   <4> QED BY <3>4, <4>4
  <3>6. ShownBehind(s, r, e) BY <2>3, <3>1, <3>5 DEF OneAction
  <3>7. Command = Before(r, e)
   <4>1. /\ First(endTag, action, e) /\ \A i \in 1..e - 1 : action[i] = r[i]
    BY <3>6 DEF ShownBehind
   <4>2. Command = Before(action, e) BY <1>1, <4>1, OnlyFirst DEF Command, Tags
   <4>3. e \in 1..Len(action) - 1 /\ Len(action) \in Nat BY <1>1, <4>1 DEF First, Occurs, Text
   <4>4. e - 1 \in Nat /\ e - 1 <= Len(action) /\ e - 1 <= Len(r) BY <3>1, <4>3
   <4>5. SubSeq(action, 1, e - 1) = SubSeq(r, 1, e - 1) BY <1>1, <2>4, <4>1, <4>4, SamePart
   <4> QED BY <4>2, <4>5 DEF Before
  <3>8. /\ Len(q) <= Len(r) - (e + 1)
        /\ \A i \in 1..Len(q) : displayed[(s - 1) + i] = r[(Len(r) - Len(q)) + i]
   BY <1>2, <2>6, <3>6 DEF ShownBehind
  <3>9. Len(q) \in Nat BY <2>6 DEF Text
  <3>10. Len(q) <= Len(t)
   <4>1. Len(t) = Len(r) - e - 1 /\ Len(q) <= Len(r) - (e + 1) /\ e \in Nat /\ Len(r) \in Nat
    BY <3>1, <3>3, <3>8
   <4> QED BY ONLY <3>9, <4>1
  <3>11. ASSUME NEW i \in 1..Len(q) PROVE q[i] = t[(Len(t) - Len(q)) + i]
   <4>1. /\ (Len(t) - Len(q)) + i \in 1..Len(r) - e - 1
         /\ e + 1 + ((Len(t) - Len(q)) + i) = (Len(r) - Len(q)) + i
    <5>1. Len(t) = Len(r) - e - 1 /\ e \in Nat /\ Len(r) \in Nat BY <3>1, <3>3
    <5> QED BY ONLY <3>9, <3>10, <5>1
   <4> QED BY <2>6, <3>3, <3>8, <4>1
  <3>12. IsSuffix(q, t) BY <2>6, <3>3, <3>10, <3>11, EndOfText
  <3> QED BY <3>2, <3>7, <3>12
 <2> QED BY <2>5, <2>7, <2>8
<1>9. IndexOf(startTag, IF e = 0 THEN <<>> ELSE After(r, e)) = 0 => e = 0 \/ IndexOf(startTag, After(r, e)) = 0
 OBVIOUS
<1> QED BY <1>3, <1>4, <1>5, <1>6, <1>7, <1>8, <1>9

--------------------------------------------------
(* Where the tokens of MCP servers are kept: mcpConfigStore.ts *)

(* A token in memory or in the file is its target's.  A token stored without  *)
(* a target is for the server in the file, which stays until the tokens are   *)
(* loaded.  Before that memory holds what the file says, and after it the     *)
(* store holds the token in memory, unless something failed.                  *)
ConfigsInv ==
  /\ ConfigsTypeOK
  /\ IF alive THEN config \in Servers ELSE config = NoServer
  /\ file.token \in {None, file.target} /\ config.token \in {None, config.target}
  /\ stored.target # None => stored.token = stored.target
  /\ stored # NoServer /\ stored.target = None =>
       stored.token = file.target /\ (alive => ~loaded /\ config.target = file.target)
  /\ alive /\ ~loaded => (dirty \/ config = file) /\ (saving = "store" => config.token = None)
  /\ alive /\ loaded /\ ~dirty =>
       stored.token = config.token /\ (saving = "no" => file.target = config.target /\ file.token = None)

LEMMA ConfigsInitInv == ConfigsInit => ConfigsInv
<1> SUFFICES ASSUME ConfigsInit PROVE ConfigsInv
 OBVIOUS
<1> USE ConfigConstants DEF Servers, NoServer
<1>1. /\ file \in Servers /\ file.target \in Targets /\ file.token \in {None, file.target}
      /\ config = NoServer /\ alive = FALSE /\ ready = FALSE /\ loaded = FALSE
      /\ saving = "no" /\ dirty = FALSE
 BY DEF ConfigsInit
<1>2. stored = NoServer \/ \E t \in {None, file.target} : stored = [target |-> t, token |-> file.target]
 BY DEF ConfigsInit
<1>3. /\ stored \in {NoServer} \union [target : Targets \union {None}, token : Targets]
      /\ stored.target # None => stored.token = stored.target
      /\ stored # NoServer => stored.token = file.target
 BY <1>1, <1>2
<1> QED BY <1>1, <1>3 DEF ConfigsInv, ConfigsTypeOK

LEMMA SaveKeeps ==
  ASSUME ConfigsInv, Free, NEW t \in Targets, NEW token \in {t, None},
         t # config.target => StoreOpen,
         t = config.target => token = t \/ token = config.token,
         config' = [target |-> t, token |-> token], Save(config'),
         UNCHANGED <<file, alive, ready, loaded>>
  PROVE  ConfigsInv'
<1>1. config' \in Servers /\ config'.target = t /\ config'.token = token BY DEF Servers
<1>2. CASE StoreOpen
 <2>1. saving' = "store" /\ dirty' = dirty /\ stored' = IF token = None THEN NoServer ELSE config'
  BY <1>1, <1>2 DEF Save
 <2> QED BY <1>1, <1>2, <2>1, ConfigConstants DEF ConfigsInv, ConfigsTypeOK, Servers, NoServer, Free, StoreOpen
<1>3. CASE ~StoreOpen
 <2>1. t = config.target /\ stored' = stored BY <1>1, <1>3 DEF Save
 <2>2. CASE token = None
  <3>1. saving' = "store" /\ dirty' = dirty BY <1>1, <1>3, <2>2 DEF Save
  <3> QED BY <1>1, <2>1, <2>2, <3>1, ConfigConstants DEF ConfigsInv, ConfigsTypeOK, Servers, NoServer, Free
 <2>3. CASE token # None
  <3>1. saving' = "no" /\ dirty' = TRUE BY <1>1, <1>3, <2>3 DEF Save
  <3> QED BY <1>1, <2>1, <2>3, <3>1, ConfigConstants DEF ConfigsInv, ConfigsTypeOK, Servers, NoServer, Free
 <2> QED BY <2>2, <2>3
<1> QED BY <1>2, <1>3

LEMMA LoadSecretsKeeps == ASSUME ConfigsInv, LoadSecrets PROVE ConfigsInv'
<1> USE ConfigConstants DEF Servers, NoServer
<1>1. /\ alive /\ saving = "no" /\ ~loaded /\ loaded' = TRUE /\ config \in Servers
      /\ UNCHANGED <<file, alive, ready, dirty>>
 BY DEF LoadSecrets, Free, ConfigsInv
<1>2. CASE UNCHANGED <<config, stored, saving>> /\ config.token = None /\ stored = NoServer
 BY <1>1, <1>2 DEF ConfigsInv, ConfigsTypeOK
<1>3. CASE config.token # None /\ config' = config /\ stored' = config /\ saving' = "store"
 BY <1>1, <1>3 DEF ConfigsInv, ConfigsTypeOK
<1>4. ASSUME config.token = None, stored # NoServer, stored.target \in {None, config.target},
             config' = [config EXCEPT !.token = stored.token],
             \/ stored' = config' /\ saving' = "store"
             \/ stored.target = config.target /\ UNCHANGED <<stored, saving>>
      PROVE  ConfigsInv'
 <2>1. stored.token = config.target /\ stored.token \in Targets
  BY <1>1, <1>4 DEF ConfigsInv, ConfigsTypeOK
 <2>2. config' = [target |-> config.target, token |-> config.target] BY <1>1, <1>4, <2>1
 <2> QED BY <1>1, <1>4, <2>1, <2>2 DEF ConfigsInv, ConfigsTypeOK
<1>5. CASE /\ config.token = None /\ stored # NoServer /\ stored' = NoServer
           /\ UNCHANGED <<config, saving>>
 BY <1>1, <1>5 DEF ConfigsInv, ConfigsTypeOK
<1> QED BY <1>1, <1>2, <1>3, <1>4, <1>5 DEF LoadSecrets

LEMMA ConfigsNextInv == ASSUME ConfigsInv, ConfigsNext PROVE ConfigsInv'
<1> USE ConfigConstants
<1>1. CASE LoadConfigs BY <1>1 DEF LoadConfigs, ConfigsInv, ConfigsTypeOK, Servers, NoServer
<1>2. CASE Update
 <2>1. PICK t \in Targets, supplied \in BOOLEAN :
         LET next == [target |-> t, token |-> IF supplied THEN t
                                              ELSE IF t = config.target THEN config.token ELSE None] IN
           /\ t # config.target => StoreOpen
           /\ config' = next /\ Save(next)
  BY <1>2 DEF Update
 <2>2. PICK token : token = IF supplied THEN t ELSE IF t = config.target THEN config.token ELSE None
  OBVIOUS
 <2>3. token \in {t, None} /\ (t = config.target => token = t \/ token = config.token)
  BY <2>2 DEF ConfigsInv
 <2>4. config' = [target |-> t, token |-> token] /\ Save(config') /\ (t # config.target => StoreOpen)
  BY <2>1, <2>2
 <2> QED BY <1>2, <2>3, <2>4, SaveKeeps DEF Update
<1>3. CASE WriteFile
 <2>1. config \in Servers /\ [config EXCEPT !.token = None] = [target |-> config.target, token |-> None]
  BY <1>3 DEF WriteFile, ConfigsInv, Servers
 <2>2. config.token = None => config = [config EXCEPT !.token = None] BY <2>1 DEF Servers
 <2>3. CASE UNCHANGED file /\ dirty' = TRUE
  BY <1>3, <2>1, <2>3 DEF WriteFile, ConfigsInv, ConfigsTypeOK, Servers, NoServer
 <2>4. CASE file' = [config EXCEPT !.token = None] /\ UNCHANGED dirty
  BY <1>3, <2>1, <2>2, <2>4 DEF WriteFile, ConfigsInv, ConfigsTypeOK, Servers, NoServer
 <2> QED BY <1>3, <2>3, <2>4 DEF WriteFile
<1>4. CASE LockChanges BY <1>4 DEF LockChanges, ConfigsInv, ConfigsTypeOK
<1>5. CASE ProgramStops BY <1>5 DEF ProgramStops, ConfigsInv, ConfigsTypeOK, Servers, NoServer
<1>6. CASE EditFile BY <1>6 DEF EditFile, ConfigsInv, ConfigsTypeOK, Servers, NoServer
<1> QED BY <1>1, <1>2, <1>3, <1>4, <1>5, <1>6, LoadSecretsKeeps DEF ConfigsNext

LEMMA ConfigsInvImplies == ConfigsInv => TokensStay /\ ConfigsTypeOK
BY DEF ConfigsInv, TokensStay

--------------------------------------------------
(* A step of the services is, for every part, one of its own or none. *)
LEMMA OwnStepOrNone ==
  ASSUME [ServicesNext]_services
  PROVE  /\ [StreamsNext]_streams /\ [MessagesNext]_messages /\ [ActionTextNext]_actionText /\ [CommandsNext]_agentCommands
         /\ [PluginsNext]_plugin /\ [McpNext]_mcp /\ [ConfigsNext]_configs
         /\ [WatchdogNext]_watchdog /\ [WorkspacesNext]_workspaces
BY DEF ServicesNext, services

--------------------------------------------------
(* The terminal writes of a plugin: approveSshWrite *)

AskingInv ==
  /\ write \in [Writes -> [stage : {"idle", "waiting", "written", "refused"}, host : Hosts \union {NoHost}]]
  /\ question \subseteq WaitingWrites
  /\ question = {} \/ \E w \in Writes : question = {w}
  /\ approved \in BOOLEAN

LEMMA AskingInitInv == PluginsInit => AskingInv
<1> SUFFICES ASSUME PluginsInit PROVE AskingInv
 OBVIOUS
<1>1. NoCall \in [stage : {"idle", "waiting", "written", "refused"}, host : Hosts \union {NoHost}]
 BY DEF NoCall
<1>2. write = [w \in Writes |-> NoCall] /\ question = {} /\ approved \in BOOLEAN
 BY DEF PluginsInit, NoWrite
<1> QED BY <1>1, <1>2 DEF AskingInv

(* An answer settles some of those who wait and leaves the question to one of *)
(* the rest, or to none.                                                      *)
LEMMA SettledKeeps ==
  ASSUME AskingInv, NEW ws \in SUBSET Writes, NEW end \in {"written", "refused"}, Settled(ws, end),
         question' = {} \/ \E w \in WaitingWrites \ ws : question' = {w}, approved' \in BOOLEAN
  PROVE  AskingInv'
<1>1. /\ write' \in [Writes -> [stage : {"idle", "waiting", "written", "refused"}, host : Hosts \union {NoHost}]]
      /\ \A w \in Writes : w \notin ws => write'[w] = write[w]
 BY DEF Settled, AskingInv
<1>2. \A w \in WaitingWrites \ ws : w \in WaitingWrites' BY <1>1 DEF WaitingWrites
<1> QED BY <1>1, <1>2 DEF AskingInv, WaitingWrites

LEMMA AskingNextInv ==
  ASSUME AskingInv, PluginsNext
  PROVE  /\ AskingInv'
         /\ \A w \in Writes : write'[w].stage = "written" /\ write[w].stage # "written"
                                => approved' \/ w \in question
<1>1. CASE UNCHANGED asking /\ approved' \in {approved, FALSE}
 BY <1>1 DEF AskingInv, asking, WaitingWrites
<1>2. ASSUME NEW w \in Writes, NEW h \in Hosts, SshWrite(w, h)
      PROVE  /\ AskingInv'
             /\ \A v \in Writes : write'[v].stage = "written" /\ write[v].stage # "written" => approved'
 <2>1. PICK end \in {"written", "waiting"} :
         /\ write' = [write EXCEPT ![w] = [stage |-> end, host |-> h]]
         /\ end = "written" => approved /\ question' = question
         /\ end = "waiting" => question' = question \/ question' = {w}
         /\ approved' = approved /\ write[w].stage = "idle"
  BY <1>2 DEF SshWrite, manager
 <2>2. /\ write' \in [Writes -> [stage : {"idle", "waiting", "written", "refused"}, host : Hosts \union {NoHost}]]
       /\ write'[w].stage = end /\ \A v \in Writes \ {w} : write'[v] = write[v]
  BY <2>1 DEF AskingInv
 <2>3. WaitingWrites \subseteq WaitingWrites' /\ (end = "waiting" => w \in WaitingWrites')
  BY <2>1, <2>2 DEF WaitingWrites
 <2>4. AskingInv' BY <2>1, <2>2, <2>3 DEF AskingInv
 <2> QED BY <2>1, <2>2, <2>4
<1>3. CASE Deny
 <2>1. WaitingWrites \in SUBSET Writes /\ Settled(WaitingWrites, "refused") /\ question' = {}
       /\ approved' \in BOOLEAN
  BY <1>3 DEF AskingInv, Deny, WaitingWrites, NoWrite, manager
 <2>2. AskingInv' BY <2>1, SettledKeeps
 <2> QED BY <2>1, <2>2 DEF Settled
<1>4. CASE AllowOnce
 <2>1. question \in SUBSET Writes /\ question \subseteq WaitingWrites
  BY DEF AskingInv, WaitingWrites
 <2>2. Settled(question, "written") /\ (question' = {} \/ \E w \in WaitingWrites \ question : question' = {w})
       /\ approved' \in BOOLEAN
  BY <1>4 DEF AskingInv, AllowOnce, NoWrite, manager
 <2>3. AskingInv' BY <2>1, <2>2, SettledKeeps
 <2> QED BY <2>2, <2>3 DEF Settled
<1>5. CASE AllowRun
 <2>1. WaitingWrites \in SUBSET Writes /\ Settled(WaitingWrites, "written") /\ question' = {} /\ approved'
  BY <1>5 DEF AllowRun, WaitingWrites, NoWrite
 <2> QED BY <2>1, SettledKeeps
<1>6. ASSUME PluginsNext, ~(Deny \/ AllowOnce \/ AllowRun),
             ~(\E w \in Writes, h \in Hosts : SshWrite(w, h))
      PROVE  UNCHANGED asking /\ approved' \in {approved, FALSE}
 BY <1>6
    DEF PluginsNext, asking, manager, GiveUp, CleanUp, ForgetEntry, Start, Activated, ActivationTimesOut, Violates, Closed, Subscribe, Unsubscribe,
        InvokeAnswered, InvokeTimesOut, Invoke, Deactivate, ShutdownAnswered, Deactivated, ForceKill
<1> QED BY <1>1, <1>2, <1>3, <1>4, <1>5, <1>6

--------------------------------------------------
(* Ocean Sentinel: supervisor.rs, main.rs, SecureCenter.ts *)

SupervisorRec == [mode : Lockdowns \union {"watching", "sleeping", "gone"}, left : Nat, saves : 0..MaxSaves]
AppRec == [state : {"up", "stalled", "leaving", "exited", "killed", "restarted"},
           level : {"none"} \union UiAlive, lockdown : BOOLEAN, polluted : BOOLEAN,
           disabled : BOOLEAN, socket : BOOLEAN, shown : BOOLEAN, asking : BOOLEAN]
AppLines == {"IGNORE", "CONTINUE", "SAVE", "QUIT", "CLOSED"} \union UiAlive

WatchdogTypes ==
  /\ supervisor \in SupervisorRec /\ age \in Nat /\ app \in AppRec
  /\ toWatchdog \in Seq(AppLines) /\ toApp \in Seq(UiAlive \union {"TICK", "RESOLVED"})
  /\ awake \in {0, 1} /\ pinged \in BOOLEAN

(* A process of the app is there, which is heard while the watchdog is. *)
AppThere == app.state \in {"up", "stalled", "leaving"}

(* The time a lockdown has lasted and has left, with the extensions it got:   *)
(* each was granted before the deadline.                                      *)
TimeInv ==
  supervisor.mode \in {"freeze", "red"} =>
    IF supervisor.saves = 0 THEN age + supervisor.left <= Grace
    ELSE age + supervisor.left < Grace + supervisor.saves * SaveExtension

(* A freeze is of a main thread that has not run for a unit since it stopped. *)
FreezeInv ==
  /\ app.state = "stalled" => awake = 0
  /\ supervisor.mode = "freeze" => awake = 0 /\ (app.state = "up" => ~pinged)
  /\ app.state = "restarted" => awake = 0

Ignores(lines) == \E i \in 1..Len(lines) : lines[i] = "IGNORE"

(* Heartbeats stop by a line the watchdog has taken, or will. *)
SleepInv ==
  AppThere =>
    /\ Alive => app.socket
    /\ app.disabled /\ Alive => supervisor.mode = "sleeping" \/ Ignores(toWatchdog)
    /\ supervisor.mode = "sleeping" \/ Ignores(toWatchdog) => app.disabled

(* What the app shows when it has heard all that is on its way. *)
ToldInv ==
  /\ app.shown => app.lockdown
  /\ ~AppThere => ~app.shown
  /\ AppThere =>
    /\ ~app.socket => toApp = <<>>
    /\ \A i \in 1..Len(toApp) :
         toApp[i] = "TICK" => IF i = 1 THEN app.shown ELSE toApp[i - 1] \in UiAlive
    /\ Alive /\ toApp = <<>> =>
         (app.shown <=> supervisor.mode \in UiAlive) /\ (app.shown => app.level = supervisor.mode)
    /\ Alive /\ toApp # <<>> =>
         LET n == Len(toApp) IN
           /\ toApp[n] \in UiAlive => supervisor.mode = toApp[n]
           /\ toApp[n] = "RESOLVED" => supervisor.mode \notin UiAlive
           /\ toApp[n] = "TICK" => /\ supervisor.mode \in UiAlive
                                  /\ supervisor.mode = IF n = 1 THEN app.level ELSE toApp[n - 1]

WatchdogInv == WatchdogTypes /\ TimeInv /\ FreezeInv /\ SleepInv /\ ToldInv

LEMMA LinesMove ==
  ASSUME NEW q \in Seq(AppLines)
  PROVE  /\ \A line \in AppLines : /\ Append(q, line) \in Seq(AppLines)
                                  /\ Ignores(Append(q, line)) <=> Ignores(q) \/ line = "IGNORE"
         /\ <<>> \in Seq(AppLines) /\ ~Ignores(<<>>)
         /\ q # <<>> => /\ Head(q) \in AppLines /\ Tail(q) \in Seq(AppLines)
                       /\ Ignores(q) <=> Ignores(Tail(q)) \/ Head(q) = "IGNORE"
<1>1. ASSUME NEW line \in AppLines
      PROVE  /\ Append(q, line) \in Seq(AppLines)
             /\ Ignores(Append(q, line)) <=> Ignores(q) \/ line = "IGNORE"
 <2>1. /\ Append(q, line) \in Seq(AppLines) /\ Len(Append(q, line)) = Len(q) + 1 /\ Len(q) \in Nat
       /\ Append(q, line)[Len(q) + 1] = line
       /\ \A i \in 1..Len(q) : Append(q, line)[i] = q[i]
  OBVIOUS
 <2> QED BY <2>1 DEF Ignores
<1>2. <<>> \in Seq(AppLines) /\ ~Ignores(<<>>) BY DEF Ignores
<1>3. ASSUME q # <<>>
      PROVE  /\ Head(q) \in AppLines /\ Tail(q) \in Seq(AppLines)
             /\ Ignores(q) <=> Ignores(Tail(q)) \/ Head(q) = "IGNORE"
 <2>1. /\ Head(q) \in AppLines /\ Head(q) = q[1] /\ Tail(q) \in Seq(AppLines)
       /\ Len(q) \in Nat /\ Len(q) > 0 /\ Len(Tail(q)) = Len(q) - 1
       /\ \A i \in 1..(Len(q) - 1) : Tail(q)[i] = q[i + 1]
  BY <1>3
 <2>2. ASSUME NEW i \in 1..Len(q), q[i] = "IGNORE", i # 1 PROVE Ignores(Tail(q))
  <3>1. i - 1 \in 1..Len(Tail(q)) /\ Tail(q)[i - 1] = "IGNORE" BY <2>1, <2>2
  <3> QED BY <3>1 DEF Ignores
 <2>3. ASSUME NEW i \in 1..Len(Tail(q)), Tail(q)[i] = "IGNORE" PROVE Ignores(q)
  <3>1. i + 1 \in 1..Len(q) /\ q[i + 1] = "IGNORE" BY <2>1, <2>3
  <3> QED BY <3>1 DEF Ignores
 <2> QED BY <2>1, <2>2, <2>3 DEF Ignores
<1> QED BY <1>1, <1>2, <1>3

(* An extension is granted before the deadline, so it adds no more than its   *)
(* own length.                                                                *)
LEMMA TimeExtended ==
  ASSUME NEW a \in Nat, NEW s \in 0..MaxSaves, NEW l \in Nat, l > 0,
         IF s = 0 THEN a + l <= Grace ELSE a + l < Grace + s * SaveExtension
  PROVE  a + SaveExtension < Grace + (s + 1) * SaveExtension
<1>1. s \in Nat /\ SaveExtension \in Nat /\ Grace \in Nat BY WatchdogConstants
<1>2. (s + 1) * SaveExtension = s * SaveExtension + SaveExtension /\ s * SaveExtension \in Nat
 BY <1>1
<1>3. s = 0 => s * SaveExtension = 0 BY <1>1
<1> QED BY <1>1, <1>2, <1>3

LEMMA TimeBounds ==
  ASSUME TimeInv, WatchdogTypes, supervisor.mode \in {"freeze", "red"}
  PROVE  age < Grace + MaxSaves * SaveExtension
<1>1. /\ age \in Nat /\ supervisor.left \in Nat /\ supervisor.saves \in 0..MaxSaves
      /\ SaveExtension \in Nat \ {0} /\ Grace \in Nat /\ MaxSaves \in Nat \ {0}
 BY WatchdogConstants DEF WatchdogTypes, SupervisorRec
<1>2. ASSUME NEW s \in Nat, NEW d \in Nat PROVE (s + d) * SaveExtension = s * SaveExtension + d * SaveExtension
 BY <1>1
<1>3. \A s \in Nat : s * SaveExtension \in Nat BY <1>1
<1>4. supervisor.saves * SaveExtension <= MaxSaves * SaveExtension
 <2>1. MaxSaves - supervisor.saves \in Nat /\ supervisor.saves \in Nat
       /\ supervisor.saves + (MaxSaves - supervisor.saves) = MaxSaves
  BY <1>1
 <2>2. MaxSaves * SaveExtension = supervisor.saves * SaveExtension + (MaxSaves - supervisor.saves) * SaveExtension
  BY <1>2, <2>1
 <2>3. /\ supervisor.saves * SaveExtension \in Nat /\ (MaxSaves - supervisor.saves) * SaveExtension \in Nat
  BY <1>3, <2>1
 <2> QED BY <2>2, <2>3
<1>5. MaxSaves * SaveExtension > 0 /\ MaxSaves * SaveExtension \in Nat /\ supervisor.saves * SaveExtension \in Nat
 BY <1>1, <1>3
<1>6. \A a, l, g, x, y \in Nat : a + l < g + x /\ x <= y => a < g + y OBVIOUS
<1>7. \A a, l, g, y \in Nat : a + l <= g /\ y > 0 => a < g + y OBVIOUS
<1>8. age + supervisor.left <= Grace \/ age + supervisor.left < Grace + supervisor.saves * SaveExtension
 BY DEF TimeInv
<1> QED BY <1>1, <1>4, <1>5, <1>6, <1>7, <1>8

LEMMA WatchdogInitInv == WatchdogInit => WatchdogInv
<1> SUFFICES ASSUME WatchdogInit PROVE WatchdogInv
 OBVIOUS
<1>0. \A S : <<>> \in Seq(S) OBVIOUS
<1>1. WatchdogTypes /\ toWatchdog = <<>> /\ toApp = <<>>
 <2>1. Watching \in SupervisorRec /\ Gone \in SupervisorRec
  BY WatchdogConstants DEF SupervisorRec, Watching, Gone, In, Lockdowns
 <2>2. NewApp \in AppRec /\ [NewApp EXCEPT !.disabled = TRUE, !.socket = FALSE] \in AppRec
  BY DEF AppRec, NewApp
 <2> QED BY <1>0, <2>1, <2>2 DEF WatchdogInit, WatchdogTypes
<1>2. /\ ~app.shown /\ app.state = "up" /\ awake = 1
      /\ \/ supervisor.mode = "watching" /\ app.socket /\ ~app.disabled
         \/ supervisor.mode = "gone"  /\ app.disabled
 <2>1. CASE supervisor = Watching /\ app = NewApp BY <2>1 DEF WatchdogInit, Watching, In, NewApp
 <2>2. CASE supervisor = Gone /\ app = [NewApp EXCEPT !.disabled = TRUE, !.socket = FALSE]
  BY <2>2 DEF WatchdogInit, Gone, In, NewApp
 <2> QED BY <2>1, <2>2 DEF WatchdogInit
<1>3. Len(toWatchdog) = 0 /\ Len(toApp) = 0 BY <1>1
<1>4. TimeInv /\ FreezeInv BY <1>2 DEF TimeInv, FreezeInv
<1>5. SleepInv BY <1>2, <1>3 DEF SleepInv, AppThere, Alive, Ignores
<1>6. ToldInv BY <1>1, <1>2, <1>3 DEF ToldInv, AppThere, Alive, UiAlive
<1> QED BY <1>1, <1>4, <1>5, <1>6 DEF WatchdogInv

(* What one line does to the supervisor, and what it says about it. *)
LEMMA LineTaken ==
  ASSUME NEW s \in SupervisorRec, s.mode # "gone", NEW m \in AppLines, NEW r, r = OnMessage(s, m)
  PROVE  /\ r.to \in SupervisorRec
         /\ \/ r.says = <<>> /\ r.to = s /\ (m = "IGNORE" => s.mode = "sleeping")
            \/ r.says = <<>> /\ r.to.mode = "gone"
            \/ r.says = <<>> /\ r.to.mode = "sleeping" /\ m = "IGNORE" /\ s.mode = "watching"
            \/ /\ r.says = <<>> /\ s.mode \in Lockdowns /\ m = "SAVE" /\ r.to.mode = s.mode
               /\ r.to.saves = s.saves + 1 /\ r.to.left = SaveExtension /\ s.saves < MaxSaves
            \/ r.says = <<"RESOLVED">> /\ s.mode \in Lockdowns /\ r.to.mode = "watching" /\ m = "CONTINUE"
            \/ r.says = <<"RESOLVED">> /\ s.mode \in Lockdowns /\ r.to.mode = "sleeping" /\ m = "IGNORE"
            \/ r.says = <<m>> /\ s.mode = "watching" /\ m \in UiAlive /\ r.to.mode = m /\ r.to.left = Grace /\ r.to.saves = 0
<1>1. /\ s.mode \in Lockdowns \union {"watching", "sleeping"} /\ s.saves \in 0..MaxSaves
      /\ Grace \in Nat /\ SaveExtension \in Nat /\ MaxSaves \in Nat
 BY WatchdogConstants DEF SupervisorRec
<1>2. \A mode \in Lockdowns \union {"watching", "sleeping", "gone"} : In(mode) \in SupervisorRec /\ In(mode).mode = mode
 BY <1>1 DEF In, SupervisorRec
<1>3. \A mode \in Lockdowns : /\ EnterLockdown(mode) \in SupervisorRec /\ EnterLockdown(mode).mode = mode
                             /\ EnterLockdown(mode).left = Grace /\ EnterLockdown(mode).saves = 0
 BY <1>1 DEF EnterLockdown, SupervisorRec
<1>4. CASE m = "IGNORE"
 <2>1. r = OnIgnore(s) BY <1>4 DEF OnMessage, UiAlive
 <2>2. CASE s.mode \in Lockdowns
  <3>1. r.to = In("sleeping") /\ r.says = <<"RESOLVED">>
   BY <2>1, <2>2 DEF OnIgnore, Resolve, Lockdowns
  <3>2. r.to \in SupervisorRec /\ r.to.mode = "sleeping" BY <1>2, <3>1
  <3> QED BY <1>4, <2>2, <3>1, <3>2
 <2>3. CASE s.mode = "watching"
  <3>1. r.to = In("sleeping") /\ r.says = <<>> BY <2>1, <2>3 DEF OnIgnore, Keep, Lockdowns
  <3>2. r.to \in SupervisorRec /\ r.to.mode = "sleeping" BY <1>2, <3>1
  <3> QED BY <1>4, <2>3, <3>1, <3>2
 <2>4. CASE s.mode = "sleeping"
  <3>1. r = [to |-> s, says |-> <<>>] BY <2>1, <2>4 DEF OnIgnore, Keep, Lockdowns
  <3> QED BY <1>4, <2>4, <3>1
 <2> QED BY <1>1, <2>2, <2>3, <2>4
<1>5. CASE m = "CONTINUE"
 <2>1. r = IF s.mode \in Lockdowns THEN Resolve("watching") ELSE Keep(s)
  BY <1>5 DEF OnMessage, UiAlive
 <2>2. CASE s.mode \in Lockdowns
  <3>1. r.to = In("watching") /\ r.says = <<"RESOLVED">> BY <2>1, <2>2 DEF Resolve
  <3>2. r.to \in SupervisorRec /\ r.to.mode = "watching" BY <1>2, <3>1
  <3> QED BY <1>5, <2>2, <3>1, <3>2
 <2>3. CASE s.mode \notin Lockdowns BY <1>5, <2>1, <2>3 DEF Keep
 <2> QED BY <2>2, <2>3
<1>6. CASE m = "SAVE"
 <2>1. r = Keep(IF s.mode \in Lockdowns THEN ExtendGrace(s) ELSE s)
  BY <1>6 DEF OnMessage, UiAlive
 <2>2. CASE s.mode \in Lockdowns /\ s.saves < MaxSaves
  <3>1. r.to = [s EXCEPT !.left = SaveExtension, !.saves = @ + 1] /\ r.says = <<>>
   BY <2>1, <2>2 DEF Keep, ExtendGrace
  <3>2. s.saves + 1 \in 0..MaxSaves BY <1>1, <2>2
  <3> QED BY <1>1, <1>6, <2>2, <3>1, <3>2 DEF SupervisorRec
 <2>3. CASE ~(s.mode \in Lockdowns /\ s.saves < MaxSaves)
  BY <1>6, <2>1, <2>3 DEF Keep, ExtendGrace
 <2> QED BY <2>2, <2>3
<1>7. CASE m \in UiAlive BY <1>1, <1>3, <1>7 DEF OnMessage, Keep, UiAlive, Lockdowns
<1>8. CASE m \in {"QUIT", "CLOSED"} BY <1>2, <1>8 DEF OnMessage, Keep, UiAlive, Gone
<1> QED BY <1>4, <1>5, <1>6, <1>7, <1>8 DEF AppLines

(* The app does something of its own accord: what it shows changes only when  *)
(* nobody can tell it anything, and what it tells is on its way.              *)
LEMMA AppActs ==
  ASSUME WatchdogInv, app.state = "up", UNCHANGED <<supervisor, age, toApp, awake, pinged>>,
         NEW a \in AppRec, app' = a, a.state \in {"up", "leaving"}, a.socket = app.socket,
         a.shown => a.lockdown, app.socket => a.shown = app.shown /\ a.level = app.level,
         \/ toWatchdog' = toWatchdog /\ a.disabled = app.disabled
         \/ \E line \in AppLines : Tells(line) /\ (a.disabled <=> app.disabled \/ line = "IGNORE")
  PROVE  WatchdogInv'
<1> USE DEF WatchdogInv
<1>1. supervisor' = supervisor /\ age' = age /\ toApp' = toApp /\ awake' = awake /\ pinged' = pinged
 OBVIOUS
<1>2. /\ toWatchdog' \in Seq(AppLines)
      /\ Ignores(toWatchdog') => Ignores(toWatchdog) \/ a.disabled
      /\ Alive /\ app.socket /\ a.disabled => Ignores(toWatchdog') \/ app.disabled
      /\ Ignores(toWatchdog) => Ignores(toWatchdog')
      /\ app.disabled => a.disabled
 <2>1. CASE toWatchdog' = toWatchdog /\ a.disabled = app.disabled BY <2>1 DEF WatchdogTypes
 <2>2. ASSUME NEW line \in AppLines, Tells(line), a.disabled <=> app.disabled \/ line = "IGNORE"
       PROVE  /\ toWatchdog' \in Seq(AppLines)
              /\ Ignores(toWatchdog') => Ignores(toWatchdog) \/ a.disabled
              /\ Alive /\ app.socket /\ a.disabled => Ignores(toWatchdog') \/ app.disabled
              /\ Ignores(toWatchdog) => Ignores(toWatchdog')
              /\ app.disabled => a.disabled
  <3>1. toWatchdog' = IF app.socket /\ Alive THEN Append(toWatchdog, line) ELSE toWatchdog
   BY <2>2 DEF Tells
  <3>2. /\ toWatchdog \in Seq(AppLines) /\ Append(toWatchdog, line) \in Seq(AppLines)
        /\ Ignores(Append(toWatchdog, line)) <=> Ignores(toWatchdog) \/ line = "IGNORE"
   BY LinesMove DEF WatchdogTypes
  <3> QED BY <2>2, <3>1, <3>2
 <2> QED BY <2>1, <2>2
<1>3. WatchdogTypes' BY <1>1, <1>2 DEF WatchdogTypes
<1>4. TimeInv' /\ FreezeInv' BY <1>1 DEF TimeInv, FreezeInv
<1>5. SleepInv' BY <1>1, <1>2 DEF SleepInv, AppThere, Alive
<1>6. ToldInv'
 <2>1. AppThere /\ AppThere' BY DEF AppThere
 <2>2. CASE app.socket BY <1>1, <2>1, <2>2 DEF ToldInv, Alive
 <2>3. CASE ~app.socket
  <3>1. toApp = <<>> /\ ~Alive /\ Len(toApp) = 0 BY <2>1, <2>3 DEF ToldInv, SleepInv
  <3> QED BY <1>1, <2>1, <2>3, <3>1 DEF ToldInv, Alive
 <2> QED BY <2>2, <2>3
<1> QED BY <1>3, <1>4, <1>5, <1>6

(* What a sequence of lines becomes. *)
LEMMA ToldMoves ==
  ASSUME NEW S, NEW q \in Seq(S)
  PROVE  /\ Len(q) \in Nat /\ <<>> \in Seq(S) /\ q \o <<>> = q
         /\ \A x \in S : /\ Append(q, x) \in Seq(S) /\ q \o <<x>> = Append(q, x) /\ Append(q, x) # <<>>
                         /\ Len(Append(q, x)) = Len(q) + 1 /\ Append(q, x)[Len(q) + 1] = x
                         /\ \A i \in 1..Len(q) : Append(q, x)[i] = q[i]
         /\ q = <<>> <=> Len(q) = 0
         /\ q # <<>> => /\ Head(q) = q[1] /\ Head(q) \in S /\ Tail(q) \in Seq(S) /\ Len(Tail(q)) = Len(q) - 1
                       /\ \A i \in 1..(Len(q) - 1) : Tail(q)[i] = q[i + 1]
<1>1. Len(q) \in Nat /\ <<>> \in Seq(S) /\ (q = <<>> <=> Len(q) = 0) /\ q \o <<>> = q OBVIOUS
<1>2. ASSUME NEW x \in S
      PROVE  /\ Append(q, x) \in Seq(S) /\ q \o <<x>> = Append(q, x) /\ Append(q, x) # <<>>
             /\ Len(Append(q, x)) = Len(q) + 1 /\ Append(q, x)[Len(q) + 1] = x
             /\ \A i \in 1..Len(q) : Append(q, x)[i] = q[i]
 OBVIOUS
<1>3. ASSUME q # <<>>
      PROVE  /\ Head(q) = q[1] /\ Head(q) \in S /\ Tail(q) \in Seq(S) /\ Len(Tail(q)) = Len(q) - 1
             /\ \A i \in 1..(Len(q) - 1) : Tail(q)[i] = q[i + 1]
 BY <1>3
<1> QED BY <1>1, <1>2, <1>3

(* The watchdog says a line, or none, about what it has become: what the app  *)
(* will show when it has heard it is still right.                             *)
LEMMA ToldOnceMore ==
  ASSUME ToldInv, SleepInv, WatchdogTypes, UNCHANGED app, Alive,
         \/ /\ toApp' = toApp
            /\ \/ supervisor'.mode \in {supervisor.mode, "gone"}
               \/ supervisor.mode \notin UiAlive /\ supervisor'.mode \notin UiAlive
         \/ toApp' = Append(toApp, "RESOLVED") /\ supervisor'.mode \notin UiAlive
         \/ \E m \in UiAlive : toApp' = Append(toApp, m) /\ supervisor'.mode = m
         \/ /\ toApp' = Append(toApp, "TICK") /\ supervisor'.mode = supervisor.mode
            /\ supervisor.mode \in UiAlive /\ (toApp = <<>> \/ toApp[Len(toApp)] # "TICK")
  PROVE  ToldInv'
<1> DEFINE Lines == UiAlive \union {"TICK", "RESOLVED"}
<1>1. toApp \in Seq(Lines) /\ app' = app /\ (Len(toApp) # 0 => toApp[Len(toApp)] \in Lines)
 BY ToldMoves DEF WatchdogTypes
<1>2. /\ Len(toApp) \in Nat
      /\ \A x \in Lines : /\ Append(toApp, x) # <<>>
                         /\ Len(Append(toApp, x)) = Len(toApp) + 1 /\ Append(toApp, x)[Len(toApp) + 1] = x
                         /\ \A i \in 1..Len(toApp) : Append(toApp, x)[i] = toApp[i]
      /\ toApp = <<>> <=> Len(toApp) = 0
 BY <1>1, ToldMoves
<1>3. CASE /\ toApp' = toApp
           /\ \/ supervisor'.mode \in {supervisor.mode, "gone"}
              \/ supervisor.mode \notin UiAlive /\ supervisor'.mode \notin UiAlive
 <2>1. CASE supervisor'.mode \in {supervisor.mode, "gone"}
  BY <1>1, <1>3, <2>1 DEF ToldInv, AppThere, Alive
 <2>2. CASE supervisor.mode \notin UiAlive /\ supervisor'.mode \notin UiAlive
  <3>1. AppThere /\ toApp # <<>> => toApp[Len(toApp)] = "RESOLVED"
   BY <1>1, <1>2, <2>2 DEF ToldInv
  <3> QED BY <1>1, <1>3, <2>2, <3>1 DEF ToldInv, AppThere, Alive
 <2> QED BY <1>3, <2>1, <2>2
<1>4. ASSUME NEW x \in Lines, toApp' = Append(toApp, x),
             x = "RESOLVED" => supervisor'.mode \notin UiAlive,
             x \in UiAlive => supervisor'.mode = x,
             x = "TICK" => /\ supervisor'.mode = supervisor.mode /\ supervisor.mode \in UiAlive
                           /\ toApp = <<>> \/ toApp[Len(toApp)] # "TICK"
      PROVE  ToldInv'
 <2> DEFINE n == Len(toApp)
 <2>1. /\ n \in Nat /\ toApp' # <<>> /\ Len(toApp') = n + 1 /\ toApp'[n + 1] = x
       /\ \A i \in 1..n : toApp'[i] = toApp[i]
       /\ toApp = <<>> <=> n = 0
  BY <1>2, <1>4
 <2>2. AppThere => app.socket /\ AppThere' BY <1>1 DEF SleepInv, AppThere
 <2>3. AppThere /\ x = "TICK" =>
         /\ n = 0 => app.shown /\ app.level = supervisor.mode
         /\ n # 0 => toApp[n] \in UiAlive /\ toApp[n] = supervisor.mode
  BY <1>1, <1>4, <2>1 DEF ToldInv, UiAlive
 <2>4. ASSUME AppThere, NEW i \in 1..Len(toApp'), toApp'[i] = "TICK"
       PROVE  IF i = 1 THEN app'.shown ELSE toApp'[i - 1] \in UiAlive
  <3>1. CASE i \in 1..n BY <1>1, <2>1, <2>4, <3>1 DEF ToldInv
  <3>2. CASE i = n + 1 BY <1>1, <2>1, <2>3, <2>4, <3>2
  <3> QED BY <2>1, <3>1, <3>2
 <2>5. ASSUME AppThere
       PROVE  /\ x \in UiAlive => supervisor'.mode = x
              /\ x = "RESOLVED" => supervisor'.mode \notin UiAlive
              /\ x = "TICK" => /\ supervisor'.mode \in UiAlive
                               /\ supervisor'.mode = IF n + 1 = 1 THEN app'.level ELSE toApp'[n]
  BY <1>1, <1>4, <2>1, <2>3, <2>5
 <2> HIDE DEF n
 <2>6. AppThere <=> AppThere' BY <1>1 DEF AppThere
 <2>7. (app.shown => app.lockdown) /\ (~AppThere => ~app.shown) BY DEF ToldInv
 <2>8. n + 1 - 1 = n BY <2>1
 <2> QED BY <1>1, <2>1, <2>2, <2>4, <2>5, <2>6, <2>7, <2>8 DEF ToldInv
<1>5. CASE toApp' = Append(toApp, "RESOLVED") /\ supervisor'.mode \notin UiAlive
 BY <1>4, <1>5 DEF UiAlive
<1>6. CASE \E m \in UiAlive : toApp' = Append(toApp, m) /\ supervisor'.mode = m
 BY <1>4, <1>6 DEF UiAlive
<1>7. CASE /\ toApp' = Append(toApp, "TICK") /\ supervisor'.mode = supervisor.mode
           /\ supervisor.mode \in UiAlive /\ (toApp = <<>> \/ toApp[Len(toApp)] # "TICK")
 BY <1>4, <1>7 DEF UiAlive
<1> QED BY <1>3, <1>5, <1>6, <1>7

LEMMA WatchdogNextInv == ASSUME WatchdogInv, WatchdogNext PROVE WatchdogInv'
<1> USE DEF WatchdogInv
<1>t. /\ supervisor \in SupervisorRec /\ age \in Nat /\ app \in AppRec
      /\ toWatchdog \in Seq(AppLines) /\ toApp \in Seq(UiAlive \union {"TICK", "RESOLVED"})
      /\ supervisor.left \in Nat /\ supervisor.saves \in 0..MaxSaves
 BY DEF WatchdogTypes, SupervisorRec
<1>g. Gone \in SupervisorRec /\ Gone.mode = "gone"
 BY WatchdogConstants DEF Gone, In, SupervisorRec
<1>s. app.shown => app.lockdown BY DEF ToldInv
<1>1. CASE TakeLine
 <2> DEFINE m == Head(toWatchdog)
            r == OnMessage(supervisor, m)
 <2>1. /\ supervisor' = r.to /\ toApp' = toApp \o r.says /\ toWatchdog' = Tail(toWatchdog)
       /\ age' = IF supervisor'.mode = supervisor.mode THEN age ELSE 0
       /\ UNCHANGED <<app, awake, pinged>> /\ Alive /\ toWatchdog # <<>>
       /\ supervisor.mode \in {"freeze", "red"} => supervisor.left # 0
  BY <1>1 DEF TakeLine, Due
 <2>2. m \in AppLines /\ toWatchdog' \in Seq(AppLines) /\ (Ignores(toWatchdog) <=> Ignores(toWatchdog') \/ m = "IGNORE")
  BY <1>t, <2>1, LinesMove
 <2> HIDE DEF m, r
 <2>3. /\ r.to \in SupervisorRec
       /\ \/ r.says = <<>> /\ r.to = supervisor /\ (m = "IGNORE" => supervisor.mode = "sleeping")
          \/ r.says = <<>> /\ r.to.mode = "gone"
          \/ r.says = <<>> /\ r.to.mode = "sleeping" /\ m = "IGNORE" /\ supervisor.mode = "watching"
          \/ /\ r.says = <<>> /\ supervisor.mode \in Lockdowns /\ m = "SAVE" /\ r.to.mode = supervisor.mode
             /\ r.to.saves = supervisor.saves + 1 /\ r.to.left = SaveExtension /\ supervisor.saves < MaxSaves
          \/ r.says = <<"RESOLVED">> /\ supervisor.mode \in Lockdowns /\ r.to.mode = "watching" /\ m = "CONTINUE"
          \/ r.says = <<"RESOLVED">> /\ supervisor.mode \in Lockdowns /\ r.to.mode = "sleeping" /\ m = "IGNORE"
          \/ /\ r.says = <<m>> /\ supervisor.mode = "watching" /\ m \in UiAlive
             /\ r.to.mode = m /\ r.to.left = Grace /\ r.to.saves = 0
  BY <1>t, <2>1, <2>2, LineTaken DEF r, Alive
 <2>4. toApp \o <<>> = toApp /\ \A x \in UiAlive \union {"TICK", "RESOLVED"} : /\ toApp \o <<x>> = Append(toApp, x)
          /\ Append(toApp, x) \in Seq(UiAlive \union {"TICK", "RESOLVED"})
  BY <1>t, ToldMoves
 <2>5. \/ toApp' = toApp /\ supervisor'.mode \in {supervisor.mode, "gone"}
       \/ toApp' = toApp /\ supervisor.mode = "watching" /\ supervisor'.mode = "sleeping"
       \/ toApp' = Append(toApp, "RESOLVED") /\ supervisor'.mode \in {"watching", "sleeping"}
       \/ m \in UiAlive /\ toApp' = Append(toApp, m) /\ supervisor'.mode = m
  BY <2>1, <2>3, <2>4
 <2>6. toApp' \in Seq(UiAlive \union {"TICK", "RESOLVED"}) BY <1>t, <2>4, <2>5
 <2>7. WatchdogTypes' BY <1>t, <2>1, <2>2, <2>3, <2>6 DEF WatchdogTypes
 <2>8. TimeInv'
  <3>1. CASE supervisor' = supervisor BY <2>1, <3>1 DEF TimeInv
  <3>2. CASE /\ supervisor'.mode = supervisor.mode /\ supervisor'.saves = supervisor.saves + 1
             /\ supervisor'.left = SaveExtension /\ supervisor.saves < MaxSaves
   <4>1. CASE supervisor.mode \in {"freeze", "red"}
    <5>1. supervisor.left > 0 /\ age' = age BY <1>t, <2>1, <3>2, <4>1
    <5>2. age + SaveExtension < Grace + (supervisor.saves + 1) * SaveExtension
     BY <1>t, <4>1, <5>1, TimeExtended DEF TimeInv
    <5>3. supervisor.saves + 1 # 0 BY <1>t
    <5> QED BY <3>2, <5>1, <5>2, <5>3 DEF TimeInv
   <4> QED BY <3>2, <4>1 DEF TimeInv
  <3>3. CASE supervisor'.mode \in UiAlive /\ supervisor'.left = Grace /\ supervisor'.saves = 0 /\ supervisor.mode = "watching"
   <4>1. age' = 0 BY <2>1, <3>3 DEF UiAlive
   <4> QED BY <3>3, <4>1, WatchdogConstants DEF TimeInv
  <3>4. CASE supervisor'.mode \in {"gone", "watching", "sleeping"} BY <3>4 DEF TimeInv
  <3> QED BY <2>1, <2>3, <3>1, <3>2, <3>3, <3>4
 <2>9. FreezeInv'
  <3>1. supervisor'.mode = "freeze" => supervisor.mode = "freeze" BY <2>5 DEF UiAlive
  <3> QED BY <2>1, <3>1 DEF FreezeInv
 <2>10. SleepInv'
  <3>1. m = "IGNORE" => supervisor'.mode \in {"sleeping", "gone"} BY <2>1, <2>3 DEF UiAlive
  <3>2. supervisor.mode = "sleeping" => supervisor'.mode \in {"sleeping", "gone"}
   BY <2>1, <2>3 DEF Lockdowns
  <3>3. supervisor'.mode = "sleeping" => supervisor.mode = "sleeping" \/ m = "IGNORE"
   BY <2>1, <2>3 DEF Lockdowns, UiAlive
  <3> QED BY <2>1, <2>2, <3>1, <3>2, <3>3 DEF SleepInv, AppThere, Alive
 <2>11. ToldInv' BY <2>1, <2>5, ToldOnceMore DEF UiAlive
 <2> QED BY <2>7, <2>8, <2>9, <2>10, <2>11
<1>2. CASE OnSilence
 <2>1. /\ supervisor.mode = "watching" /\ ~Ignores(toWatchdog) /\ app.state \in {"up", "stalled"} /\ NoHeartbeat
       /\ supervisor' = EnterLockdown("freeze") /\ age' = 0
       /\ UNCHANGED <<toWatchdog, toApp, app, awake, pinged>>
  BY <1>2, LinesMove DEF OnSilence, Ignores
 <2>2. EnterLockdown("freeze") \in SupervisorRec /\ supervisor'.mode = "freeze"
       /\ supervisor'.left = Grace /\ supervisor'.saves = 0
  BY <2>1, WatchdogConstants DEF EnterLockdown, SupervisorRec, Lockdowns
 <2>3. app.state = "stalled" BY <2>1 DEF SleepInv, AppThere, Alive, NoHeartbeat
 <2>4. WatchdogTypes' /\ TimeInv' BY <2>1, <2>2, WatchdogConstants DEF WatchdogTypes, TimeInv
 <2>5. FreezeInv' /\ SleepInv' BY <2>1, <2>2, <2>3 DEF FreezeInv, SleepInv, AppThere, Alive
 <2>6. ToldInv' BY <2>1, <2>2, ToldOnceMore DEF UiAlive, Alive
 <2> QED BY <2>4, <2>5, <2>6
<1>3. CASE Kill
 <2> DEFINE how == IF supervisor.mode = "freeze" THEN "restarted" ELSE "killed"
 <2>1. /\ AppEnded(how) \in AppRec /\ AppEnded(how).state = how /\ ~AppEnded(how).shown
       /\ how \in {"restarted", "killed"}
  BY DEF AppEnded, NewApp, AppRec
 <2>2. /\ app' = AppEnded(how) /\ supervisor' = Gone /\ age' = 0 /\ toWatchdog' = <<>> /\ toApp' = <<>>
       /\ UNCHANGED <<awake, pinged>> /\ supervisor.mode \in {"freeze", "red"}
  BY <1>3 DEF Kill, Due
 <2>3. how = "restarted" => supervisor.mode = "freeze" OBVIOUS
 <2> HIDE DEF how
 <2>4. WatchdogTypes' BY <1>g, <2>1, <2>2 DEF WatchdogTypes
 <2>5. TimeInv' /\ FreezeInv' /\ SleepInv' /\ ToldInv'
  BY <1>g, <2>1, <2>2, <2>3 DEF TimeInv, FreezeInv, SleepInv, ToldInv, AppThere
 <2> QED BY <2>4, <2>5
<1>4. CASE Dies
 <2>1. /\ supervisor' = Gone /\ age' = 0 /\ toWatchdog' = <<>> /\ ~Ignores(<<>>) /\ Alive
       /\ UNCHANGED <<toApp, app, awake, pinged>>
  BY <1>4, LinesMove, <1>t DEF Dies
 <2>2. WatchdogTypes' /\ TimeInv' /\ FreezeInv'
  BY <1>g, <2>1 DEF WatchdogTypes, TimeInv, FreezeInv
 <2>3. SleepInv' BY <1>g, <2>1 DEF SleepInv, AppThere, Alive
 <2>4. ToldInv' BY <1>g, <2>1, ToldOnceMore
 <2> QED BY <2>2, <2>3, <2>4
<1>5. CASE Scan
 <2>1. /\ toWatchdog' = Append(toWatchdog, "red") /\ toWatchdog' \in Seq(AppLines)
       /\ Ignores(toWatchdog') <=> Ignores(toWatchdog)
       /\ UNCHANGED <<supervisor, age, toApp, app, awake, pinged>>
  BY <1>5, <1>t, LinesMove DEF Scan, AppLines, UiAlive
 <2>2. WatchdogTypes' /\ TimeInv' /\ FreezeInv' BY <2>1 DEF WatchdogTypes, TimeInv, FreezeInv
 <2>3. SleepInv' /\ ToldInv' BY <2>1 DEF SleepInv, ToldInv, AppThere, Alive
 <2> QED BY <2>2, <2>3
<1>6. CASE Tick
 <2> DEFINE next == [supervisor EXCEPT !.left = IF @ = 0 THEN 0 ELSE @ - 1]
 <2>1. /\ supervisor' = next /\ Alive /\ app.state \in {"up", "stalled"}
       /\ supervisor.mode \in {"freeze", "red"} => supervisor.left # 0
       /\ ~Ignores(toWatchdog) /\ (NoHeartbeat \/ pinged)
       /\ age' = IF supervisor.mode \in {"freeze", "red"} THEN age + 1 ELSE age
       /\ pinged' = FALSE /\ awake' = IF app.state = "up" THEN 1 ELSE 0
       /\ UNCHANGED <<toWatchdog, app>>
  BY <1>6 DEF Tick, Due, Ignores
 <2>2. /\ next \in SupervisorRec /\ next.mode = supervisor.mode /\ next.saves = supervisor.saves
       /\ supervisor.left # 0 => next.left + 1 = supervisor.left
       /\ next.left \in Nat
  BY <1>t DEF SupervisorRec
 <2> HIDE DEF next
 <2>3. \/ toApp' = toApp
       \/ /\ toApp' = Append(toApp, "TICK") /\ supervisor.mode \in UiAlive
          /\ toApp = <<>> \/ toApp[Len(toApp)] # "TICK"
  BY <1>6 DEF Tick
 <2>4. toApp' \in Seq(UiAlive \union {"TICK", "RESOLVED"}) BY <1>t, <2>3
 <2>a. age' \in {age, age + 1} /\ age' \in Nat /\ (supervisor.mode \in {"freeze", "red"} => age' = age + 1)
  BY <1>t, <2>1
 <2>5. WatchdogTypes' BY <1>t, <2>1, <2>2, <2>4, <2>a DEF WatchdogTypes
 <2>6. TimeInv'
  <3>1. CASE supervisor.mode \in {"freeze", "red"}
   <4>1. age' + supervisor'.left = age + supervisor.left
    <5>1. /\ age' = age + 1 /\ supervisor'.left = next.left /\ next.left + 1 = supervisor.left
          /\ age \in Nat /\ next.left \in Nat
     BY <1>t, <2>1, <2>2, <2>a, <3>1
    <5>2. \A a, l \in Nat : (a + 1) + l = a + (l + 1) OBVIOUS
    <5> QED BY <5>1, <5>2
   <4> QED BY <2>1, <2>2, <3>1, <4>1 DEF TimeInv
  <3> QED BY <2>1, <2>2, <3>1 DEF TimeInv
 <2>7. supervisor.mode = "freeze" => app.state = "stalled"
  <3>1. app.disabled => supervisor.mode = "sleeping" BY <2>1 DEF SleepInv, AppThere
  <3> QED BY <2>1, <3>1 DEF FreezeInv, NoHeartbeat
 <2>8. FreezeInv' /\ SleepInv' BY <2>1, <2>2, <2>7 DEF FreezeInv, SleepInv, AppThere, Alive
 <2>9. ToldInv' BY <2>1, <2>2, <2>3, ToldOnceMore
 <2> QED BY <2>5, <2>6, <2>8, <2>9
<1>7. CASE Ping
 <2>1. /\ app.state = "up" /\ ~app.disabled /\ Alive /\ toWatchdog = <<>>
       /\ pinged' = TRUE /\ supervisor' = OnHeartbeat(supervisor)
       /\ age' = IF supervisor'.mode = supervisor.mode THEN age ELSE 0
       /\ UNCHANGED <<toWatchdog, toApp, app, awake>>
  BY <1>7 DEF Ping
 <2>2. \/ supervisor' = supervisor /\ supervisor.mode # "freeze"
       \/ supervisor.mode = "freeze" /\ supervisor'.mode = "watching" /\ supervisor' \in SupervisorRec
  BY <2>1, WatchdogConstants DEF OnHeartbeat, Watching, In, SupervisorRec
 <2>3. WatchdogTypes' /\ TimeInv' /\ FreezeInv'
  BY <1>t, <2>1, <2>2 DEF WatchdogTypes, TimeInv, FreezeInv
 <2>4. SleepInv' BY <2>1, <2>2 DEF SleepInv, AppThere, Alive
 <2>5. ToldInv' BY <2>1, <2>2, ToldOnceMore DEF UiAlive
 <2> QED BY <2>3, <2>4, <2>5
<1>8. CASE Stall \/ Resume
 <2>1. PICK s \in {"stalled", "up"} :
         /\ app' = [app EXCEPT !.state = s] /\ app.state \in {"up", "stalled"}
         /\ s = "stalled" => awake' = 0 /\ pinged' = pinged
         /\ s = "up" => awake' = awake /\ pinged' = FALSE
         /\ UNCHANGED <<supervisor, age, toWatchdog, toApp>>
  BY <1>8 DEF Stall, Resume
 <2>2. /\ app' \in AppRec /\ app'.state = s /\ app'.shown = app.shown /\ app'.lockdown = app.lockdown
       /\ app'.level = app.level /\ app'.disabled = app.disabled /\ app'.socket = app.socket
  BY <1>t, <2>1 DEF AppRec
 <2>3. WatchdogTypes' /\ TimeInv' BY <2>1, <2>2 DEF WatchdogTypes, TimeInv
 <2>4. FreezeInv' BY <2>1, <2>2 DEF FreezeInv
 <2>5. SleepInv' /\ ToldInv' BY <2>1, <2>2 DEF SleepInv, ToldInv, AppThere, Alive
 <2> QED BY <2>3, <2>4, <2>5
<1>9. CASE TriggerLockdown
 <2> DEFINE a == [app EXCEPT !.polluted = TRUE, !.lockdown = TRUE,
                       !.level = IF app.socket THEN @ ELSE "yellow",
                       !.shown = @ \/ ~app.socket]
 <2>1. a \in AppRec /\ a.state = app.state /\ a.socket = app.socket /\ a.lockdown /\ a.disabled = app.disabled
       /\ (app.socket => a.shown = app.shown /\ a.level = app.level)
  BY <1>t DEF AppRec, UiAlive
 <2>2. app' = a /\ Tells("yellow") /\ app.state = "up" /\ UNCHANGED <<supervisor, age, toApp, awake, pinged>>
  BY <1>9 DEF TriggerLockdown
 <2> HIDE DEF a
 <2> QED BY <2>1, <2>2, AppActs DEF AppLines, UiAlive
<1>10. CASE Hear
 <2>1. /\ app.state = "up" /\ UNCHANGED <<supervisor, age, toWatchdog, awake, pinged>>
       /\ \/ toApp # <<>> /\ toApp' = Tail(toApp) /\ app' = Heard(app, Head(toApp))
          \/ toApp = <<>> /\ ~Alive /\ app' = [app EXCEPT !.socket = FALSE] /\ toApp' = toApp
  BY <1>10 DEF Hear
 <2>2. CASE toApp = <<>> /\ ~Alive /\ app' = [app EXCEPT !.socket = FALSE] /\ toApp' = toApp
  <3>1. /\ app' \in AppRec /\ app'.state = app.state /\ app'.shown = app.shown /\ app'.lockdown = app.lockdown
        /\ app'.level = app.level /\ app'.disabled = app.disabled
   BY <1>t, <2>2 DEF AppRec
  <3>2. WatchdogTypes' /\ TimeInv' /\ FreezeInv'
   BY <2>1, <2>2, <3>1 DEF WatchdogTypes, TimeInv, FreezeInv
  <3>3. SleepInv' /\ ToldInv' BY <2>1, <2>2, <3>1 DEF SleepInv, ToldInv, AppThere, Alive
  <3> QED BY <3>2, <3>3
 <2>3. CASE toApp # <<>> /\ toApp' = Tail(toApp) /\ app' = Heard(app, Head(toApp))
  <3> DEFINE line == Head(toApp)
             n == Len(toApp)
  <3>1. /\ line = toApp[1] /\ line \in UiAlive \union {"TICK", "RESOLVED"} /\ n \in Nat /\ n > 0
        /\ toApp' \in Seq(UiAlive \union {"TICK", "RESOLVED"}) /\ Len(toApp') = n - 1
        /\ \A i \in 1..(n - 1) : toApp'[i] = toApp[i + 1]
        /\ toApp' = <<>> <=> n = 1
   <4>1. /\ line = toApp[1] /\ line \in UiAlive \union {"TICK", "RESOLVED"} /\ n \in Nat /\ n # 0
         /\ Tail(toApp) \in Seq(UiAlive \union {"TICK", "RESOLVED"}) /\ Len(Tail(toApp)) = n - 1
         /\ \A i \in 1..(n - 1) : Tail(toApp)[i] = toApp[i + 1]
    BY <1>t, <2>3, ToldMoves
   <4>2. Tail(toApp) = <<>> <=> Len(Tail(toApp)) = 0 BY <4>1, ToldMoves
   <4> QED BY <2>3, <4>1, <4>2
  <3> HIDE DEF line, n
  <3>2. /\ app' \in AppRec /\ app'.state = app.state /\ app'.disabled = app.disabled /\ app'.socket = app.socket
        /\ line \in UiAlive => app'.shown /\ app'.lockdown /\ app'.level = line
        /\ line = "TICK" => app'.shown /\ app'.lockdown = app.lockdown /\ app'.level = app.level
        /\ line = "RESOLVED" => ~app'.shown /\ ~app'.lockdown
   <4>1. app' = Heard(app, line) BY <2>3 DEF line
   <4>2. CASE line \in UiAlive
    <5>1. app' = [app EXCEPT !.level = line, !.lockdown = TRUE, !.polluted = TRUE, !.shown = TRUE]
     BY <4>1, <4>2 DEF Heard, UiAlive
    <5> QED BY <1>t, <4>2, <5>1 DEF AppRec, UiAlive
   <4>3. CASE line = "TICK"
    <5>1. app' = [app EXCEPT !.shown = TRUE] BY <4>1, <4>3 DEF Heard, UiAlive
    <5> QED BY <1>t, <4>3, <5>1 DEF AppRec, UiAlive
   <4>4. CASE line = "RESOLVED"
    <5>1. app' = [app EXCEPT !.lockdown = FALSE, !.polluted = @ /\ app.disabled, !.shown = FALSE]
     BY <4>1, <4>4 DEF Heard, UiAlive
    <5> QED BY <1>t, <4>4, <5>1 DEF AppRec, UiAlive
   <4> QED BY <3>1, <4>2, <4>3, <4>4
  <3>3. WatchdogTypes' /\ TimeInv' /\ FreezeInv'
   BY <2>1, <3>1, <3>2 DEF WatchdogTypes, TimeInv, FreezeInv
  <3>4. SleepInv' BY <2>1, <3>2 DEF SleepInv, AppThere, Alive
  <3>5. AppThere /\ AppThere' /\ app.socket BY <2>1, <2>3, <3>2 DEF AppThere, ToldInv
  <3>6. line = "TICK" => app.shown
   <4>1. 1 \in 1..n BY <3>1
   <4> QED BY <3>1, <3>5, <4>1 DEF ToldInv, n
  <3>7. (app'.shown => app'.lockdown) /\ (~AppThere' => ~app'.shown) /\ app'.socket
   BY <3>1, <3>2, <3>5, <3>6 DEF ToldInv
  <3>8. ASSUME NEW i \in 1..Len(toApp'), toApp'[i] = "TICK"
        PROVE  IF i = 1 THEN app'.shown ELSE toApp'[i - 1] \in UiAlive
   <4>1. i + 1 \in 1..n /\ toApp[i + 1] = "TICK" /\ i \in 1..n /\ (i # 1 => toApp'[i - 1] = toApp[i])
    BY <3>1, <3>8
   <4>2. toApp[i] \in UiAlive BY <3>5, <4>1 DEF ToldInv, n
   <4> QED BY <3>1, <3>2, <4>1, <4>2
  <3>9. Alive' /\ toApp' = <<>> =>
          (app'.shown <=> supervisor'.mode \in UiAlive) /\ (app'.shown => app'.level = supervisor'.mode)
   <4> SUFFICES ASSUME Alive, n = 1
                PROVE  (app'.shown <=> supervisor.mode \in UiAlive) /\ (app'.shown => app'.level = supervisor.mode)
    BY <2>1, <3>1 DEF Alive
   <4>1. /\ line \in UiAlive => supervisor.mode = line
         /\ line = "RESOLVED" => supervisor.mode \notin UiAlive
         /\ line = "TICK" => supervisor.mode \in UiAlive /\ supervisor.mode = app.level
    BY <2>3, <3>1, <3>5 DEF ToldInv, n
   <4> QED BY <3>1, <3>2, <4>1
  <3>10. Alive' /\ toApp' # <<>> =>
            /\ toApp'[Len(toApp')] \in UiAlive => supervisor'.mode = toApp'[Len(toApp')]
            /\ toApp'[Len(toApp')] = "RESOLVED" => supervisor'.mode \notin UiAlive
            /\ toApp'[Len(toApp')] = "TICK" =>
                 /\ supervisor'.mode \in UiAlive
                 /\ supervisor'.mode = IF Len(toApp') = 1 THEN app'.level ELSE toApp'[Len(toApp') - 1]
   <4> SUFFICES ASSUME Alive, n # 1
                PROVE  /\ toApp[n] \in UiAlive => supervisor.mode = toApp[n]
                       /\ toApp[n] = "RESOLVED" => supervisor.mode \notin UiAlive
                       /\ toApp[n] = "TICK" =>
                            /\ supervisor.mode \in UiAlive
                            /\ supervisor.mode = IF n = 2 THEN app'.level ELSE toApp[n - 1]
    <5>1. ASSUME n # 1 PROVE toApp'[Len(toApp')] = toApp[n] /\ (n # 2 => toApp'[Len(toApp') - 1] = toApp[n - 1]) /\ (Len(toApp') = 1 <=> n = 2)
     BY <3>1, <5>1
    <5> QED BY <2>1, <3>1, <5>1 DEF Alive
   <4>1. /\ toApp[n] \in UiAlive => supervisor.mode = toApp[n]
         /\ toApp[n] = "RESOLVED" => supervisor.mode \notin UiAlive
         /\ toApp[n] = "TICK" => supervisor.mode \in UiAlive /\ supervisor.mode = toApp[n - 1]
    BY <2>3, <3>1, <3>5 DEF ToldInv, n
   <4>2. n = 2 /\ toApp[n] = "TICK" => line \in UiAlive /\ toApp[n - 1] = line
    <5>1. n = 2 => 2 \in 1..n /\ 2 - 1 = 1 BY <3>1
    <5> QED BY <3>1, <3>5, <5>1 DEF ToldInv, n
   <4> QED BY <3>2, <4>1, <4>2
  <3>11. ToldInv' BY <3>5, <3>7, <3>8, <3>9, <3>10 DEF ToldInv
  <3> QED BY <3>3, <3>4, <3>11
 <2> QED BY <2>1, <2>2, <2>3
<1>l. ASSUME NEW line \in {"CONTINUE", "QUIT"}, Tells(line), app' = [app EXCEPT !.state = "leaving"],
             app.state = "up", UNCHANGED <<supervisor, age, toApp, awake, pinged>>
      PROVE  WatchdogInv'
 <2> DEFINE a == [app EXCEPT !.state = "leaving"]
 <2>1. /\ a \in AppRec /\ a.state = "leaving" /\ a.socket = app.socket /\ a.lockdown = app.lockdown
       /\ a.shown = app.shown /\ a.level = app.level /\ a.disabled = app.disabled
  BY <1>t DEF AppRec
 <2>2. line \in AppLines /\ line # "IGNORE" /\ app' = a BY <1>l DEF AppLines
 <2> HIDE DEF a
 <2>3. a.shown => a.lockdown BY <1>s, <2>1
 <2>4. Tells(line) /\ (a.disabled <=> app.disabled \/ line = "IGNORE") BY <1>l, <2>1, <2>2
 <2> QED BY <1>l, <2>1, <2>2, <2>3, <2>4, AppActs
<1>11. ASSUME NEW what \in {"ignore", "continue", "save-15s", "restart-safe"}, Act(what), app.state = "up",
              UNCHANGED <<supervisor, age, toApp, awake, pinged>>
       PROVE  WatchdogInv'
 <2>1. ASSUME NEW b \in AppRec, b.state = app.state, b.socket = app.socket, b.lockdown = app.lockdown,
              b.shown = app.shown, b.level = app.level
       PROVE  /\ SettledHere(b) \in AppRec /\ SettledHere(b).state = "up" /\ SettledHere(b).socket = app.socket
              /\ SettledHere(b).shown => SettledHere(b).lockdown
              /\ app.socket => SettledHere(b).shown = app.shown /\ SettledHere(b).level = app.level
              /\ SettledHere(b).disabled = b.disabled
  BY <1>11, <2>1 DEF SettledHere, AppRec, ToldInv
 <2>2. CASE what = "ignore"
  <3> DEFINE b == [app EXCEPT !.polluted = TRUE, !.disabled = TRUE, !.asking = FALSE]
  <3>1. /\ b \in AppRec /\ b.state = app.state /\ b.socket = app.socket /\ b.lockdown = app.lockdown
        /\ b.shown = app.shown /\ b.level = app.level /\ b.disabled
   BY <1>t DEF AppRec
  <3>2. app' = SettledHere(b) /\ Tells("IGNORE") BY <1>11, <2>2 DEF Act
  <3> HIDE DEF b
  <3> QED BY <1>11, <2>1, <3>1, <3>2, AppActs DEF AppLines
 <2>3. CASE what = "continue"
  <3> DEFINE b == [app EXCEPT !.polluted = FALSE]
  <3>1. /\ b \in AppRec /\ b.state = app.state /\ b.socket = app.socket /\ b.lockdown = app.lockdown
        /\ b.shown = app.shown /\ b.level = app.level /\ b.disabled = app.disabled
   BY <1>t DEF AppRec
  <3>2. app' = SettledHere(b) /\ Tells("CONTINUE") BY <1>11, <2>3 DEF Act
  <3> HIDE DEF b
  <3> QED BY <1>11, <2>1, <3>1, <3>2, AppActs DEF AppLines
 <2>4. CASE what = "save-15s"
  <3>1. app' = SettledHere(app) /\ Tells("SAVE") BY <1>11, <2>4 DEF Act
  <3> QED BY <1>11, <1>t, <2>1, <3>1, AppActs DEF AppLines
 <2>5. CASE what = "restart-safe"
  <3>1. app' = [app EXCEPT !.state = "leaving"] /\ Tells("CONTINUE") BY <1>11, <2>5 DEF Act
  <3> QED BY <1>l, <1>11, <3>1
 <2> QED BY <2>2, <2>3, <2>4, <2>5
<1>12. ASSUME NEW yes \in BOOLEAN, app' = [app EXCEPT !.asking = yes], toWatchdog' = toWatchdog, app.state = "up",
              UNCHANGED <<supervisor, age, toApp, awake, pinged>>
       PROVE  WatchdogInv'
 <2>1. /\ app' \in AppRec /\ app'.state = "up" /\ app'.socket = app.socket /\ app'.lockdown = app.lockdown
       /\ app'.shown = app.shown /\ app'.level = app.level /\ app'.disabled = app.disabled
  BY <1>t, <1>12 DEF AppRec
 <2> QED BY <1>12, <2>1, AppActs DEF ToldInv
<1>13. CASE ResolveLockdown
 <2>1. /\ app.state = "up" /\ UNCHANGED <<supervisor, age, toApp, awake, pinged>>
       /\ \/ Act("continue") \/ Act("save-15s") \/ Act("restart-safe")
          \/ app' = [app EXCEPT !.asking = TRUE] /\ toWatchdog' = toWatchdog
  BY <1>13 DEF ResolveLockdown
 <2> QED BY <1>11, <1>12, <2>1
<1>14. CASE OwnerAnswers
 <2>1. /\ app.state = "up" /\ UNCHANGED <<supervisor, age, toApp, awake, pinged>>
       /\ Act("ignore") \/ (app' = [app EXCEPT !.asking = FALSE] /\ toWatchdog' = toWatchdog)
  BY <1>14 DEF OwnerAnswers
 <2> QED BY <1>11, <1>12, <2>1
<1>15. CASE QuitApp BY <1>l, <1>15 DEF QuitApp
<1>16. CASE Exit
 <2>1. /\ app' = AppEnded("exited") /\ Tells("CLOSED") /\ toApp' = <<>>
       /\ UNCHANGED <<supervisor, age, awake, pinged>>
  BY <1>16 DEF Exit
 <2>2. AppEnded("exited") \in AppRec /\ app'.state = "exited" /\ ~app'.shown
  BY <2>1 DEF AppEnded, NewApp, AppRec
 <2>3. toWatchdog' \in Seq(AppLines) BY <1>t, <2>1, LinesMove DEF Tells, AppLines
 <2>4. WatchdogTypes' /\ TimeInv' /\ FreezeInv'
  BY <2>1, <2>2, <2>3 DEF WatchdogTypes, TimeInv, FreezeInv
 <2>5. SleepInv' /\ ToldInv' BY <2>2 DEF SleepInv, ToldInv, AppThere
 <2> QED BY <2>4, <2>5
<1> QED
 BY <1>1, <1>2, <1>3, <1>4, <1>5, <1>6, <1>7, <1>8, <1>9, <1>10, <1>13, <1>14, <1>15, <1>16 DEF WatchdogNext

LEMMA WatchdogInvImplies == ASSUME WatchdogInv PROVE WatchedRight
<1> USE DEF WatchdogInv
<1>1. KilledInTime BY TimeBounds DEF KilledInTime, FreezeInv, Lockdowns
<1>2. AlertsAgree
 <2>1. ~Ignores(<<>>) BY DEF Ignores
 <2> QED BY <2>1 DEF AlertsAgree, NothingOnItsWay, SleepInv, ToldInv, AppThere, WatchdogTypes, AppRec
<1> QED BY <1>1, <1>2 DEF WatchedRight

--------------------------------------------------
(* A turn sent to a provider: LlmGateway and the adapters *)

PieceNames == Nat \X Nat
Pieces == Seq(PieceNames)
Adapters == DOMAIN EndsOf
StopReasons == {"end_turn", "tool_use", "max_tokens", "pause_turn", "budget_exceeded", "refusal",
                "model_context_window_exceeded"}
LastEvents == {"none", "finished"} \union UNION {EndsOf[p] : p \in DOMAIN EndsOf}
SaidRec == [text : Nat, thought : Nat, call : {"none", "open", "whole"}, end : LastEvents, updated : BOOLEAN]
HeardRec == [text : Pieces, thought : Pieces, call : {"none", "open", "whole"},
             stop : StopReasons, terminal : BOOLEAN, broken : {"no", "retry", "final"}]

LEMMA HearsContent ==
  ASSUME provider \in Adapters, NEW h, NEW k \in Content, NEW c PROVE Hears(h, <<k, c>>) = Gather(h, <<k, c>>)
<1> DEFINE e == <<k, c>>
<1>0. e[1] = k /\ k \in {"text", "thought", "call"} BY DEF Content, Kinds
<1>1. /\ OpenAiHears(h, e) = Gather(h, e)
      /\ AnthropicHears(h, e) = Gather(h, e)
      /\ GeminiHears(h, e) = Gather(h, e)
      /\ OllamaHears(h, e) = Gather(h, e)
      /\ DeepSeekHears(h, e) = Gather(h, e)
      /\ ZhipuHears(h, e) = Gather(h, e)
      /\ KimiHears(h, e) = Gather(h, e)
      /\ MiniMaxHears(h, e) = Gather(h, e)
      /\ MiniMaxChatHears(h, e) = Gather(h, e)
      /\ QwenHears(h, e) = Gather(h, e)
 <2> HIDE DEF e
 <2> QED BY <1>0 DEF OpenAiHears, AnthropicHears, GeminiHears, OllamaHears, DeepSeekHears, ZhipuHears, KimiHears, MiniMaxHears, MiniMaxChatHears, QwenHears, Content, Kinds, Sentinel
<1> HIDE DEF e
<1>2. QED BY <1>1 DEF Hears, Adapters, EndsOf, e

LEMMA GathersPiece ==
  ASSUME NEW h \in HeardRec, NEW k \in Kinds, NEW p \in PieceNames, NEW g, g = Gather(h, <<k, p>>)
  PROVE  /\ g \in HeardRec /\ g[k] = Append(h[k], p) /\ \A j \in Kinds \ {k} : g[j] = h[j]
         /\ g.call = h.call /\ g.stop = h.stop /\ g.terminal = h.terminal /\ g.broken = h.broken
<1>1. g = [h EXCEPT ![k] = Append(h[k], p)] /\ k \in {"text", "thought"} BY DEF Gather, Kinds
<1>2. h[k] \in Seq(PieceNames) BY <1>1 DEF HeardRec, Pieces
<1>3. Append(h[k], p) \in Pieces BY <1>2 DEF Pieces
<1> QED BY <1>1, <1>3 DEF HeardRec, Kinds

LEMMA GathersCall ==
  ASSUME NEW h \in HeardRec, NEW c \in {"none", "open", "whole"}, NEW g, g = Gather(h, <<"call", c>>)
  PROVE  /\ g \in HeardRec /\ \A j \in Kinds : g[j] = h[j]
         /\ g.call = c /\ g.stop = h.stop /\ g.terminal = h.terminal /\ g.broken = h.broken
BY DEF Gather, HeardRec, Kinds

LEMMA EndsMove ==
  ASSUME NEW h \in HeardRec
  PROVE  /\ Ended(h) \in HeardRec /\ Ended(h).call = h.call /\ Ended(h).stop = h.stop /\ Ended(h).broken = h.broken
         /\ \A k \in Kinds : Ended(h)[k] = h[k]
         /\ \A r \in StopReasons : /\ StopsFor(h, r) \in HeardRec /\ StopsFor(h, r).call = h.call
                              /\ StopsFor(h, r).stop = r /\ StopsFor(h, r).broken = h.broken
                              /\ \A k \in Kinds : StopsFor(h, r)[k] = h[k]
         /\ \A w \in {"retry", "final"} : /\ Breaks(h, w) \in HeardRec /\ Breaks(h, w).call = h.call
                                          /\ Breaks(h, w).stop = h.stop /\ Breaks(h, w).broken = w
                                          /\ \A k \in Kinds : Breaks(h, w)[k] = h[k]
BY DEF Ended, StopsFor, Breaks, HeardRec, Kinds, StopReasons

Fails == Failing \ Misread(provider)
CutsShort == Truncating \ Misread(provider)

EndForm(h, e, g) ==
  /\ e \in Fails => \E how \in {"retry", "final"} : g = Breaks(h, how) \/ g = Breaks(Ended(h), how)
  /\ e \in CutsShort => \E r \in StopReasons \ {"end_turn"} : g = StopsFor(h, r)
  /\ e \notin Fails \union CutsShort => g = Ended(h) \/ \E r \in StopReasons : g = StopsFor(h, r)

LEMMA HearsGemini ==
  ASSUME provider = "gemini", NEW h \in HeardRec, NEW e \in Statuses \union {Sentinel}
  PROVE  \E r \in StopReasons : /\ Hears(h, <<e>>) = StopsFor(h, r)
                                /\ e = "budget_exceeded" => r = e
                                /\ e = Sentinel => r = h.stop
<1>1. e \notin Content BY DEF Statuses, EndsOf, Sentinel, Content, Kinds
<1>2. h.stop \in StopReasons BY DEF HeardRec
<1>3. GeminiStop(h.stop, e) \in StopReasons BY <1>2 DEF GeminiStop, StopReasons
<1>4. (e = "budget_exceeded" => GeminiStop(h.stop, e) = e) /\ (e = Sentinel => GeminiStop(h.stop, e) = h.stop)
 BY DEF GeminiStop, Sentinel
<1>5. Hears(h, <<e>>) = StopsFor(h, GeminiStop(h.stop, e)) BY <1>1 DEF Hears, GeminiHears
<1> QED BY <1>3, <1>4, <1>5

LEMMA HearsForm ==
  ASSUME provider \in Adapters \ {"ollama"}, NEW h \in HeardRec, NEW e \in EndsOf[provider]
  PROVE  EndForm(h, e, Hears(h, <<e>>))
<1> DEFINE c == <<e>>
<1>0. c[1] = e OBVIOUS
<1> HIDE DEF c
<1> USE <1>0 DEF Content, Kinds, Sentinel, Failing, Truncating, Misread, Fails, CutsShort, EndForm, StopReasons
<1>1. CASE provider = "openai"
 <2>1. e \in EndsOf.openai /\ Hears(h, c) = OpenAiHears(h, c)
  BY <1>1 DEF Hears, EndsOf
 <2>2. EndForm(h, e, OpenAiHears(h, c)) BY <1>1, <2>1 DEF OpenAiHears, EndsOf
 <2> QED BY <2>1, <2>2 DEF c
<1>2. CASE provider = "anthropic"
 <2>1. e \in EndsOf.anthropic /\ Hears(h, c) = AnthropicHears(h, c)
  BY <1>2 DEF Hears, EndsOf
 <2>2. EndForm(h, e, AnthropicHears(h, c)) BY <1>2, <2>1 DEF AnthropicHears, EndsOf
 <2> QED BY <2>1, <2>2 DEF c
<1>3. CASE provider = "gemini"
 <2>1. e \in Statuses BY <1>3 DEF Statuses, EndsOf
 <2>2. PICK reason \in StopReasons : Hears(h, <<e>>) = StopsFor(h, reason) /\ (e = "budget_exceeded" => reason = e)
  BY <1>3, <2>1, HearsGemini
 <2>3. e \notin Fails /\ (e \in CutsShort => e = "budget_exceeded") BY <1>3 DEF EndsOf
 <2> QED BY <2>2, <2>3
<1>4. CASE provider = "deepseek"
 <2>1. e \in EndsOf.deepseek /\ Hears(h, c) = DeepSeekHears(h, c)
  BY <1>4 DEF Hears, EndsOf
 <2>2. EndForm(h, e, DeepSeekHears(h, c)) BY <1>4, <2>1 DEF DeepSeekHears, EndsOf
 <2> QED BY <2>1, <2>2 DEF c
<1>5. CASE provider = "zhipu"
 <2>1. e \in EndsOf.zhipu /\ Hears(h, c) = ZhipuHears(h, c)
  BY <1>5 DEF Hears, EndsOf
 <2>2. EndForm(h, e, ZhipuHears(h, c)) BY <1>5, <2>1 DEF ZhipuHears, EndsOf
 <2> QED BY <2>1, <2>2 DEF c
<1>6. CASE provider = "kimi"
 <2>1. e \in EndsOf.kimi /\ Hears(h, c) = KimiHears(h, c)
  BY <1>6 DEF Hears, EndsOf
 <2>2. EndForm(h, e, KimiHears(h, c)) BY <1>6, <2>1 DEF KimiHears, EndsOf
 <2> QED BY <2>1, <2>2 DEF c
<1>7. CASE provider = "minimax"
 <2>1. e \in EndsOf.minimax /\ Hears(h, c) = MiniMaxHears(h, c)
  BY <1>7 DEF Hears, EndsOf
 <2>2. EndForm(h, e, MiniMaxHears(h, c)) BY <1>7, <2>1 DEF MiniMaxHears, EndsOf
 <2> QED BY <2>1, <2>2 DEF c
<1>8. CASE provider = "minimaxChat"
 <2>1. e \in EndsOf.minimaxChat /\ Hears(h, c) = MiniMaxChatHears(h, c)
  BY <1>8 DEF Hears, EndsOf
 <2>2. EndForm(h, e, MiniMaxChatHears(h, c)) BY <1>8, <2>1 DEF MiniMaxChatHears, EndsOf
 <2> QED BY <2>1, <2>2 DEF c
<1>9. CASE provider = "qwen"
 <2>1. e \in EndsOf.qwen /\ Hears(h, c) = QwenHears(h, c)
  BY <1>9 DEF Hears, EndsOf
 <2>2. EndForm(h, e, QwenHears(h, c)) BY <1>9, <2>1 DEF QwenHears, EndsOf
 <2> QED BY <2>1, <2>2 DEF c
<1> QED BY <1>1, <1>2, <1>3, <1>4, <1>5, <1>6, <1>7, <1>8, <1>9 DEF Adapters, EndsOf

LEMMA HearsSentinel ==
  ASSUME provider \in Adapters \ {"ollama"}, Sends(provider), NEW h \in HeardRec
  PROVE  Hears(h, <<Sentinel>>) \in {Ended(h), StopsFor(h, h.stop)}
<1> DEFINE c == <<Sentinel>>
<1>0. c[1] = "[DONE]" BY DEF Sentinel
<1> HIDE DEF c
<1>1. provider \in {"openai", "anthropic", "gemini", "deepseek", "zhipu", "kimi", "minimax", "minimaxChat"}
 BY DEF Adapters, EndsOf, Sends
<1>2. /\ OpenAiHears(h, c) = Ended(h) /\ AnthropicHears(h, c) = Ended(h) /\ DeepSeekHears(h, c) = Ended(h)
      /\ ZhipuHears(h, c) = Ended(h) /\ KimiHears(h, c) = Ended(h)
      /\ MiniMaxHears(h, c) = Ended(h) /\ MiniMaxChatHears(h, c) = Ended(h)
 BY <1>0 DEF OpenAiHears, AnthropicHears, DeepSeekHears, ZhipuHears, KimiHears, MiniMaxHears, MiniMaxChatHears,
             Content, Kinds, Sentinel
<1>3. provider = "gemini" => Hears(h, c) = StopsFor(h, h.stop) BY HearsGemini DEF c
<1> QED BY <1>1, <1>2, <1>3 DEF Hears, c

LEMMA HearsOllama ==
  ASSUME provider = "ollama", NEW h \in HeardRec, NEW e \in EndsOf[provider] \union {Sentinel}, NEW g, g = Hears(h, <<e>>)
  PROVE  g \in HeardRec /\ g.call = h.call /\ \A k \in Kinds : g[k] = h[k]
<1> DEFINE c == <<e>>
<1>0. c[1] = e OBVIOUS
<1> HIDE DEF c
<1>1. e \in {"stop", "tool_calls", "length", "[DONE]"} /\ g = OllamaHears(h, c)
 BY DEF EndsOf, Sentinel, Hears, c
<1> DEFINE t == [h EXCEPT !.stop = "tool_use"]
<1>2. g = h \/ g = t BY <1>0, <1>1 DEF OllamaHears, Content, Kinds
<1>3. t \in HeardRec /\ t.call = h.call /\ \A k \in Kinds : t[k] = h[k]
 BY DEF HeardRec, Kinds, StopReasons
<1> HIDE DEF t
<1> QED BY <1>2, <1>3

LEMMA AnswersWhole ==
  ASSUME provider \in Adapters \ {"ollama"}, NEW h \in HeardRec, Answers(h) \notin {"retry", "final"}
  PROVE  h.broken = "no" /\ h.terminal /\ (h.call = "none" => Answers(h) = h.stop)
<1>0. h.broken \in {"no", "retry", "final"} /\ h.terminal \in BOOLEAN BY DEF HeardRec
<1>1. ASSUME NEW reason, Checked(h, reason) \notin {"retry", "final"}
      PROVE  h.broken = "no" /\ h.terminal /\ Checked(h, reason) = reason
 <2>1. CASE h.broken # "no" BY <1>0, <1>1, <2>1 DEF Checked
 <2>2. CASE h.broken = "no" /\ ~h.terminal BY <1>1, <2>2, ZenonT(30) DEF Checked
 <2>3. CASE h.broken = "no" /\ h.terminal BY <1>1, <2>3 DEF Checked
 <2> QED BY <2>1, <2>2, <2>3
<1> DEFINE Called == IF h.call # "none" THEN "tool_use" ELSE h.stop
           CalledUnless(s) == IF h.call # "none" /\ h.stop # s THEN "tool_use" ELSE h.stop
<1>2. \/ Answers(h) = Checked(h, Called)
      \/ Answers(h) = Checked(h, CalledUnless("max_tokens"))
      \/ Answers(h) = Checked(h, CalledUnless("budget_exceeded"))
      \/ Answers(h) = Checked(h, h.stop)
 <2> HIDE DEF Called, CalledUnless
 <2>1. /\ OpenAiAnswers(h) = Checked(h, CalledUnless("max_tokens"))
       /\ AnthropicAnswers(h) = Checked(h, h.stop)
       /\ GeminiAnswers(h) = Checked(h, CalledUnless("budget_exceeded"))
       /\ DeepSeekAnswers(h) = Checked(h, Called)
       /\ ZhipuAnswers(h) = Checked(h, Called)
       /\ KimiAnswers(h) = Checked(h, Called)
       /\ MiniMaxAnswers(h) = Checked(h, CalledUnless("max_tokens"))
       /\ MiniMaxChatAnswers(h) = Checked(h, CalledUnless("max_tokens"))
       /\ QwenAnswers(h) = Checked(h, CalledUnless("max_tokens"))
  BY DEF OpenAiAnswers, AnthropicAnswers, GeminiAnswers, DeepSeekAnswers, ZhipuAnswers, KimiAnswers,
         MiniMaxAnswers, MiniMaxChatAnswers, QwenAnswers, Called, CalledUnless
 <2> QED BY <2>1 DEF Answers, Adapters, EndsOf
<1>3. h.call = "none" => Called = h.stop /\ \A s : CalledUnless(s) = h.stop OBVIOUS
<1> HIDE DEF Called, CalledUnless
<1> QED BY <1>1, <1>2, <1>3

LEMMA ToldMore ==
  ASSUME NEW a \in Nat, NEW n \in Nat
  PROVE  [i \in 1..n + 1 |-> <<a, i>>] = Append([i \in 1..n |-> <<a, i>>], <<a, n + 1>>)
<1> DEFINE Told1 == [i \in 1..n |-> <<a, i>>]
<1>1. Told1 \in Seq(Nat \X Nat) /\ Len(Told1) = n OBVIOUS
<1> QED BY <1>1

LEMMA Regroup == \A x, y, z \in Pieces : (x \o y) \o z = x \o (y \o z)
<1> SUFFICES ASSUME NEW x \in Pieces, NEW y \in Pieces, NEW z \in Pieces PROVE (x \o y) \o z = x \o (y \o z)
 OBVIOUS
<1> QED BY ConcatAssociative DEF Pieces

(* However much of it a rehydrator gives out, nothing is lost or changes      *)
(* place.                                                                     *)
LEMMA HeldBack ==
  ASSUME NEW s \in Pieces, NEW h \in Pieces, NEW p \in PieceNames, NEW n \in {0, Len(h), Len(Append(h, p))}
  PROVE  /\ s \o SubSeq(Append(h, p), 1, n) \in Pieces
         /\ SubSeq(Append(h, p), n + 1, Len(Append(h, p))) \in Pieces
         /\ (s \o SubSeq(Append(h, p), 1, n)) \o SubSeq(Append(h, p), n + 1, Len(Append(h, p))) = Append(s \o h, p)
<1> DEFINE b == Append(h, p)
           first == SubSeq(b, 1, n)
           rest == SubSeq(b, n + 1, Len(b))
<1>1. b \in Pieces /\ Len(b) = Len(h) + 1 /\ Len(h) \in Nat BY DEF Pieces
<1> HIDE DEF b
<1>2. n \in 0..Len(b) /\ Len(b) \in Nat BY <1>1 DEF b
<1>3. first \in Pieces /\ rest \in Pieces BY <1>1, <1>2 DEF Pieces
<1>4. first \o rest = b
 <2>1. 1 \in 1..Len(b) + 1 /\ n \in 1 - 1..Len(b) /\ Len(b) \in n..Len(b) BY <1>2
 <2>2. first \o rest = SubSeq(b, 1, Len(b)) BY <1>1, <2>1, ConcatAdjacentSubSeq DEF Pieces
 <2> QED BY <1>1, <2>2, SubSeqFull DEF Pieces
<1> HIDE DEF first, rest
<1>5. (s \o first) \o rest = s \o (first \o rest) BY <1>3, Regroup
<1>6. s \o b = Append(s \o h, p)
 <2>1. b = h \o <<p>> /\ <<p>> \in Pieces BY DEF Pieces, b
 <2>2. (s \o h) \o <<p>> = s \o (h \o <<p>>) BY <2>1, Regroup
 <2>3. s \o h \in Pieces BY DEF Pieces
 <2>4. Append(s \o h, p) = (s \o h) \o <<p>> BY <2>3 DEF Pieces
 <2> QED BY <2>1, <2>2, <2>4
<1>7. s \o first \in Pieces BY <1>3 DEF Pieces
<1> QED BY <1>3, <1>4, <1>5, <1>6, <1>7 DEF first, rest, b

Reading == {"fetching", "streaming", "done"}
Told(k) == [n \in 1..said[k] |-> <<attempt, n>>]

StreamTypes ==
  /\ provider \in Adapters /\ attempt \in Nat /\ said \in SaidRec /\ heard \in HeardRec
  /\ held \in [Kinds -> Pieces] /\ shown \in [Kinds -> Pieces]

HeardAll ==
  /\ heard.call = said.call
  /\ \A k \in Kinds :
       /\ stage \in Reading => heard[k] = Told(k) /\ shown[k] \o held[k] = heard[k]
       /\ stage = "done" => held[k] = <<>>
       /\ stage \in {"asking", "backoff"} => shown[k] = <<>>

HeardEnds ==
  provider # "ollama" /\ stage \in Reading =>
    /\ heard.terminal => said.end # "none" \/ said.updated
    /\ said.end \in Fails => heard.broken # "no"
    /\ said.end \in CutsShort => heard.stop # "end_turn"

StreamsInv == StreamTypes /\ HeardAll /\ HeardEnds /\ \A p \in Adapters \ {"ollama"} : Complete(p)

LEMMA FreshTypes ==
  /\ Silence \in SaidRec /\ [Silence EXCEPT !.end = "completed"] \in SaidRec /\ Nothing \in HeardRec
  /\ Empty \in [Kinds -> Pieces]
<1>1. <<>> \in Pieces BY DEF Pieces
<1>2. "completed" \in LastEvents BY DEF LastEvents, EndsOf
<1>3. "none" \in LastEvents BY DEF LastEvents
<1> QED BY <1>1, <1>2, <1>3 DEF SaidRec, HeardRec, Silence, Nothing, Empty, Kinds, StopReasons

(* The catch block changes neither what was said nor what was shown. *)
LEMMA CatchKeeps ==
  ASSUME StreamsInv, stage \in {"fetching", "streaming"}, NEW r, NEW t, Catch(r, t)
  PROVE  StreamsInv'
<1>1. /\ UNCHANGED <<provider, attempt, said, heard, held, shown, answer>>
      /\ (stage' \in {"asking", "backoff"} /\ ~Emitted) \/ stage' = "failed"
 BY DEF Catch, MayAsk
<1>2. StreamTypes' BY <1>1 DEF StreamsInv, StreamTypes
<1>3. HeardAll' BY <1>1 DEF StreamsInv, HeardAll, Emitted, Reading
<1>4. HeardEnds' /\ \A p \in Adapters \ {"ollama"} : Complete(p)'
 BY <1>1 DEF StreamsInv, HeardEnds, Complete, Reading, Fails, CutsShort
<1> QED BY <1>2, <1>3, <1>4 DEF StreamsInv

LEMMA PieceKeeps == ASSUME StreamsInv, NEW k \in Kinds, Piece(k) PROVE StreamsInv'
<1> USE DEF StreamsInv
<1> DEFINE piece == <<attempt, said[k] + 1>>
           buffer == Append(held[k], piece)
<1>1. /\ stage = "streaming" /\ stage' = stage /\ said.end = "none"
      /\ said' = [said EXCEPT ![k] = @ + 1]
      /\ heard' = Hears(heard, <<k, piece>>)
      /\ UNCHANGED <<provider, attempt, answer>>
 BY DEF Piece
<1>2. PICK n \in {0, Len(held[k]), Len(buffer)} :
        /\ shown' = [shown EXCEPT ![k] = @ \o SubSeq(buffer, 1, n)]
        /\ held' = [held EXCEPT ![k] = SubSeq(buffer, n + 1, Len(buffer))]
 BY DEF Piece
<1>3. said[k] \in Nat /\ attempt \in Nat /\ piece \in PieceNames
 BY DEF StreamTypes, SaidRec, Kinds, PieceNames
<1>4. shown[k] \in Pieces /\ held[k] \in Pieces /\ k \in Content BY DEF StreamTypes, Content
<1> HIDE DEF piece
<1>5. heard' = Gather(heard, <<k, piece>>) BY <1>1, <1>4, HearsContent DEF StreamTypes
<1>6. /\ heard' \in HeardRec /\ heard'[k] = Append(heard[k], piece) /\ \A j \in Kinds \ {k} : heard'[j] = heard[j]
      /\ heard'.call = heard.call /\ heard'.stop = heard.stop
      /\ heard'.terminal = heard.terminal /\ heard'.broken = heard.broken
 BY <1>3, <1>5, GathersPiece DEF StreamTypes
<1>7. /\ said' \in SaidRec /\ said'[k] = said[k] + 1 /\ \A j \in Kinds \ {k} : said'[j] = said[j]
      /\ said'.call = said.call /\ said'.end = said.end /\ said'.updated = said.updated
 BY <1>1, <1>3 DEF StreamTypes, SaidRec, Kinds
<1> DEFINE out == shown[k] \o SubSeq(buffer, 1, n)
           rest == SubSeq(buffer, n + 1, Len(buffer))
<1>8. out \in Pieces /\ rest \in Pieces /\ out \o rest = Append(shown[k] \o held[k], piece)
 BY ZenonT(60), <1>2, <1>3, <1>4, HeldBack
<1>9. shown' = [shown EXCEPT ![k] = out] /\ held' = [held EXCEPT ![k] = rest] BY <1>2
<1> HIDE DEF out, rest, buffer
<1>10. /\ shown' \in [Kinds -> Pieces] /\ held' \in [Kinds -> Pieces]
       /\ shown'[k] = out /\ held'[k] = rest
       /\ \A j \in Kinds \ {k} : shown'[j] = shown[j] /\ held'[j] = held[j]
 BY <1>8, <1>9 DEF StreamTypes
<1>11. StreamTypes' BY <1>1, <1>6, <1>7, <1>10 DEF StreamTypes
<1>12. \A j \in Kinds : heard'[j] = Told(j)' /\ shown'[j] \o held'[j] = heard'[j]
 <2>1. heard[k] = Told(k) /\ shown[k] \o held[k] = heard[k] BY <1>1 DEF HeardAll, Reading
 <2>2. Told(k)' = Append(Told(k), piece) BY <1>1, <1>3, <1>7, ToldMore DEF Told, piece
 <2>3. heard'[k] = Told(k)' /\ shown'[k] \o held'[k] = heard'[k]
  BY <1>6, <1>8, <1>10, <2>1, <2>2
 <2>4. ASSUME NEW j \in Kinds \ {k} PROVE heard'[j] = Told(j)' /\ shown'[j] \o held'[j] = heard'[j]
  <3>1. Told(j)' = Told(j) BY <1>1, <1>7 DEF Told
  <3>2. heard[j] = Told(j) /\ shown[j] \o held[j] = heard[j] BY <1>1 DEF HeardAll, Reading
  <3> QED BY <1>6, <1>10, <3>1, <3>2
 <2> QED BY <2>3, <2>4
<1>13. HeardAll' BY <1>1, <1>6, <1>7, <1>12 DEF HeardAll
<1>14. HeardEnds' /\ \A p \in Adapters \ {"ollama"} : Complete(p)'
 BY <1>1, <1>6, <1>7 DEF HeardEnds, Complete, Reading, Fails, CutsShort
<1> QED BY <1>11, <1>13, <1>14

(* What an adapter makes of anything but a piece leaves the pieces alone. *)
LEMMA NoPieceKeeps ==
  ASSUME StreamsInv, stage = "streaming", NEW e,
         heard' = Hears(heard, e), said' \in SaidRec, heard' \in HeardRec, heard'.call = said'.call,
         \A k \in Kinds : heard'[k] = heard[k] /\ said'[k] = said[k],
         HeardEnds', UNCHANGED <<provider, stage, attempt, held, shown, answer>>
  PROVE  StreamsInv'
<1>1. StreamTypes' BY DEF StreamsInv, StreamTypes
<1>2. \A k \in Kinds : Told(k)' = Told(k) BY DEF Told
<1>3. HeardAll' BY <1>2 DEF StreamsInv, HeardAll, Reading
<1>4. \A p \in Adapters \ {"ollama"} : Complete(p)' BY DEF Complete
<1> QED BY <1>1, <1>3, <1>4 DEF StreamsInv

LEMMA CallKeeps == ASSUME StreamsInv, Call PROVE StreamsInv'
<1> USE DEF StreamsInv
<1>1. PICK c \in {"open", "whole"} :
        said' = [said EXCEPT !.call = c] /\ heard' = Hears(heard, <<"call", c>>)
 BY DEF Call
<1>2. /\ stage = "streaming" /\ said.end = "none"
      /\ UNCHANGED <<provider, stage, attempt, held, shown, answer>>
 BY DEF Call
<1>3. /\ said' \in SaidRec /\ said'.call = c /\ said'.end = said.end /\ said'.updated = said.updated
      /\ \A k \in Kinds : said'[k] = said[k]
 BY <1>1 DEF StreamTypes, SaidRec, Kinds
<1>4. heard' = Gather(heard, <<"call", c>>) BY <1>1, HearsContent DEF StreamTypes, Content
<1>5. /\ heard' \in HeardRec /\ \A j \in Kinds : heard'[j] = heard[j]
      /\ heard'.call = c /\ heard'.stop = heard.stop
      /\ heard'.terminal = heard.terminal /\ heard'.broken = heard.broken
 BY <1>4, GathersCall DEF StreamTypes
<1>6. HeardEnds' BY <1>2, <1>3, <1>5 DEF HeardEnds, Reading, Fails, CutsShort
<1> QED BY <1>1, <1>2, <1>3, <1>5, <1>6, NoPieceKeeps

LEMMA EndKeeps == ASSUME StreamsInv, NEW e \in EndsOf[provider], End(e) PROVE StreamsInv'
<1> USE DEF StreamsInv
<1>1. /\ stage = "streaming" /\ said.end = "none"
      /\ said' = [said EXCEPT !.end = e] /\ heard' = Hears(heard, <<e>>)
      /\ UNCHANGED <<provider, stage, attempt, held, shown, answer>>
 BY DEF End
<1>2. e \in LastEvents /\ e # "none"
 <2>1. provider \in Adapters BY DEF StreamTypes
 <2>2. e \in LastEvents BY <2>1 DEF LastEvents, Adapters
 <2>3. e # "none" BY <2>1 DEF Adapters, EndsOf
 <2> QED BY <2>2, <2>3
<1>3. said' \in SaidRec /\ said'.call = said.call /\ said'.end = e /\ \A k \in Kinds : said'[k] = said[k]
 BY <1>1, <1>2 DEF StreamTypes, SaidRec, Kinds
<1>4. CASE provider = "ollama"
 <2>1. heard' \in HeardRec /\ heard'.call = heard.call /\ \A k \in Kinds : heard'[k] = heard[k]
  BY <1>1, <1>4, HearsOllama DEF StreamTypes
 <2>2. HeardEnds' /\ heard'.call = said'.call BY <1>1, <1>3, <1>4, <2>1 DEF HeardEnds, HeardAll
 <2> QED BY <1>1, <1>3, <2>1, <2>2, NoPieceKeeps
<1>5. CASE provider # "ollama"
 <2>1. EndForm(heard, e, heard') BY <1>1, <1>5, HearsForm DEF StreamTypes
 <2>2. /\ heard' \in HeardRec /\ heard'.call = heard.call /\ \A k \in Kinds : heard'[k] = heard[k]
       /\ e \in Fails => heard'.broken # "no"
       /\ e \in CutsShort => heard'.stop # "end_turn"
  <3>1. heard \in HeardRec /\ Ended(heard) \in HeardRec BY EndsMove DEF StreamTypes
  <3>2. CASE e \in Fails
   <4>1. PICK how \in {"retry", "final"} : heard' = Breaks(heard, how) \/ heard' = Breaks(Ended(heard), how)
    BY <2>1, <3>2 DEF EndForm
   <4>2. e \notin CutsShort BY <3>2 DEF Fails, CutsShort, Failing, Truncating
   <4>3. Ended(heard).call = heard.call /\ \A k \in Kinds : Ended(heard)[k] = heard[k]
    BY <3>1, EndsMove
   <4>4. CASE heard' = Breaks(heard, how) BY <3>1, <4>2, <4>4, EndsMove
   <4>5. CASE heard' = Breaks(Ended(heard), how) BY <3>1, <4>2, <4>3, <4>5, EndsMove
   <4> QED BY <4>1, <4>4, <4>5
  <3>3. CASE e \in CutsShort
   <4>1. PICK r \in StopReasons \ {"end_turn"} : heard' = StopsFor(heard, r)
    BY <2>1, <3>3 DEF EndForm
   <4>2. e \notin Fails BY <3>3 DEF Fails, CutsShort, Failing, Truncating
   <4> QED BY <3>1, <4>1, <4>2, EndsMove
  <3>4. CASE e \notin Fails \union CutsShort BY <2>1, <3>1, <3>4, EndsMove DEF EndForm
  <3> QED BY <3>2, <3>3, <3>4
 <2>3. HeardEnds' /\ heard'.call = said'.call BY <1>1, <1>2, <1>3, <2>2 DEF HeardEnds, HeardAll, Fails, CutsShort
 <2> QED BY <1>1, <1>3, <2>2, <2>3, NoPieceKeeps
<1> QED BY <1>4, <1>5

LEMMA DoneKeeps == ASSUME StreamsInv, Done PROVE StreamsInv'
<1> USE DEF StreamsInv
<1>1. PICK e : e = IF said.end = "none" THEN "finished" ELSE said.end OBVIOUS
<1>2. /\ stage = "streaming" /\ Sends(provider)
      /\ said' = [said EXCEPT !.end = e] /\ heard' = Hears(heard, <<Sentinel>>)
      /\ UNCHANGED <<provider, stage, attempt, held, shown, answer>>
 BY <1>1 DEF Done
<1>3. e \in LastEvents /\ e # "none" /\ (e \in Failing \union Truncating => e = said.end)
 BY <1>1, <1>2 DEF StreamTypes, SaidRec, LastEvents, Failing, Truncating
<1>4. said' \in SaidRec /\ said'.call = said.call /\ said'.end = e /\ \A k \in Kinds : said'[k] = said[k]
 BY <1>2, <1>3 DEF StreamTypes, SaidRec, Kinds
<1>5. CASE provider = "ollama"
 <2>1. heard' \in HeardRec /\ heard'.call = heard.call /\ \A k \in Kinds : heard'[k] = heard[k]
  BY <1>2, <1>5, HearsOllama DEF StreamTypes
 <2>2. HeardEnds' /\ heard'.call = said'.call BY <1>2, <1>4, <1>5, <2>1 DEF HeardEnds, HeardAll
 <2> QED BY <1>2, <1>4, <2>1, <2>2, NoPieceKeeps
<1>6. CASE provider # "ollama"
 <2>1. heard' \in {Ended(heard), StopsFor(heard, heard.stop)} BY <1>2, <1>6, HearsSentinel DEF StreamTypes
 <2>2. /\ heard' \in HeardRec /\ heard'.call = heard.call /\ \A k \in Kinds : heard'[k] = heard[k]
       /\ heard'.stop = heard.stop /\ heard'.broken = heard.broken
  <3>1. heard \in HeardRec /\ heard.stop \in StopReasons BY DEF StreamTypes, HeardRec
  <3> QED BY <2>1, <3>1, EndsMove
 <2>3. HeardEnds' /\ heard'.call = said'.call
  BY <1>2, <1>3, <1>4, <1>6, <2>2 DEF HeardEnds, HeardAll, Reading, Fails, CutsShort
 <2> QED BY <1>2, <1>4, <2>2, <2>3, NoPieceKeeps
<1> QED BY <1>5, <1>6

LEMMA StatusKeeps == ASSUME StreamsInv, NEW status \in Statuses, StatusUpdate(status) PROVE StreamsInv'
<1> USE DEF StreamsInv
<1>1. /\ stage = "streaming" /\ provider = "gemini" /\ said.end = "none"
      /\ said' = [said EXCEPT !.updated = TRUE] /\ heard' = Hears(heard, <<status>>)
      /\ UNCHANGED <<provider, stage, attempt, held, shown, answer>>
 BY DEF StatusUpdate
<1>2. /\ said' \in SaidRec /\ said'.call = said.call /\ said'.end = "none" /\ said'.updated = TRUE
      /\ \A k \in Kinds : said'[k] = said[k]
 BY <1>1 DEF StreamTypes, SaidRec, Kinds
<1>3. PICK reason \in StopReasons : heard' = StopsFor(heard, reason) BY <1>1, HearsGemini DEF StreamTypes
<1>4. heard' \in HeardRec /\ heard'.call = heard.call /\ \A k \in Kinds : heard'[k] = heard[k]
 BY <1>3, EndsMove DEF StreamTypes
<1>5. HeardEnds' /\ heard'.call = said'.call
 BY <1>2, <1>4 DEF HeardEnds, HeardAll, Fails, CutsShort, Failing, Truncating
<1> QED BY <1>1, <1>2, <1>4, <1>5, NoPieceKeeps

LEMMA ClosesKeeps == ASSUME StreamsInv, Closes PROVE StreamsInv'
<1> USE DEF StreamsInv
<1>0. stage = "streaming" BY DEF Closes
<1>1. CASE Answers(heard) \in {"retry", "final"}
 <2>1. Catch(Answers(heard) = "retry", heard.broken # "no" /\ TeachesStreaming)
  BY <1>1 DEF Closes
 <2> QED BY <1>0, <2>1, CatchKeeps
<1>2. CASE Answers(heard) \notin {"retry", "final"}
 <2>1. /\ stage' = "done" /\ answer' = Answers(heard) /\ held' = Empty
       /\ shown' = [k \in Kinds |-> shown[k] \o held[k]]
       /\ UNCHANGED <<provider, attempt, said, heard>>
  BY <1>2 DEF Closes, Answer
 <2>2. \A k \in Kinds : /\ heard[k] = Told(k) /\ shown[k] \o held[k] = heard[k]
                        /\ heard[k] \in Pieces
  BY <1>0 DEF HeardAll, Reading, StreamTypes, HeardRec, Kinds
 <2>3. \A k \in Kinds : Told(k)' = Told(k) BY <2>1 DEF Told
 <2>4. \A k \in Kinds : shown'[k] = heard[k] /\ held'[k] = <<>> /\ shown'[k] \o held'[k] = heard[k]
  <3> SUFFICES ASSUME NEW k \in Kinds PROVE shown'[k] = heard[k] /\ held'[k] = <<>> /\ shown'[k] \o held'[k] = heard[k]
   OBVIOUS
  <3>1. shown'[k] = heard[k] /\ held'[k] = <<>> BY <2>1, <2>2 DEF Empty
  <3>2. heard[k] \o <<>> = heard[k] BY <2>2, ConcatEmptySeq DEF Pieces
  <3> QED BY <3>1, <3>2
 <2>5. StreamTypes'
  <3>1. shown' \in [Kinds -> Pieces] BY <2>1, <2>2
  <3> QED BY <2>1, <3>1, FreshTypes DEF StreamTypes
 <2>6. HeardAll' BY <2>1, <2>2, <2>3, <2>4 DEF HeardAll, Reading
 <2>7. HeardEnds' BY <1>0, <2>1 DEF HeardEnds, Reading, Fails, CutsShort
 <2>8. ASSUME NEW p \in Adapters \ {"ollama"} PROVE Complete(p)'
  <3>1. CASE provider = p
   <4>1. heard.broken = "no" /\ heard.terminal /\ (heard.call = "none" => Answers(heard) = heard.stop)
    BY <1>2, <3>1, AnswersWhole DEF StreamTypes
   <4> QED BY <1>0, <2>1, <3>1, <4>1 DEF HeardEnds, HeardAll, Reading, Complete, Fails, CutsShort
  <3>2. CASE provider # p BY <2>1, <3>2 DEF Complete
  <3> QED BY <3>1, <3>2
 <2> QED BY <2>5, <2>6, <2>7, <2>8
<1> QED BY <1>1, <1>2

LEMMA AskKeeps == ASSUME StreamsInv, Ask PROVE StreamsInv'
<1> USE DEF StreamsInv
<1>1. /\ stage = "asking" /\ stage' = "fetching" /\ attempt' = attempt + 1
      /\ said' = Silence /\ heard' = Nothing /\ held' = Empty /\ UNCHANGED <<provider, shown, answer>>
 BY DEF Ask
<1>2. StreamTypes' BY <1>1, FreshTypes DEF StreamTypes
<1>3. HeardAll'
 <2>1. \A k \in Kinds : heard'[k] = <<>> /\ said'[k] = 0 /\ shown'[k] = <<>> /\ held'[k] = <<>>
  BY <1>1 DEF HeardAll, Nothing, Silence, Empty, Kinds
 <2>2. \A k \in Kinds : Told(k)' = <<>> BY <2>1 DEF Told
 <2>3. heard'.call = said'.call BY <1>1 DEF Nothing, Silence
 <2>4. <<>> \o <<>> = <<>> BY ConcatEmptySeq DEF Pieces
 <2> QED BY <1>1, <2>1, <2>2, <2>3, <2>4 DEF HeardAll
<1>4. HeardEnds' /\ \A p \in Adapters \ {"ollama"} : Complete(p)'
 BY <1>1 DEF HeardEnds, Complete, Nothing, Silence, Fails, CutsShort, Failing, Truncating
<1> QED BY <1>2, <1>3, <1>4

LEMMA StreamsNextInv == ASSUME StreamsInv, StreamsNext PROVE StreamsInv'
<1>1. CASE Opens
 <2>1. stage = "fetching" /\ stage' = "streaming" /\ UNCHANGED <<provider, attempt, said, heard, held, shown, answer>>
  BY <1>1 DEF Opens
 <2>2. \A k \in Kinds : Told(k)' = Told(k) BY <2>1 DEF Told
 <2> QED BY <2>1, <2>2 DEF StreamsInv, StreamTypes, HeardAll, HeardEnds, Reading, Complete, Fails, CutsShort
<1>2. CASE NetworkFails \/ StreamTimesOut BY <1>2, CatchKeeps DEF NetworkFails, StreamTimesOut
<1>3. CASE BackoffEnds
 BY <1>3 DEF BackoffEnds, StreamsInv, StreamTypes, HeardAll, HeardEnds, Reading, Complete, Fails, CutsShort
<1>4. ASSUME NEW f \in Refusals, Refused(f) PROVE StreamsInv'
 BY <1>4, CatchKeeps DEF Refused
<1> QED
 BY <1>1, <1>2, <1>3, <1>4, AskKeeps, CallKeeps, DoneKeeps, ClosesKeeps, PieceKeeps, EndKeeps, StatusKeeps DEF StreamsNext

LEMMA StreamsInvImplies == ASSUME StreamsInv PROVE ToldOnce
<1> SUFFICES ASSUME NEW k \in Kinds, stage = "done" PROVE shown[k] = Told(k)
 BY DEF StreamsInv, HeardAll, ToldOnce, Reading, Told
<1>1. heard[k] = Told(k) /\ shown[k] \o held[k] = heard[k] /\ held[k] = <<>> /\ shown[k] \in Pieces
 BY DEF StreamsInv, StreamTypes, HeardAll, Reading
<1>2. shown[k] \o <<>> = shown[k] BY <1>1, ConcatEmptySeq DEF Pieces
<1> QED BY <1>1, <1>2

LEMMA StreamsInitInv ==
  ASSUME StreamsInit \/ StreamsAtRest
  PROVE  StreamsInv
<1>1. /\ provider \in Adapters /\ attempt \in Nat /\ stage \in {"asking", "done"}
      /\ said = Silence \/ said = [Silence EXCEPT !.end = "completed"]
      /\ heard = Nothing /\ held = Empty /\ shown = Empty
 BY StreamsProviders DEF StreamsInit, StreamsAtRest, Adapters, EndsOf
<1>2. StreamTypes BY <1>1, FreshTypes DEF StreamTypes
<1>3. HeardAll
 <2>1. \A k \in Kinds : heard[k] = <<>> /\ said[k] = 0 /\ shown[k] = <<>> /\ held[k] = <<>>
  BY <1>1 DEF Nothing, Silence, Empty, Kinds
 <2>2. \A k \in Kinds : Told(k) = <<>> BY <2>1 DEF Told
 <2>3. heard.call = said.call BY <1>1 DEF Nothing, Silence
 <2>4. <<>> \o <<>> = <<>> BY ConcatEmptySeq DEF Pieces
 <2> QED BY <1>1, <2>1, <2>2, <2>3, <2>4 DEF HeardAll
<1>4. heard.terminal = FALSE /\ said.end \in {"none", "completed"} /\ (stage = "done" => said.end = "completed")
 BY <1>1 DEF Nothing, Silence, StreamsInit, StreamsAtRest
<1>5. HeardEnds /\ \A p \in Adapters \ {"ollama"} : Complete(p)
 BY <1>4 DEF HeardEnds, Complete, Fails, CutsShort, Failing, Truncating
<1> QED BY <1>2, <1>3, <1>5 DEF StreamsInv

--------------------------------------------------
(* The history of a request and what an adapter makes of it: AgentEngine.ts   *)
(* and the adapters. Sequences are taken apart from their end: a set that     *)
(* holds the empty one and with a sequence each that is one longer holds all. *)

LEMMA AllNumbers ==
  ASSUME NEW N, 0 \in N, \A n \in Nat : n \in N => n + 1 \in N
  PROVE  Nat \subseteq N
<1>1. SUFFICES ASSUME Nat \ N # {} PROVE FALSE
 OBVIOUS
<1>2. PICK n \in Nat \ N : \A m \in Nat \ N : n <= m BY <1>1, LeastNumber
<1>3. n # 0 /\ n - 1 \in Nat BY <1>2
<1>4. n - 1 \in N BY <1>2, <1>3
<1> QED BY <1>2, <1>3, <1>4

LEMMA AllSequences ==
  ASSUME NEW X, NEW Q, <<>> \in Q, \A s \in Seq(X), x \in X : s \in Q => Append(s, x) \in Q
  PROVE  Seq(X) \subseteq Q
<1> DEFINE N == {n \in Nat : \A s \in Seq(X) : Len(s) = n => s \in Q}
<1>1. 0 \in N BY EmptySeq
<1>2. ASSUME NEW n \in Nat, n \in N PROVE n + 1 \in N
 <2> SUFFICES ASSUME NEW s \in Seq(X), Len(s) = n + 1 PROVE s \in Q
  BY <1>2
 <2>1. s # <<>> OBVIOUS
 <2>2. PICK t \in Seq(X), x \in X : s = Append(t, x) BY <2>1, SequenceEmptyOrAppend
 <2>3. Len(t) = n BY <1>2, <2>2
 <2> QED BY <1>2, <2>2, <2>3
<1> HIDE DEF N
<1>3. Nat \subseteq N BY <1>1, <1>2, AllNumbers
<1> QED BY <1>3 DEF N

(* FlattenSeq joins one by one: a function with its recursion exists. *)
JoinedUpTo(f, s, m) == f = [i \in 1..m |-> IF i = 1 THEN s[i] ELSE f[i - 1] \o s[i]]

LEMMA JoinsExist ==
  ASSUME NEW s
  PROVE  \A m \in Nat : \E f : JoinedUpTo(f, s, m)
<1> DEFINE N == {m \in Nat : \E f : JoinedUpTo(f, s, m)}
<1>1. 0 \in N
 <2> DEFINE f == [i \in 1..0 |-> <<>>]
 <2>1. f = [i \in 1..0 |-> IF i = 1 THEN s[i] ELSE f[i - 1] \o s[i]] OBVIOUS
 <2>2. JoinedUpTo(f, s, 0) BY <2>1 DEF JoinedUpTo
 <2> QED BY <2>2
<1>2. ASSUME NEW n \in Nat, n \in N PROVE n + 1 \in N
 <2>1. PICK f : JoinedUpTo(f, s, n) BY <1>2
 <2> DEFINE last == IF n + 1 = 1 THEN s[n + 1] ELSE f[(n + 1) - 1] \o s[n + 1]
            g == [i \in 1..(n + 1) |-> IF i = n + 1 THEN last ELSE f[i]]
 <2>2. \A i \in 1..n : f[i] = IF i = 1 THEN s[i] ELSE f[i - 1] \o s[i] BY <2>1 DEF JoinedUpTo
 <2> HIDE DEF last
 <2>3. \A i \in 1..n : g[i] = f[i] /\ g[n + 1] = last OBVIOUS
 <2>6. \A i \in 1..(n + 1) : g[i] = IF i = 1 THEN s[i] ELSE g[i - 1] \o s[i]
  <3> SUFFICES ASSUME NEW i \in 1..(n + 1) PROVE g[i] = IF i = 1 THEN s[i] ELSE g[i - 1] \o s[i]
   OBVIOUS
  <3>1. i # 1 => i - 1 \in 1..n /\ g[i - 1] = f[i - 1] BY <2>3
  <3>2. CASE i = n + 1
   <4>1. g[i] = last BY <3>2
   <4> HIDE DEF g
   <4> QED BY <3>1, <3>2, <4>1 DEF last
  <3>3. CASE i # n + 1
   <4>1. i \in 1..n BY <3>3
   <4> QED BY <2>2, <2>3, <3>1, <4>1
  <3> QED BY <3>2, <3>3
 <2>4. g = [i \in 1..(n + 1) |-> IF i = 1 THEN s[i] ELSE g[i - 1] \o s[i]] BY <2>6
 <2>5. JoinedUpTo(g, s, n + 1) BY <2>4 DEF JoinedUpTo
 <2> QED BY <2>5
<1> HIDE DEF N
<1>3. Nat \subseteq N BY <1>1, <1>2, AllNumbers
<1> QED BY <1>3 DEF N

LEMMA FlattenIsJoin ==
  ASSUME NEW s, Len(s) \in Nat, Len(s) # 0
  PROVE  \E f : JoinedUpTo(f, s, Len(s)) /\ FlattenSeq(s) = f[Len(s)]
<1>1. \E f : JoinedUpTo(f, s, Len(s)) BY JoinsExist
<1>2. \E f : f = [i \in 1..Len(s) |-> IF i = 1 THEN s[i] ELSE f[i - 1] \o s[i]]
 BY <1>1 DEF JoinedUpTo
<1> DEFINE g == CHOOSE f : f = [i \in 1..Len(s) |-> IF i = 1 THEN s[i] ELSE f[i - 1] \o s[i]]
<1>3. g = [i \in 1..Len(s) |-> IF i = 1 THEN s[i] ELSE g[i - 1] \o s[i]] BY <1>2
<1>4. FlattenSeq(s) = g[Len(s)] BY DEF FlattenSeq
<1> HIDE DEF g
<1> QED BY <1>3, <1>4 DEF JoinedUpTo

(* It adds the last one to the others. *)
LEMMA FlattenAppend ==
  ASSUME NEW S, NEW s \in Seq(Seq(S)), NEW x \in Seq(S)
  PROVE  FlattenSeq(Append(s, x)) = FlattenSeq(s) \o x
<1> DEFINE t == Append(s, x)
           n == Len(s)
<1>1. n \in Nat /\ Len(t) = n + 1 /\ t[n + 1] = x /\ \A i \in 1..n : t[i] = s[i] OBVIOUS
<1>2. PICK g : JoinedUpTo(g, t, n + 1) /\ FlattenSeq(t) = g[n + 1]
 <2>1. Len(t) \in Nat /\ Len(t) # 0 BY <1>1
 <2> HIDE DEF t
 <2> QED BY <1>1, <2>1, FlattenIsJoin
<1>3. \A i \in 1..(n + 1) : g[i] = IF i = 1 THEN t[i] ELSE g[i - 1] \o t[i]
 BY <1>2 DEF JoinedUpTo
<1> HIDE DEF t
<1>4. CASE n = 0
 <2>1. FlattenSeq(s) = <<>> BY <1>4 DEF FlattenSeq
 <2>2. FlattenSeq(t) = x BY <1>1, <1>2, <1>3, <1>4
 <2>3. <<>> \o x = x OBVIOUS
 <2> QED BY <2>1, <2>2, <2>3 DEF t
<1>5. CASE n # 0
 <2>1. PICK f : JoinedUpTo(f, s, n) /\ FlattenSeq(s) = f[n] BY <1>1, <1>5, FlattenIsJoin
 <2>2. \A i \in 1..n : f[i] = IF i = 1 THEN s[i] ELSE f[i - 1] \o s[i] BY <2>1 DEF JoinedUpTo
 <2> HIDE DEF n
 <2> DEFINE N == {i \in Nat : i + 1 \in 1..n => g[i + 1] = f[i + 1]}
 <2>3. 0 \in N
  <3>1. 1 \in 1..n => 1 \in 1..(n + 1) /\ f[1] = s[1] /\ g[1] = t[1] /\ t[1] = s[1]
   BY <1>1, <1>3, <2>2
  <3> QED BY <3>1
 <2>4. ASSUME NEW i \in Nat, i \in N PROVE i + 1 \in N
  <3> SUFFICES ASSUME i + 2 \in 1..n PROVE g[i + 2] = f[i + 2]
   OBVIOUS
  <3>1. i + 1 \in 1..n /\ i + 2 \in 1..(n + 1) /\ i + 2 # 1 /\ (i + 2) - 1 = i + 1 BY <1>1
  <3>2. f[i + 2] = f[i + 1] \o s[i + 2] /\ g[i + 2] = g[i + 1] \o t[i + 2] BY <1>3, <2>2, <3>1
  <3> QED BY <1>1, <2>4, <3>1, <3>2
 <2> HIDE DEF N
 <2>5. Nat \subseteq N BY <2>3, <2>4, AllNumbers
 <2>6. g[n] = f[n]
  <3>1. n - 1 \in N /\ (n - 1) + 1 = n /\ n \in 1..n BY <1>1, <1>5, <2>5
  <3> QED BY <3>1 DEF N
 <2>7. g[n + 1] = g[n] \o x
  <3>1. n + 1 \in 1..(n + 1) /\ n + 1 # 1 /\ (n + 1) - 1 = n BY <1>1, <1>5
  <3> QED BY <1>1, <1>3, <3>1
 <2> QED BY <1>2, <2>1, <2>6, <2>7 DEF t
<1> QED BY <1>4, <1>5

LEMMA FlattenFacts ==
  ASSUME NEW S
  PROVE  /\ FlattenSeq(<<>>) = <<>>
         /\ \A s \in Seq(Seq(S)) : FlattenSeq(s) \in Seq(S)
         /\ \A x \in Seq(S) : FlattenSeq(<<x>>) = x
         /\ \A s, t \in Seq(Seq(S)) : FlattenSeq(s \o t) = FlattenSeq(s) \o FlattenSeq(t)
<1>1. FlattenSeq(<<>>) = <<>> BY DEF FlattenSeq
<1>2. \A s \in Seq(Seq(S)) : FlattenSeq(s) \in Seq(S)
 <2> DEFINE Q == {s \in Seq(Seq(S)) : FlattenSeq(s) \in Seq(S)}
 <2>1. <<>> \in Q BY <1>1, EmptySeq
 <2>2. ASSUME NEW s \in Seq(Seq(S)), NEW x \in Seq(S), s \in Q PROVE Append(s, x) \in Q
  <3>1. FlattenSeq(Append(s, x)) = FlattenSeq(s) \o x /\ FlattenSeq(s) \in Seq(S)
   BY <2>2, FlattenAppend
  <3>2. Append(s, x) \in Seq(Seq(S)) /\ FlattenSeq(s) \o x \in Seq(S) BY <3>1
  <3> QED BY <3>1, <3>2
 <2> HIDE DEF Q
 <2>3. Seq(Seq(S)) \subseteq Q BY <2>1, <2>2, AllSequences
 <2> QED BY <2>3 DEF Q
<1>3. ASSUME NEW x \in Seq(S) PROVE FlattenSeq(<<x>>) = x
 <2>1. Append(<<>>, x) = <<x>> /\ <<>> \in Seq(Seq(S)) /\ <<>> \o x = x OBVIOUS
 <2>2. FlattenSeq(Append(<<>>, x)) = FlattenSeq(<<>>) \o x BY <2>1, FlattenAppend
 <2> QED BY <1>1, <2>1, <2>2
<1>4. ASSUME NEW s \in Seq(Seq(S)) PROVE \A t \in Seq(Seq(S)) : FlattenSeq(s \o t) = FlattenSeq(s) \o FlattenSeq(t)
 <2> DEFINE Q == {t \in Seq(Seq(S)) : FlattenSeq(s \o t) = FlattenSeq(s) \o FlattenSeq(t)}
 <2>1. <<>> \in Q
  <3>1. s \o <<>> = s /\ FlattenSeq(s) \in Seq(S) BY <1>2
  <3>2. FlattenSeq(s) \o <<>> = FlattenSeq(s) BY <3>1
  <3> QED BY <1>1, <3>1, <3>2, EmptySeq
 <2>2. ASSUME NEW t \in Seq(Seq(S)), NEW x \in Seq(S), t \in Q PROVE Append(t, x) \in Q
  <3>1. /\ FlattenSeq(Append(t, x)) = FlattenSeq(t) \o x
        /\ s \o t \in Seq(Seq(S)) /\ s \o Append(t, x) = Append(s \o t, x) /\ Append(t, x) \in Seq(Seq(S))
   <4>1. s \o t \in Seq(Seq(S)) /\ s \o Append(t, x) = Append(s \o t, x) /\ Append(t, x) \in Seq(Seq(S))
    OBVIOUS
   <4> QED BY <4>1, FlattenAppend
  <3>2. FlattenSeq(Append(s \o t, x)) = FlattenSeq(s \o t) \o x BY <3>1, FlattenAppend
  <3>3. FlattenSeq(s \o t) = FlattenSeq(s) \o FlattenSeq(t) /\ FlattenSeq(s) \in Seq(S) /\ FlattenSeq(t) \in Seq(S)
   BY <1>2, <2>2
  <3>4. (FlattenSeq(s) \o FlattenSeq(t)) \o x = FlattenSeq(s) \o (FlattenSeq(t) \o x) BY <3>3
  <3> QED BY <3>1, <3>2, <3>3, <3>4
 <2> HIDE DEF Q
 <2>3. Seq(Seq(S)) \subseteq Q BY <2>1, <2>2, AllSequences
 <2> QED BY <2>3 DEF Q
<1> QED BY <1>1, <1>2, <1>3, <1>4

--------------------------------------------------
(* The blocks of one kind, and the blocks of a sequence of turns. *)

Blocks == [kind : {"text", "thought", "call", "result"}, id : Nat \X Nat]
Turns == [role : {"user", "assistant", "tool"}, blocks : Seq(Blocks)]

LEMMA KindAppend ==
  ASSUME NEW k, NEW s \in Seq(Blocks), NEW b \in Blocks
  PROVE  OfKind(Append(s, b), k) = OfKind(s, k) \o (IF b.kind = k THEN <<b>> ELSE <<>>)
<1> DEFINE t == Append(s, b)
           last == IF b.kind = k THEN <<b>> ELSE <<>>
           f == [i \in DOMAIN s |-> IF s[i].kind = k THEN <<s[i]>> ELSE <<>>]
           g == [i \in DOMAIN t |-> IF t[i].kind = k THEN <<t[i]>> ELSE <<>>]
           n == Len(s)
<1>1. n \in Nat /\ DOMAIN s = 1..n /\ DOMAIN t = 1..(n + 1) /\ t[n + 1] = b /\ \A i \in 1..n : t[i] = s[i] /\ s[i] \in Blocks
 OBVIOUS
<1>2. f \in Seq(Seq(Blocks)) /\ Len(f) = n /\ last \in Seq(Blocks)
 <2>1. \A i \in 1..n : f[i] \in Seq(Blocks) BY <1>1
 <2>2. f \in [1..n -> Seq(Blocks)] BY <1>1, <2>1
 <2> HIDE DEF f
 <2> QED BY <1>1, <2>2
<1>3. g = Append(f, last)
 <2> DEFINE h == Append(f, last)
 <2>1. h \in Seq(Seq(Blocks)) /\ Len(h) = n + 1 /\ DOMAIN h = 1..(n + 1) /\ h[n + 1] = last /\ \A i \in 1..n : h[i] = f[i]
  <3> HIDE DEF f, last, n
  <3> QED BY <1>1, <1>2
 <2>2. DOMAIN g = 1..(n + 1) /\ g[n + 1] = last /\ \A i \in 1..n : g[i] = f[i] BY <1>1
 <2>3. \A i \in 1..(n + 1) : g[i] = h[i]
  <3> SUFFICES ASSUME NEW i \in 1..(n + 1) PROVE g[i] = h[i]
   OBVIOUS
  <3>1. n \in Nat BY <1>1
  <3> HIDE DEF f, g, h, last, n
  <3>2. i \in 1..n \/ i = n + 1 BY <3>1
  <3> QED BY <2>1, <2>2, <3>2
 <2>4. h = [i \in 1..(n + 1) |-> h[i]]
  <3> HIDE DEF h
  <3> QED BY <2>1
 <2>5. g = [i \in 1..(n + 1) |-> g[i]] BY <1>1
 <2> HIDE DEF f, g, h, last, n
 <2> QED BY <2>3, <2>4, <2>5 DEF h
<1>4. OfKind(t, k) = FlattenSeq(g) /\ OfKind(s, k) = FlattenSeq(f) BY DEF OfKind
<1> HIDE DEF f, g, t, last
<1>5. FlattenSeq(Append(f, last)) = FlattenSeq(f) \o last BY <1>2, FlattenAppend
<1> QED BY <1>3, <1>4, <1>5 DEF t, last

LEMMA KindEmpty ==
  ASSUME NEW k
  PROVE  OfKind(<<>>, k) = <<>>
<1>1. [i \in DOMAIN <<>> |-> IF (<<>>)[i].kind = k THEN <<(<<>>)[i]>> ELSE <<>>] = <<>> OBVIOUS
<1> QED BY <1>1, FlattenFacts DEF OfKind

(* The members of one sequence are members of another; and what an id is. *)
From(p, s) == \A i \in DOMAIN p : \E j \in DOMAIN s : p[i] = s[j]
AllOf(k, s) == \A i \in DOMAIN s : s[i].kind = k
NoneOf(k, s) == \A i \in DOMAIN s : s[i].kind # k

LEMMA KindTyped ==
  ASSUME NEW k
  PROVE  \A s \in Seq(Blocks) : OfKind(s, k) \in Seq(Blocks) /\ AllOf(k, OfKind(s, k)) /\ From(OfKind(s, k), s)
<1> DEFINE Q == {s \in Seq(Blocks) : OfKind(s, k) \in Seq(Blocks) /\ AllOf(k, OfKind(s, k)) /\ From(OfKind(s, k), s)}
<1>1. <<>> \in Q
 <2>1. OfKind(<<>>, k) = <<>> /\ <<>> \in Seq(Blocks) BY KindEmpty, EmptySeq
 <2>2. AllOf(k, <<>>) /\ From(<<>>, <<>>) BY DEF AllOf, From
 <2> QED BY <2>1, <2>2
<1>2. ASSUME NEW s \in Seq(Blocks), NEW b \in Blocks, s \in Q PROVE Append(s, b) \in Q
 <2>1. OfKind(Append(s, b), k) = OfKind(s, k) \o (IF b.kind = k THEN <<b>> ELSE <<>>)
  BY KindAppend
 <2>2. OfKind(s, k) \in Seq(Blocks) /\ AllOf(k, OfKind(s, k)) /\ From(OfKind(s, k), s) BY <1>2
 <2>3. /\ Append(s, b) \in Seq(Blocks) /\ Len(s) + 1 \in DOMAIN Append(s, b) /\ Append(s, b)[Len(s) + 1] = b
       /\ \A j \in DOMAIN s : j \in DOMAIN Append(s, b) /\ Append(s, b)[j] = s[j]
  OBVIOUS
 <2>4. CASE b.kind # k
  <3>1. OfKind(Append(s, b), k) = OfKind(s, k) BY <2>1, <2>2, <2>4
  <3>2. From(OfKind(s, k), Append(s, b)) BY <2>2, <2>3 DEF From
  <3> QED BY <2>2, <2>3, <3>1, <3>2
 <2>5. CASE b.kind = k
  <3> DEFINE p == OfKind(s, k)
             q == Append(p, b)
  <3>1. OfKind(Append(s, b), k) = q BY <2>1, <2>2, <2>5
  <3> HIDE DEF p
  <3>2. p \in Seq(Blocks) /\ AllOf(k, p) /\ From(p, s) BY <2>2 DEF p
  <3>3. q \in Seq(Blocks) /\ \A i \in DOMAIN q : (i \in DOMAIN p /\ q[i] = p[i]) \/ q[i] = b
   BY <3>2
  <3> HIDE DEF q
  <3>4. AllOf(k, q) BY <2>5, <3>2, <3>3 DEF AllOf
  <3>5. From(q, Append(s, b)) BY <2>3, <3>2, <3>3 DEF From
  <3> QED BY <2>3, <3>1, <3>3, <3>4, <3>5
 <2> QED BY <2>4, <2>5
<1> HIDE DEF Q
<1>3. Seq(Blocks) \subseteq Q BY <1>1, <1>2, AllSequences
<1> QED BY <1>3 DEF Q

LEMMA KindConcat ==
  ASSUME NEW k, NEW s \in Seq(Blocks)
  PROVE  \A t \in Seq(Blocks) : OfKind(s \o t, k) = OfKind(s, k) \o OfKind(t, k)
<1> DEFINE Q == {t \in Seq(Blocks) : OfKind(s \o t, k) = OfKind(s, k) \o OfKind(t, k)}
<1>1. <<>> \in Q
 <2>1. s \o <<>> = s /\ OfKind(s, k) \in Seq(Blocks) BY KindTyped
 <2>2. OfKind(s, k) \o <<>> = OfKind(s, k) BY <2>1
 <2> QED BY <2>1, <2>2, KindEmpty, EmptySeq
<1>2. ASSUME NEW t \in Seq(Blocks), NEW b \in Blocks, t \in Q PROVE Append(t, b) \in Q
 <2> DEFINE last == IF b.kind = k THEN <<b>> ELSE <<>>
 <2>1. s \o t \in Seq(Blocks) /\ s \o Append(t, b) = Append(s \o t, b) /\ Append(t, b) \in Seq(Blocks) /\ last \in Seq(Blocks)
  OBVIOUS
 <2>2. OfKind(Append(s \o t, b), k) = OfKind(s \o t, k) \o last /\ OfKind(Append(t, b), k) = OfKind(t, k) \o last
  BY <2>1, KindAppend
 <2> HIDE DEF last
 <2>3. OfKind(s \o t, k) = OfKind(s, k) \o OfKind(t, k) /\ OfKind(s, k) \in Seq(Blocks) /\ OfKind(t, k) \in Seq(Blocks)
  BY <1>2, KindTyped
 <2> DEFINE a == OfKind(s, k)
            c == OfKind(t, k)
 <2>4. (a \o c) \o last = a \o (c \o last)
  <3>1. a \in Seq(Blocks) /\ c \in Seq(Blocks) /\ last \in Seq(Blocks) BY <2>1, <2>3
  <3> HIDE DEF a, c
  <3> QED BY <3>1
 <2> QED BY <2>1, <2>2, <2>3, <2>4
<1> HIDE DEF Q
<1>3. Seq(Blocks) \subseteq Q BY <1>1, <1>2, AllSequences
<1> QED BY <1>3 DEF Q

LEMMA KindAll ==
  ASSUME NEW k
  PROVE  \A s \in Seq(Blocks) : AllOf(k, s) => OfKind(s, k) = s
<1> DEFINE Q == {s \in Seq(Blocks) : AllOf(k, s) => OfKind(s, k) = s}
<1>1. <<>> \in Q BY KindEmpty, EmptySeq
<1>2. ASSUME NEW s \in Seq(Blocks), NEW b \in Blocks, s \in Q PROVE Append(s, b) \in Q
 <2> SUFFICES ASSUME AllOf(k, Append(s, b)) PROVE OfKind(Append(s, b), k) = Append(s, b)
  OBVIOUS
 <2>1. b.kind = k /\ AllOf(k, s)
  <3>1. /\ Len(s) + 1 \in DOMAIN Append(s, b) /\ Append(s, b)[Len(s) + 1] = b
        /\ \A j \in DOMAIN s : j \in DOMAIN Append(s, b) /\ Append(s, b)[j] = s[j]
   OBVIOUS
  <3> QED BY <3>1 DEF AllOf
 <2>2. OfKind(Append(s, b), k) = OfKind(s, k) \o <<b>> BY <2>1, KindAppend
 <2> QED BY <1>2, <2>1, <2>2
<1> HIDE DEF Q
<1>3. Seq(Blocks) \subseteq Q BY <1>1, <1>2, AllSequences
<1> QED BY <1>3 DEF Q

LEMMA KindNone ==
  ASSUME NEW k
  PROVE  \A s \in Seq(Blocks) : NoneOf(k, s) => OfKind(s, k) = <<>>
<1> SUFFICES ASSUME NEW s \in Seq(Blocks), NoneOf(k, s) PROVE OfKind(s, k) = <<>>
 OBVIOUS
<1>1. OfKind(s, k) \in Seq(Blocks) /\ AllOf(k, OfKind(s, k)) /\ From(OfKind(s, k), s)
 BY KindTyped
<1> DEFINE p == OfKind(s, k)
<1> HIDE DEF p
<1>2. p \in Seq(Blocks) /\ AllOf(k, p) /\ From(p, s) BY <1>1 DEF p
<1>3. \A i \in DOMAIN p : FALSE BY <1>2 DEF AllOf, NoneOf, From
<1>4. p = <<>>
 <2>1. Len(p) \in Nat /\ DOMAIN p = 1..Len(p) BY <1>2
 <2>2. Len(p) = 0
  <3>1. Len(p) # 0 => 1 \in DOMAIN p BY <2>1
  <3> QED BY <1>3, <3>1
 <2> QED BY <1>2, <2>2, EmptySeq
<1> QED BY <1>4 DEF p

LEMMA PartsAppend ==
  ASSUME NEW w \in Seq(Turns), NEW t \in Turns
  PROVE  PartsOf(Append(w, t)) = PartsOf(w) \o t.blocks
<1> DEFINE v == Append(w, t)
           f == [i \in DOMAIN w |-> w[i].blocks]
           g == [i \in DOMAIN v |-> v[i].blocks]
           n == Len(w)
           b == t.blocks
<1>1. n \in Nat /\ DOMAIN w = 1..n /\ DOMAIN v = 1..(n + 1) /\ v[n + 1] = t /\ \A i \in 1..n : v[i] = w[i] /\ w[i] \in Turns
 OBVIOUS
<1>2. f \in Seq(Seq(Blocks)) /\ Len(f) = n /\ b \in Seq(Blocks)
 <2>1. \A i \in 1..n : f[i] \in Seq(Blocks) BY <1>1 DEF Turns
 <2>2. f \in [1..n -> Seq(Blocks)] BY <1>1, <2>1
 <2>3. b \in Seq(Blocks) BY DEF Turns
 <2> HIDE DEF f, b
 <2> QED BY <1>1, <2>2, <2>3
<1>3. g = Append(f, b)
 <2> DEFINE h == Append(f, b)
 <2>1. h \in Seq(Seq(Blocks)) /\ Len(h) = n + 1 /\ DOMAIN h = 1..(n + 1) /\ h[n + 1] = b /\ \A i \in 1..n : h[i] = f[i]
  <3> HIDE DEF f, b, n
  <3> QED BY <1>1, <1>2
 <2>2. DOMAIN g = 1..(n + 1) /\ g[n + 1] = b /\ \A i \in 1..n : g[i] = f[i] BY <1>1
 <2>3. \A i \in 1..(n + 1) : g[i] = h[i]
  <3> SUFFICES ASSUME NEW i \in 1..(n + 1) PROVE g[i] = h[i]
   OBVIOUS
  <3>1. n \in Nat BY <1>1
  <3> HIDE DEF f, g, h, b, n
  <3>2. i \in 1..n \/ i = n + 1 BY <3>1
  <3> QED BY <2>1, <2>2, <3>2
 <2>4. h = [i \in 1..(n + 1) |-> h[i]]
  <3> HIDE DEF h
  <3> QED BY <2>1
 <2>5. g = [i \in 1..(n + 1) |-> g[i]] BY <1>1
 <2> HIDE DEF f, g, h, b, n
 <2> QED BY <2>3, <2>4, <2>5 DEF h
<1>4. PartsOf(v) = FlattenSeq(g) /\ PartsOf(w) = FlattenSeq(f) BY DEF PartsOf
<1> HIDE DEF f, g, v, b
<1>5. FlattenSeq(Append(f, b)) = FlattenSeq(f) \o b BY <1>2, FlattenAppend
<1> QED BY <1>3, <1>4, <1>5 DEF v, b

LEMMA PartsTyped ==
  /\ PartsOf(<<>>) = <<>>
  /\ \A w \in Seq(Turns) : PartsOf(w) \in Seq(Blocks)
  /\ \A t \in Turns : PartsOf(<<t>>) = t.blocks
<1>1. PartsOf(<<>>) = <<>>
 <2>1. [i \in DOMAIN <<>> |-> (<<>>)[i].blocks] = <<>> OBVIOUS
 <2> QED BY <2>1, FlattenFacts DEF PartsOf
<1>2. \A w \in Seq(Turns) : PartsOf(w) \in Seq(Blocks)
 <2> DEFINE Q == {w \in Seq(Turns) : PartsOf(w) \in Seq(Blocks)}
 <2>1. <<>> \in Q BY <1>1, EmptySeq
 <2>2. ASSUME NEW w \in Seq(Turns), NEW t \in Turns, w \in Q PROVE Append(w, t) \in Q
  <3>1. PartsOf(Append(w, t)) = PartsOf(w) \o t.blocks /\ PartsOf(w) \in Seq(Blocks) /\ t.blocks \in Seq(Blocks)
   BY <2>2, PartsAppend DEF Turns
  <3> DEFINE p == PartsOf(w)
             b == t.blocks
  <3>2. p \o b \in Seq(Blocks)
   <4> HIDE DEF p, b
   <4>1. p \in Seq(Blocks) /\ b \in Seq(Blocks) BY <3>1 DEF p, b
   <4> QED BY <4>1
  <3>3. Append(w, t) \in Seq(Turns) OBVIOUS
  <3> QED BY <3>1, <3>2, <3>3
 <2> HIDE DEF Q
 <2>3. Seq(Turns) \subseteq Q BY <2>1, <2>2, AllSequences
 <2> QED BY <2>3 DEF Q
<1>3. ASSUME NEW t \in Turns PROVE PartsOf(<<t>>) = t.blocks
 <2>1. <<t>> = Append(<<>>, t) /\ <<>> \in Seq(Turns) /\ t.blocks \in Seq(Blocks) BY DEF Turns
 <2>2. PartsOf(<<t>>) = <<>> \o t.blocks BY <1>1, <2>1, PartsAppend
 <2> QED BY <2>1, <2>2
<1> QED BY <1>1, <1>2, <1>3

LEMMA PartsConcat ==
  ASSUME NEW w \in Seq(Turns)
  PROVE  \A v \in Seq(Turns) : PartsOf(w \o v) = PartsOf(w) \o PartsOf(v)
<1> DEFINE Q == {v \in Seq(Turns) : PartsOf(w \o v) = PartsOf(w) \o PartsOf(v)}
<1>1. <<>> \in Q
 <2>1. w \o <<>> = w /\ PartsOf(w) \in Seq(Blocks) BY PartsTyped
 <2>2. PartsOf(w) \o <<>> = PartsOf(w) BY <2>1
 <2> QED BY <2>1, <2>2, PartsTyped, EmptySeq
<1>2. ASSUME NEW v \in Seq(Turns), NEW t \in Turns, v \in Q PROVE Append(v, t) \in Q
 <2>1. w \o v \in Seq(Turns) /\ w \o Append(v, t) = Append(w \o v, t) /\ Append(v, t) \in Seq(Turns) /\ t.blocks \in Seq(Blocks)
  BY DEF Turns
 <2>2. PartsOf(Append(w \o v, t)) = PartsOf(w \o v) \o t.blocks /\ PartsOf(Append(v, t)) = PartsOf(v) \o t.blocks
  BY <2>1, PartsAppend
 <2>3. PartsOf(w \o v) = PartsOf(w) \o PartsOf(v) /\ PartsOf(w) \in Seq(Blocks) /\ PartsOf(v) \in Seq(Blocks)
  BY <1>2, PartsTyped
 <2> DEFINE p == PartsOf(w)
            q == PartsOf(v)
            b == t.blocks
 <2>4. (p \o q) \o b = p \o (q \o b)
  <3> HIDE DEF p, q, b
  <3>1. p \in Seq(Blocks) /\ q \in Seq(Blocks) /\ b \in Seq(Blocks) BY <2>1, <2>3 DEF p, q, b
  <3> QED BY <3>1
 <2> QED BY <2>1, <2>2, <2>3, <2>4
<1> HIDE DEF Q
<1>3. Seq(Turns) \subseteq Q BY <1>1, <1>2, AllSequences
<1> QED BY <1>3 DEF Q

(* One message of several parts, or a message each: the parts are the same. *)
LEMMA MessageParts ==
  ASSUME NEW r \in {"user", "assistant", "tool"}, NEW p \in Seq(Blocks)
  PROVE  Message(r, p) \in Seq(Turns) /\ PartsOf(Message(r, p)) = p
<1>1. Turn(r, p) \in Turns /\ Turn(r, p).blocks = p BY DEF Turn, Turns
<1>2. CASE p = <<>> BY <1>2, PartsTyped, EmptySeq DEF Message
<1>3. CASE p # <<>> BY <1>1, <1>3, PartsTyped DEF Message
<1> QED BY <1>2, <1>3

LEMMA EachParts ==
  ASSUME NEW r \in {"user", "assistant", "tool"}
  PROVE  \A p \in Seq(Blocks) : Each(r, p) \in Seq(Turns) /\ PartsOf(Each(r, p)) = p
<1> DEFINE Q == {p \in Seq(Blocks) : Each(r, p) \in Seq(Turns) /\ PartsOf(Each(r, p)) = p}
<1>1. <<>> \in Q
 <2>1. [i \in DOMAIN <<>> |-> Turn(r, <<(<<>>)[i]>>)] = <<>> OBVIOUS
 <2>2. Each(r, <<>>) = <<>> BY <2>1 DEF Each
 <2> QED BY <2>2, PartsTyped, EmptySeq
<1>2. ASSUME NEW p \in Seq(Blocks), NEW b \in Blocks, p \in Q PROVE Append(p, b) \in Q
 <2> DEFINE t == Turn(r, <<b>>)
            e == Each(r, p)
            q == Append(p, b)
            n == Len(p)
 <2>1. t \in Turns /\ t.blocks = <<b>> BY DEF Turn, Turns
 <2>2. e \in Seq(Turns) /\ PartsOf(e) = p /\ n \in Nat /\ q \in Seq(Blocks) /\ q = p \o <<b>>
  BY <1>2
 <2>3. Each(r, q) = Append(e, t)
  <3>1. DOMAIN p = 1..n /\ DOMAIN q = 1..(n + 1) /\ q[n + 1] = b /\ \A i \in 1..n : q[i] = p[i]
   OBVIOUS
  <3>2. DOMAIN e = 1..n /\ \A i \in 1..n : e[i] = Turn(r, <<p[i]>>) BY <3>1 DEF Each
  <3>3. Len(e) = n
   <4> HIDE DEF e, n
   <4> QED BY <2>2, <3>2
  <3> DEFINE h == Append(e, t)
  <3>4. DOMAIN h = 1..(n + 1) /\ h[n + 1] = t /\ (\A i \in 1..n : h[i] = e[i]) /\ h \in Seq(Turns)
   <4> HIDE DEF e, t, n
   <4> QED BY <2>1, <2>2, <3>3
  <3>5. h = [i \in 1..(n + 1) |-> h[i]]
   <4> HIDE DEF h
   <4> QED BY <3>4
  <3>6. Each(r, q) = [i \in 1..(n + 1) |-> Turn(r, <<q[i]>>)] BY <3>1 DEF Each
  <3>7. ASSUME NEW i \in 1..(n + 1) PROVE Turn(r, <<q[i]>>) = h[i]
   <4> HIDE DEF e, h, n, q
   <4>1. i \in 1..n \/ i = n + 1 BY <2>2
   <4> QED BY <3>1, <3>2, <3>4, <4>1
  <3> HIDE DEF h, e, n, q, t
  <3> QED BY <3>5, <3>6, <3>7 DEF h
 <2>4. PartsOf(Append(e, t)) = PartsOf(e) \o t.blocks /\ Append(e, t) \in Seq(Turns)
  <3> HIDE DEF e, t, n, q
  <3>1. e \in Seq(Turns) /\ t \in Turns BY <2>1, <2>2
  <3>2. Append(e, t) \in Seq(Turns) BY <3>1
  <3> QED BY <3>1, <3>2, PartsAppend
 <2> QED BY <2>1, <2>2, <2>3, <2>4
<1> HIDE DEF Q
<1>3. Seq(Blocks) \subseteq Q BY <1>1, <1>2, AllSequences
<1> QED BY <1>3 DEF Q

(* The blocks of two kinds, one kind after the other. *)
LEMMA FromConcat ==
  ASSUME NEW s, NEW p \in Seq(Blocks), NEW q \in Seq(Blocks), From(p, s), From(q, s)
  PROVE  From(p \o q, s)
<1>1. ASSUME NEW i \in DOMAIN (p \o q) PROVE (i \in DOMAIN p /\ (p \o q)[i] = p[i]) \/ \E j \in DOMAIN q : (p \o q)[i] = q[j]
 <2>1. i \in 1..(Len(p) + Len(q)) /\ Len(p) \in Nat /\ Len(q) \in Nat /\ DOMAIN p = 1..Len(p) /\ DOMAIN q = 1..Len(q)
  OBVIOUS
 <2>2. CASE i <= Len(p) BY <2>1, <2>2
 <2>3. CASE i > Len(p)
  <3>1. i - Len(p) \in DOMAIN q /\ (p \o q)[i] = q[i - Len(p)] BY <2>1, <2>3
  <3> QED BY <3>1
 <2> QED BY <2>1, <2>2, <2>3
<1> DEFINE r == p \o q
<1>2. \A i \in DOMAIN r : (i \in DOMAIN p /\ r[i] = p[i]) \/ \E j \in DOMAIN q : r[i] = q[j]
 BY <1>1
<1> HIDE DEF r
<1>3. ASSUME NEW i \in DOMAIN r PROVE \E j \in DOMAIN s : r[i] = s[j]
 <2>1. \A j \in DOMAIN p : \E l \in DOMAIN s : p[j] = s[l] BY DEF From
 <2>2. \A j \in DOMAIN q : \E l \in DOMAIN s : q[j] = s[l] BY DEF From
 <2>3. CASE i \in DOMAIN p /\ r[i] = p[i] BY <2>1, <2>3
 <2>4. CASE \E j \in DOMAIN q : r[i] = q[j]
  <3>1. PICK j \in DOMAIN q : r[i] = q[j] BY <2>4
  <3> QED BY <2>2, <3>1
 <2> QED BY <1>2, <2>3, <2>4
<1>4. From(r, s) BY <1>3 DEF From
<1> QED BY <1>4 DEF r

LEMMA KindOfKind ==
  ASSUME NEW s \in Seq(Blocks), NEW k, NEW l
  PROVE  OfKind(OfKind(s, k), l) = IF k = l THEN OfKind(s, k) ELSE <<>>
<1> DEFINE p == OfKind(s, k)
<1>1. p \in Seq(Blocks) /\ AllOf(k, p) BY KindTyped
<1> HIDE DEF p
<1>2. k = l => OfKind(p, l) = p BY <1>1, KindAll
<1>3. k # l => OfKind(p, l) = <<>>
 <2>1. k # l => NoneOf(l, p) BY <1>1 DEF AllOf, NoneOf
 <2> QED BY <1>1, <2>1, KindNone
<1> QED BY <1>2, <1>3 DEF p

Both(s, k, l) == OfKind(s, k) \o OfKind(s, l)
AllThree(s, k, l, m) == Both(s, k, l) \o OfKind(s, m)

LEMMA BothKinds ==
  ASSUME NEW s \in Seq(Blocks), NEW k, NEW l, k # l
  PROVE  /\ Both(s, k, l) \in Seq(Blocks) /\ From(Both(s, k, l), s)
         /\ \A m : OfKind(Both(s, k, l), m) = IF m \in {k, l} THEN OfKind(s, m) ELSE <<>>
<1> DEFINE p == OfKind(s, k)
           q == OfKind(s, l)
<1>1. p \in Seq(Blocks) /\ q \in Seq(Blocks) /\ From(p, s) /\ From(q, s) BY KindTyped
<1>2. ASSUME NEW m PROVE OfKind(p, m) = (IF k = m THEN p ELSE <<>>) /\ OfKind(q, m) = (IF l = m THEN q ELSE <<>>)
 BY KindOfKind
<1>3. p \o q = Both(s, k, l) BY DEF Both
<1>4. ASSUME NEW m PROVE m = k => p = OfKind(s, m)
 BY <1>4
<1>5. ASSUME NEW m PROVE m = l => q = OfKind(s, m)
 BY <1>5
<1> HIDE DEF p, q
<1>6. p \o q \in Seq(Blocks) /\ From(p \o q, s) BY <1>1, FromConcat
<1>7. ASSUME NEW m PROVE OfKind(p \o q, m) = IF m \in {k, l} THEN OfKind(s, m) ELSE <<>>
 <2>1. OfKind(p \o q, m) = OfKind(p, m) \o OfKind(q, m) BY <1>1, KindConcat
 <2>2. p \o <<>> = p /\ <<>> \o q = q /\ <<>> \o <<>> = <<>> BY <1>1
 <2>3. CASE m = k BY <1>2, <1>4, <2>1, <2>2, <2>3
 <2>4. CASE m = l BY <1>2, <1>5, <2>1, <2>2, <2>4
 <2>5. CASE m # k /\ m # l BY <1>2, <2>1, <2>2, <2>5
 <2> QED BY <2>3, <2>4, <2>5
<1> QED BY <1>3, <1>6, <1>7

LEMMA AllThreeKinds ==
  ASSUME NEW s \in Seq(Blocks), NEW k, NEW l, NEW m, k # l, k # m, l # m
  PROVE  /\ AllThree(s, k, l, m) \in Seq(Blocks) /\ From(AllThree(s, k, l, m), s)
         /\ \A n : OfKind(AllThree(s, k, l, m), n) = IF n \in {k, l, m} THEN OfKind(s, n) ELSE <<>>
<1> DEFINE p == Both(s, k, l)
           q == OfKind(s, m)
<1>1. p \in Seq(Blocks) /\ q \in Seq(Blocks) /\ From(p, s) /\ From(q, s) BY KindTyped, BothKinds
<1>2. ASSUME NEW n PROVE OfKind(p, n) = (IF n \in {k, l} THEN OfKind(s, n) ELSE <<>>) /\ OfKind(q, n) = (IF m = n THEN q ELSE <<>>)
 BY KindOfKind, BothKinds
<1>3. p \o q = AllThree(s, k, l, m) BY DEF AllThree
<1>4. ASSUME NEW n PROVE m = n => q = OfKind(s, n)
 BY <1>4
<1> HIDE DEF p, q
<1>6. p \o q \in Seq(Blocks) /\ From(p \o q, s) BY <1>1, FromConcat
<1>7. ASSUME NEW n PROVE OfKind(p \o q, n) = IF n \in {k, l, m} THEN OfKind(s, n) ELSE <<>>
 <2>1. OfKind(p \o q, n) = OfKind(p, n) \o OfKind(q, n) BY <1>1, KindConcat
 <2>2. <<>> \o q = q /\ <<>> \o <<>> = <<>> BY <1>1
 <2>3. CASE n \in {k, l}
  <3> DEFINE o == OfKind(s, n)
  <3>1. o \in Seq(Blocks) BY KindTyped
  <3>2. OfKind(p, n) = o /\ OfKind(q, n) = <<>> BY <1>2, <2>3
  <3> HIDE DEF o
  <3>3. o \o <<>> = o BY <3>1
  <3> QED BY <2>1, <2>3, <3>2, <3>3 DEF o
 <2>4. CASE n = m BY <1>2, <1>4, <2>1, <2>2, <2>4
 <2>5. CASE n \notin {k, l, m} BY <1>2, <2>1, <2>2, <2>5
 <2> QED BY <2>3, <2>4, <2>5
<1> QED BY <1>3, <1>6, <1>7

(* What an adapter makes of a turn is the turn's blocks of some kinds. *)
Carries(t, p) ==
  /\ p \in Seq(Blocks) /\ From(p, t.blocks)
  /\ t.role = "user" =>
       /\ OfKind(p, "result") = OfKind(t.blocks, "result")
       /\ OfKind(p, "call") = <<>> /\ OfKind(p, "thought") = <<>>
  /\ t.role = "assistant" =>
       /\ OfKind(p, "call") = OfKind(t.blocks, "call") /\ OfKind(p, "result") = <<>>
       /\ wire # "ollama" => OfKind(p, "thought") = OfKind(t.blocks, "thought")

Wired(t, w) == w \in Seq(Turns) /\ Carries(t, PartsOf(w))

LEMMA UserCarried ==
  ASSUME NEW t \in Turns, t.role = "user"
  PROVE  Carries(t, Both(t.blocks, "text", "result"))
<1>1. t.blocks \in Seq(Blocks) BY DEF Turns
<1> DEFINE s == t.blocks
           p == Both(s, "text", "result")
<1> HIDE DEF s
<1>2. p \in Seq(Blocks) /\ From(p, s) /\ \A m : OfKind(p, m) = IF m \in {"text", "result"} THEN OfKind(s, m) ELSE <<>>
 BY <1>1, BothKinds DEF s
<1> HIDE DEF p
<1>3. OfKind(p, "result") = OfKind(s, "result") /\ OfKind(p, "call") = <<>> /\ OfKind(p, "thought") = <<>>
 BY <1>2
<1>4. Carries(t, p) BY <1>2, <1>3 DEF Carries, s
<1> QED BY <1>4 DEF p, s

LEMMA AnswerCarried ==
  ASSUME NEW t \in Turns, t.role = "assistant", NEW k, NEW l, NEW m, {k, l, m} = {"text", "thought", "call"},
         k # l, k # m, l # m
  PROVE  Carries(t, AllThree(t.blocks, k, l, m))
<1>1. t.blocks \in Seq(Blocks) BY DEF Turns
<1> DEFINE s == t.blocks
           p == AllThree(s, k, l, m)
<1> HIDE DEF s
<1>2. p \in Seq(Blocks) /\ From(p, s) /\ \A n : OfKind(p, n) = IF n \in {k, l, m} THEN OfKind(s, n) ELSE <<>>
 BY <1>1, AllThreeKinds DEF s
<1> HIDE DEF p
<1>3. OfKind(p, "call") = OfKind(s, "call") /\ OfKind(p, "result") = <<>> /\ OfKind(p, "thought") = OfKind(s, "thought")
 BY <1>2
<1>4. Carries(t, p) BY <1>2, <1>3 DEF Carries, s
<1> QED BY <1>4 DEF p, s

LEMMA ThoughtlessCarried ==
  ASSUME NEW t \in Turns, t.role = "assistant", wire = "ollama"
  PROVE  Carries(t, Both(t.blocks, "text", "call"))
<1>1. t.blocks \in Seq(Blocks) BY DEF Turns
<1> DEFINE s == t.blocks
           p == Both(s, "text", "call")
<1> HIDE DEF s
<1>2. p \in Seq(Blocks) /\ From(p, s) /\ \A n : OfKind(p, n) = IF n \in {"text", "call"} THEN OfKind(s, n) ELSE <<>>
 BY <1>1, BothKinds DEF s
<1> HIDE DEF p
<1>3. OfKind(p, "call") = OfKind(s, "call") /\ OfKind(p, "result") = <<>> BY <1>2
<1>4. Carries(t, p) BY <1>2, <1>3 DEF Carries, s
<1> QED BY <1>4 DEF p, s

(* The five ways a turn is written: one message or one per part. *)
LEMMA UserWired ==
  ASSUME NEW t \in Turns, t.role = "user"
  PROVE  /\ Wired(t, Message("user", Texts(t) \o Results(t)))
         /\ Wired(t, Message("user", Texts(t)) \o Each("tool", Results(t)))
         /\ Wired(t, Each("user", Texts(t)) \o Each("tool", Results(t)))
<1> DEFINE a == Texts(t)
           b == Results(t)
<1>1. a \in Seq(Blocks) /\ b \in Seq(Blocks) BY KindTyped DEF Turns, Texts, Results
<1>2. Carries(t, a \o b) BY UserCarried DEF Both, Texts, Results
<1> HIDE DEF a, b
<1>3. a \o b \in Seq(Blocks) BY <1>1
<1>4. /\ Message("user", a \o b) \in Seq(Turns) /\ PartsOf(Message("user", a \o b)) = a \o b
      /\ Message("user", a) \in Seq(Turns) /\ PartsOf(Message("user", a)) = a
      /\ Each("user", a) \in Seq(Turns) /\ PartsOf(Each("user", a)) = a
      /\ Each("tool", b) \in Seq(Turns) /\ PartsOf(Each("tool", b)) = b
 BY <1>1, <1>3, MessageParts, EachParts
<1> DEFINE u == Message("user", a)
           e == Each("user", a)
           r == Each("tool", b)
<1>5. u \in Seq(Turns) /\ e \in Seq(Turns) /\ r \in Seq(Turns) /\ PartsOf(u) = a /\ PartsOf(e) = a /\ PartsOf(r) = b
 BY <1>4
<1>6. Wired(t, Message("user", a \o b)) BY <1>2, <1>4 DEF Wired
<1> HIDE DEF u, e, r
<1>7. PartsOf(u \o r) = a \o b /\ PartsOf(e \o r) = a \o b BY <1>5, PartsConcat
<1>8. u \o r \in Seq(Turns) /\ e \o r \in Seq(Turns) BY <1>5
<1>9. Wired(t, u \o r) /\ Wired(t, e \o r) BY <1>2, <1>7, <1>8 DEF Wired
<1> QED BY <1>6, <1>9 DEF a, b, u, e, r

(* An answer's parts p, in one message (that may be empty) or one each. *)
LEMMA AnswerWired ==
  ASSUME NEW t \in Turns, NEW p \in Seq(Blocks), Carries(t, p)
  PROVE  Wired(t, Message("assistant", p)) /\ Wired(t, Each("assistant", p)) /\ Wired(t, <<Turn("assistant", p)>>)
<1>1. Message("assistant", p) \in Seq(Turns) /\ PartsOf(Message("assistant", p)) = p
 BY MessageParts
<1>2. Each("assistant", p) \in Seq(Turns) /\ PartsOf(Each("assistant", p)) = p BY EachParts
<1>3. Turn("assistant", p) \in Turns /\ Turn("assistant", p).blocks = p BY DEF Turns, Turn
<1>4. <<Turn("assistant", p)>> \in Seq(Turns) /\ PartsOf(<<Turn("assistant", p)>>) = p
 BY <1>3, PartsTyped
<1> QED BY <1>1, <1>2, <1>4 DEF Wired

Speaks == wire \in {"openai", "anthropic", "gemini", "ollama", "deepseek", "zhipu", "kimi", "minimax", "minimaxChat",
                    "qwen"}

LEMMA TurnWired ==
  ASSUME Speaks, NEW t \in Turns, t.role \in {"user", "assistant"}
  PROVE  Wired(t, WireTurn(t))
<1>1. CASE t.role = "user"
 <2>1. WireTurn(t) \in {Message("user", Texts(t) \o Results(t)), Message("user", Texts(t)) \o Each("tool", Results(t)),
                        Each("user", Texts(t)) \o Each("tool", Results(t))}
  BY <1>1 DEF Speaks, WireTurn, OpenAiTurn, AnthropicTurn, GeminiTurn, OllamaTurn, DeepSeekTurn, ZhipuTurn,
              KimiTurn, MiniMaxTurn, MiniMaxChatTurn, QwenTurn
 <2> QED BY <1>1, <2>1, UserWired
<1>2. CASE t.role = "assistant"
 <2> DEFINE s == t.blocks
            htc == AllThree(s, "thought", "text", "call")
            hct == AllThree(s, "thought", "call", "text")
            tch == AllThree(s, "text", "call", "thought")
            tc == Both(s, "text", "call")
 <2>1. Carries(t, htc) /\ Carries(t, hct) /\ Carries(t, tch) BY <1>2, AnswerCarried
 <2>2. wire = "ollama" => Carries(t, tc) BY <1>2, ThoughtlessCarried
 <2>3. /\ htc = Thoughts(t) \o Texts(t) \o ToolCallsOf(t) /\ hct = Thoughts(t) \o ToolCallsOf(t) \o Texts(t)
       /\ tch = Texts(t) \o ToolCallsOf(t) \o Thoughts(t) /\ tc = Texts(t) \o ToolCallsOf(t)
  BY DEF AllThree, Both, Thoughts, Texts, ToolCallsOf
 <2> HIDE DEF s, htc, hct, tch, tc
 <2>4. \/ wire = "ollama" /\ WireTurn(t) = <<Turn("assistant", tc)>>
       \/ WireTurn(t) \in {Each("assistant", hct), Each("assistant", htc), Message("assistant", htc),
                           <<Turn("assistant", tch)>>}
  BY <1>2, <2>3 DEF Speaks, WireTurn, OpenAiTurn, AnthropicTurn, GeminiTurn, OllamaTurn, DeepSeekTurn, ZhipuTurn,
              KimiTurn, MiniMaxTurn, MiniMaxChatTurn, QwenTurn
 <2>5. CASE wire = "ollama" /\ WireTurn(t) = <<Turn("assistant", tc)>>
  <3>1. Carries(t, tc) /\ tc \in Seq(Blocks) BY <2>2, <2>5 DEF Carries
  <3>2. Wired(t, <<Turn("assistant", tc)>>) BY <3>1, AnswerWired
  <3> QED BY <2>5, <3>2
 <2>6. /\ Wired(t, Each("assistant", hct)) /\ Wired(t, Each("assistant", htc)) /\ Wired(t, Message("assistant", htc))
       /\ Wired(t, <<Turn("assistant", tch)>>)
  <3>1. hct \in Seq(Blocks) /\ htc \in Seq(Blocks) /\ tch \in Seq(Blocks) BY <2>1 DEF Carries
  <3> QED BY <2>1, <3>1, AnswerWired
 <2> QED BY <2>4, <2>5, <2>6
<1> QED BY <1>1, <1>2

(* The history as a list of turns, each sent after the others. *)
Dialogue == Seq([role : {"user", "assistant"}, blocks : Seq(Blocks)])
SentOf(h) == FlattenSeq([i \in DOMAIN h |-> WireTurn(h[i])])

LEMMA SentAppend ==
  ASSUME Speaks, NEW h \in Dialogue, NEW t, t \in [role : {"user", "assistant"}, blocks : Seq(Blocks)],
         SentOf(h) \in Seq(Turns)
  PROVE  SentOf(Append(h, t)) = SentOf(h) \o WireTurn(t) /\ SentOf(Append(h, t)) \in Seq(Turns)
<1> DEFINE T == [role : {"user", "assistant"}, blocks : Seq(Blocks)]
           v == Append(h, t)
           f == [i \in DOMAIN h |-> WireTurn(h[i])]
           g == [i \in DOMAIN v |-> WireTurn(v[i])]
           n == Len(h)
           b == WireTurn(t)
<1>0. \A s \in T : WireTurn(s) \in Seq(Turns)
 <2>1. \A s \in T : s \in Turns /\ s.role \in {"user", "assistant"} BY DEF Turns
 <2> QED BY <2>1, TurnWired DEF Wired
<1>1. n \in Nat /\ DOMAIN h = 1..n /\ DOMAIN v = 1..(n + 1) /\ v[n + 1] = t /\ \A i \in 1..n : v[i] = h[i] /\ h[i] \in T
 <2>1. h \in Seq(T) /\ t \in T BY DEF Dialogue
 <2> HIDE DEF T
 <2> QED BY <2>1
<1>2. f \in Seq(Seq(Turns)) /\ Len(f) = n /\ b \in Seq(Turns)
 <2>1. \A i \in 1..n : f[i] \in Seq(Turns) BY <1>0, <1>1
 <2>2. f \in [1..n -> Seq(Turns)] BY <1>1, <2>1
 <2>3. b \in Seq(Turns) BY <1>0
 <2> HIDE DEF f, b, T, v, g
 <2> QED BY <1>1, <2>2, <2>3
<1>3. g = Append(f, b)
 <2> DEFINE e == Append(f, b)
 <2>1. e \in Seq(Seq(Turns)) /\ Len(e) = n + 1 /\ DOMAIN e = 1..(n + 1) /\ e[n + 1] = b /\ \A i \in 1..n : e[i] = f[i]
  <3> HIDE DEF f, b, n, T, v, g
  <3> QED BY <1>1, <1>2
 <2>2. DOMAIN g = 1..(n + 1) /\ g[n + 1] = b /\ \A i \in 1..n : g[i] = f[i]
  <3> HIDE DEF T, v
  <3> QED BY <1>1
 <2>3. \A i \in 1..(n + 1) : g[i] = e[i]
  <3> SUFFICES ASSUME NEW i \in 1..(n + 1) PROVE g[i] = e[i]
   OBVIOUS
  <3>1. n \in Nat BY <1>1
  <3> HIDE DEF f, g, e, b, n
  <3>2. i \in 1..n \/ i = n + 1 BY <3>1
  <3> QED BY <2>1, <2>2, <3>2
 <2>4. e = [i \in 1..(n + 1) |-> e[i]]
  <3> HIDE DEF e
  <3> QED BY <2>1
 <2>5. g = [i \in 1..(n + 1) |-> g[i]]
  <3> HIDE DEF T, v
  <3> QED BY <1>1
 <2> HIDE DEF f, g, e, b, n
 <2> QED BY <2>3, <2>4, <2>5 DEF e
<1>4. SentOf(v) = FlattenSeq(g) /\ SentOf(h) = FlattenSeq(f) BY DEF SentOf
<1> HIDE DEF f, g, v, b
<1>5. FlattenSeq(Append(f, b)) = FlattenSeq(f) \o b BY <1>2, FlattenAppend
<1>6. SentOf(h) \o b \in Seq(Turns) BY <1>2
<1> QED BY <1>3, <1>4, <1>5, <1>6 DEF v, b

LEMMA BlockIds ==
  ASSUME NEW s \in Seq(Blocks), NEW i \in DOMAIN s
  PROVE  s[i] \in Blocks /\ s[i].id \in Nat \X Nat /\ s[i].id[1] \in Nat
<1>1. s[i] \in Blocks OBVIOUS
<1>2. s[i].id \in Nat \X Nat BY <1>1 DEF Blocks
<1>3. s[i].id[1] \in Nat BY <1>2
<1> QED BY <1>1, <1>2, <1>3

LEMMA IdsConcat ==
  ASSUME NEW s \in Seq(Blocks), NEW t \in Seq(Blocks)
  PROVE  Ids(s) \in Seq(Nat \X Nat) /\ Len(Ids(s)) = Len(s) /\ Ids(s \o t) = Ids(s) \o Ids(t)
<1> DEFINE I == Nat \X Nat
<1>1. ASSUME NEW u \in Seq(Blocks) PROVE Ids(u) \in Seq(I) /\ Len(Ids(u)) = Len(u) /\ \A i \in 1..Len(u) : Ids(u)[i] = u[i].id
 <2>1. Len(u) \in Nat /\ DOMAIN u = 1..Len(u) /\ \A i \in 1..Len(u) : u[i].id \in I
  <3>1. Len(u) \in Nat /\ DOMAIN u = 1..Len(u) OBVIOUS
  <3> QED BY <3>1, BlockIds
 <2> HIDE DEF I
 <2>2. Ids(u) = [i \in 1..Len(u) |-> u[i].id] BY <2>1 DEF Ids
 <2> DEFINE f == Ids(u)
 <2>3. f \in [1..Len(u) -> I] /\ \A i \in 1..Len(u) : f[i] = u[i].id BY <2>1, <2>2
 <2> HIDE DEF f
 <2>4. f \in Seq(I) /\ Len(f) = Len(u) BY <2>1, <2>3
 <2> QED BY <2>3, <2>4 DEF f
<1> DEFINE a == Ids(s)
           b == Ids(t)
           u == s \o t
           c == Ids(u)
<1>2. u \in Seq(Blocks) /\ Len(u) = Len(s) + Len(t) /\ \A i \in 1..Len(u) : u[i] = IF i <= Len(s) THEN s[i] ELSE t[i - Len(s)]
 OBVIOUS
<1>3. /\ a \in Seq(I) /\ Len(a) = Len(s) /\ \A i \in 1..Len(s) : a[i] = s[i].id
      /\ b \in Seq(I) /\ Len(b) = Len(t) /\ \A i \in 1..Len(t) : b[i] = t[i].id
      /\ c \in Seq(I) /\ Len(c) = Len(u) /\ \A i \in 1..Len(u) : c[i] = u[i].id
 <2> HIDE DEF u, I
 <2> QED BY <1>1, <1>2
<1> HIDE DEF a, b, c, u, I
<1> DEFINE d == a \o b
<1>4. d \in Seq(I) /\ Len(d) = Len(a) + Len(b) /\ \A i \in 1..Len(d) : d[i] = IF i <= Len(a) THEN a[i] ELSE b[i - Len(a)]
 <2>1. a \in Seq(I) /\ b \in Seq(I) BY <1>3
 <2>2. d \in Seq(I) /\ Len(d) = Len(a) + Len(b) BY <2>1
 <2>3. \A i \in 1..(Len(a) + Len(b)) : d[i] = IF i <= Len(a) THEN a[i] ELSE b[i - Len(a)]
  BY <2>1
 <2> HIDE DEF d
 <2> QED BY <2>2, <2>3
<1> HIDE DEF d
<1>5. ASSUME NEW i \in 1..Len(c) PROVE c[i] = d[i]
 <2>1. Len(s) \in Nat /\ Len(t) \in Nat /\ Len(c) = Len(s) + Len(t) /\ Len(d) = Len(c)
  BY <1>2, <1>3, <1>4
 <2>2. CASE i <= Len(s)
  <3>1. i \in 1..Len(s) /\ i \in 1..Len(d) /\ i \in 1..Len(u) BY <1>3, <2>1, <2>2
  <3> QED BY <1>2, <1>3, <1>4, <2>2, <3>1
 <2>3. CASE i > Len(s)
  <3>1. i - Len(s) \in 1..Len(t) /\ i \in 1..Len(d) /\ i \in 1..Len(u) BY <1>3, <2>1, <2>3
  <3>2. d[i] = b[i - Len(s)] BY <1>3, <1>4, <2>1, <2>3, <3>1
  <3>3. u[i] = t[i - Len(s)] BY <1>2, <2>1, <2>3, <3>1
  <3> QED BY <1>3, <3>1, <3>2, <3>3
 <2> QED BY <2>1, <2>2, <2>3
<1>6. Len(c) = Len(d) BY <1>2, <1>3, <1>4
<1>7. c = d BY <1>3, <1>4, <1>5, <1>6, SeqEqual
<1> QED BY <1>3, <1>7 DEF a, b, c, d, u, I

(* Parts go out in the order of their rounds. *)
InOrder(parts, r) ==
  /\ \A i, j \in DOMAIN parts : i <= j => parts[i].id[1] <= parts[j].id[1]
  /\ \A i \in DOMAIN parts : parts[i].id[1] <= r

OfRound(s, r) == \A i \in DOMAIN s : s[i].id[1] = r

LEMMA FromRound ==
  ASSUME NEW p, NEW s, NEW r, From(p, s), OfRound(s, r)
  PROVE  OfRound(p, r)
BY DEF From, OfRound

LEMMA OrderGrows ==
  ASSUME NEW r \in Nat, NEW q \in Nat, r <= q, NEW p \in Seq(Blocks), NEW s \in Seq(Blocks), InOrder(p, r), OfRound(s, q)
  PROVE  InOrder(p \o s, q)
<1> DEFINE o == p \o s
           n == Len(p)
<1>1. n \in Nat /\ Len(s) \in Nat /\ DOMAIN p = 1..n /\ DOMAIN s = 1..Len(s) /\ DOMAIN o = 1..(n + Len(s))
 OBVIOUS
<1>2. \A i \in DOMAIN o : IF i <= n THEN o[i] = p[i] ELSE o[i] = s[i - n] OBVIOUS
<1>3. \A i \in DOMAIN p : p[i].id[1] \in Nat BY BlockIds
<1> HIDE DEF o, n
<1>4. ASSUME NEW i \in DOMAIN o PROVE \/ i \in DOMAIN p /\ o[i] = p[i] /\ o[i].id[1] \in Nat /\ o[i].id[1] <= r
                                      \/ i > n /\ o[i].id[1] = q
 <2>1. CASE i <= n
  <3>1. i \in DOMAIN p /\ o[i] = p[i] BY <1>1, <1>2, <2>1
  <3> QED BY <1>3, <3>1 DEF InOrder
 <2>2. CASE i > n
  <3>1. i - n \in DOMAIN s /\ o[i] = s[i - n] BY <1>1, <1>2, <2>2
  <3> QED BY <2>2, <3>1 DEF OfRound
 <2> QED BY <1>1, <2>1, <2>2
<1>5. ASSUME NEW i \in DOMAIN o, NEW j \in DOMAIN o, i <= j PROVE o[i].id[1] <= o[j].id[1]
 <2>1. CASE i \in DOMAIN p /\ o[i] = p[i] /\ j \in DOMAIN p /\ o[j] = p[j]
  BY <1>5, <2>1 DEF InOrder
 <2>2. CASE o[i].id[1] \in Nat /\ o[i].id[1] <= r /\ o[j].id[1] = q BY <2>2
 <2>3. CASE i > n /\ j \in DOMAIN p BY <1>1, <1>5, <2>3
 <2>4. CASE o[i].id[1] = q /\ o[j].id[1] = q BY <2>4
 <2> QED BY <1>4, <2>1, <2>2, <2>3, <2>4
<1>6. ASSUME NEW i \in DOMAIN o PROVE o[i].id[1] <= q
 BY <1>4
<1>7. InOrder(o, q) BY <1>5, <1>6 DEF InOrder
<1> QED BY <1>7 DEF o

(* A turn is added: what goes out is what went out, and the turn. *)
Outgoing(h) == PartsOf(SentOf(h))

Going(h, r) ==
  /\ h \in Dialogue /\ SentOf(h) \in Seq(Turns) /\ r \in Nat /\ InOrder(Outgoing(h), r)
  /\ wire # "ollama" => OfKind(Outgoing(h), "thought") = OfKind(PartsOf(h), "thought")

Adds(h, t) ==
  /\ Carries(t, PartsOf(WireTurn(t))) /\ Outgoing(h) \in Seq(Blocks)
  /\ Outgoing(Append(h, t)) = Outgoing(h) \o PartsOf(WireTurn(t))
  /\ \A k : OfKind(Outgoing(Append(h, t)), k) = OfKind(Outgoing(h), k) \o OfKind(PartsOf(WireTurn(t)), k)
  /\ From(Outgoing(h), Outgoing(Append(h, t)))

LEMMA HistoryGrows ==
  ASSUME Speaks, NEW h, NEW r, Going(h, r), NEW q \in Nat, r <= q,
         NEW t \in [role : {"user", "assistant"}, blocks : Seq(Blocks)], OfRound(t.blocks, q),
         t.role = "user" => NoneOf("thought", t.blocks)
  PROVE  Going(Append(h, t), q) /\ Adds(h, t)
<1> DEFINE w == SentOf(h)
           v == SentOf(Append(h, t))
           p == PartsOf(WireTurn(t))
           o == PartsOf(w)
           b == t.blocks
<1>1. t \in Turns /\ t.role \in {"user", "assistant"} /\ b \in Seq(Blocks) BY DEF Turns
<1>2. WireTurn(t) \in Seq(Turns) /\ Carries(t, p) BY <1>1, TurnWired DEF Wired
<1>3. v = w \o WireTurn(t) /\ w \in Seq(Turns) /\ v \in Seq(Turns) BY SentAppend DEF Going
<1>4. PartsOf(v) = o \o p BY <1>2, <1>3, PartsConcat
<1>5. o \in Seq(Blocks) /\ p \in Seq(Blocks) BY <1>2, <1>3, PartsTyped
<1>6. \A k : OfKind(o \o p, k) = OfKind(o, k) \o OfKind(p, k) BY <1>5, KindConcat
<1>7. From(p, b) BY <1>2 DEF Carries
<1>8. InOrder(o \o p, q)
 <2>1. InOrder(o, r) /\ r \in Nat BY DEF Going, Outgoing
 <2> HIDE DEF o, p, b
 <2>2. OfRound(p, q) BY <1>7, FromRound DEF b
 <2> QED BY <1>5, <2>1, <2>2, OrderGrows
<1>9. From(o, o \o p)
 <2> HIDE DEF o, p
 <2>1. \A i \in DOMAIN o : i \in DOMAIN (o \o p) /\ (o \o p)[i] = o[i] BY <1>5
 <2> QED BY <2>1 DEF From
<1>10. Append(h, t) \in Dialogue /\ h \in Seq(Turns)
 <2> DEFINE T == [role : {"user", "assistant"}, blocks : Seq(Blocks)]
 <2>1. h \in Seq(T) /\ T \subseteq Turns BY DEF Going, Dialogue, Turns
 <2>2. Append(h, t) \in Seq(T)
  <3> HIDE DEF T
  <3>1. t \in T BY DEF T
  <3> QED BY <2>1, <3>1
 <2>3. h \in Seq(Turns)
  <3> HIDE DEF T
  <3> QED BY <2>1
 <2> QED BY <2>2, <2>3 DEF Dialogue
<1>11. wire # "ollama" => OfKind(o \o p, "thought") = OfKind(PartsOf(Append(h, t)), "thought")
 <2> SUFFICES ASSUME wire # "ollama" PROVE OfKind(o \o p, "thought") = OfKind(PartsOf(Append(h, t)), "thought")
  OBVIOUS
 <2>1. PartsOf(Append(h, t)) = PartsOf(h) \o b /\ PartsOf(h) \in Seq(Blocks)
  BY <1>1, <1>10, PartsAppend, PartsTyped
 <2>2. OfKind(PartsOf(h) \o b, "thought") = OfKind(PartsOf(h), "thought") \o OfKind(b, "thought")
  BY <1>1, <2>1, KindConcat
 <2>3. OfKind(o, "thought") = OfKind(PartsOf(h), "thought") BY DEF Going, Outgoing
 <2>4. OfKind(p, "thought") = OfKind(b, "thought")
  <3>1. CASE t.role = "user"
   <4>1. OfKind(b, "thought") = <<>> BY <1>1, <3>1, KindNone
   <4> QED BY <1>2, <3>1, <4>1 DEF Carries
  <3>2. CASE t.role = "assistant" BY <1>2, <3>2 DEF Carries
  <3> QED BY <1>1, <3>1, <3>2
 <2> QED BY <1>6, <2>1, <2>2, <2>3, <2>4
<1>12. Outgoing(Append(h, t)) = o \o p /\ Outgoing(h) = o BY <1>4 DEF Outgoing
<1>13. Going(Append(h, t), q) BY <1>3, <1>8, <1>10, <1>11, <1>12 DEF Going
<1>14. Adds(h, t) BY <1>2, <1>5, <1>6, <1>9, <1>12 DEF Adds
<1> QED BY <1>13, <1>14

(* The calls of the last answer and the results they have so far. *)
PendingOf(p, r) ==
  /\ p \in [blocks : Seq(Blocks), results : Seq(Blocks)]
  /\ AllOf("call", p.blocks) /\ OfRound(p.blocks, r)
  /\ Len(p.results) <= Len(p.blocks)
  /\ \A i \in DOMAIN p.results : p.results[i] = Block("result", p.blocks[i].id)

Answered(o, later) == Ids(OfKind(o, "call")) = Ids(OfKind(o, "result")) \o Ids(later)
Carried(o, ids) == ids \subseteq {o[i].id : i \in DOMAIN o}

MessagesInv ==
  /\ Speaks /\ Going(history, round) /\ PendingOf(pending, round)
  /\ Answered(Outgoing(history), pending.blocks) /\ Carried(Outgoing(history), executed)

LEMMA InvAfter ==
  ASSUME wire' = wire, Speaks, Going(history', round'), PendingOf(pending', round'),
         Answered(Outgoing(history'), pending'.blocks), Carried(Outgoing(history'), executed')
  PROVE  MessagesInv'
<1>1. SentOf(history)' = SentOf(history')
 <2>1. \A t : WireTurn(t)' = WireTurn(t) BY DEF WireTurn
 <2>2. [i \in DOMAIN history |-> WireTurn(history[i])]' = [i \in DOMAIN history' |-> WireTurn(history'[i])]
  BY <2>1
 <2> QED BY <2>2 DEF SentOf
<1>2. Outgoing(history)' = Outgoing(history') BY <1>1 DEF Outgoing
<1>3. Going(history, round)' BY <1>1, <1>2 DEF Going
<1>4. Answered(Outgoing(history), pending.blocks)' BY <1>2 DEF Answered
<1>5. Carried(Outgoing(history), executed)' BY <1>2 DEF Carried
<1>6. Speaks' BY DEF Speaks
<1>7. PendingOf(pending, round)' BY DEF PendingOf
<1> QED BY <1>3, <1>4, <1>5, <1>6, <1>7 DEF MessagesInv

LEMMA NothingSent ==
  /\ <<>> \in Dialogue /\ Outgoing(<<>>) = <<>> /\ Going(<<>>, 0)
<1>1. [i \in DOMAIN <<>> |-> WireTurn((<<>>)[i])] = <<>> OBVIOUS
<1>2. SentOf(<<>>) = <<>> BY <1>1, FlattenFacts DEF SentOf
<1>3. Outgoing(<<>>) = <<>> /\ PartsOf(<<>>) = <<>> BY <1>2, PartsTyped DEF Outgoing
<1>4. <<>> \in Dialogue BY EmptySeq DEF Dialogue
<1>5. SentOf(<<>>) \in Seq(Turns) BY <1>2, EmptySeq
<1>6. InOrder(<<>>, 0) BY DEF InOrder
<1> QED BY <1>3, <1>4, <1>5, <1>6 DEF Going

LEMMA Spoken ==
  ASSUME NEW r \in {"user", "assistant"}, NEW b \in Seq(Blocks)
  PROVE  Turn(r, b) \in [role : {"user", "assistant"}, blocks : Seq(Blocks)] /\ Turn(r, b).role = r /\ Turn(r, b).blocks = b
BY DEF Turn

LEMMA OneBlock ==
  ASSUME NEW k \in {"text", "thought"}, NEW r \in Nat, NEW i \in Nat
  PROVE  /\ <<Block(k, <<r, i>>)>> \in Seq(Blocks) /\ OfRound(<<Block(k, <<r, i>>)>>, r) /\ AllOf(k, <<Block(k, <<r, i>>)>>)
         /\ NoneOf("call", <<Block(k, <<r, i>>)>>)
<1>1. Block(k, <<r, i>>) \in Blocks /\ Block(k, <<r, i>>).kind = k /\ Block(k, <<r, i>>).id[1] = r
 BY DEF Block, Blocks
<1> DEFINE b == Block(k, <<r, i>>)
<1> HIDE DEF b
<1>2. b \in Blocks /\ b.kind = k /\ b.id[1] = r BY <1>1 DEF b
<1>3. <<b>> \in Seq(Blocks) /\ \A j \in DOMAIN <<b>> : (<<b>>)[j] = b BY <1>2
<1>4. OfRound(<<b>>, r) /\ AllOf(k, <<b>>) /\ NoneOf("call", <<b>>)
 BY <1>2, <1>3 DEF OfRound, AllOf, NoneOf
<1> QED BY <1>3, <1>4 DEF b

LEMMA BeginMessages ==
  ASSUME MessagesConstants, MessagesInit
  PROVE  MessagesInv
<1> DEFINE b == <<Block("text", <<0, 0>>)>>
           t == Turn("user", b)
<1>1. Speaks BY DEF MessagesConstants, MessagesInit, Speaks
<1>2. b \in Seq(Blocks) /\ OfRound(b, 0) /\ AllOf("text", b) BY OneBlock
<1>3. history = <<t>> /\ round = 0 /\ pending = NoCalls /\ executed = {} BY DEF MessagesInit
<1> HIDE DEF b
<1>4. t \in [role : {"user", "assistant"}, blocks : Seq(Blocks)] /\ t.role = "user" /\ t.blocks = b
 BY <1>2, Spoken
<1>5. NoneOf("thought", b) /\ NoneOf("result", b) BY <1>2 DEF AllOf, NoneOf
<1> HIDE DEF t
<1>6. Going(Append(<<>>, t), 0) /\ Adds(<<>>, t)
 <2>1. OfRound(t.blocks, 0) /\ NoneOf("thought", t.blocks) BY <1>2, <1>4, <1>5
 <2>2. Going(<<>>, 0) /\ 0 \in Nat /\ 0 <= 0 BY NothingSent
 <2> QED BY <1>1, <1>4, <2>1, <2>2, HistoryGrows
<1>7. Append(<<>>, t) = history BY <1>3
<1>8. /\ OfKind(Outgoing(history), "call") = OfKind(<<>>, "call") \o OfKind(PartsOf(WireTurn(t)), "call")
      /\ OfKind(Outgoing(history), "result") = OfKind(<<>>, "result") \o OfKind(PartsOf(WireTurn(t)), "result")
 BY <1>6, <1>7, NothingSent DEF Adds
<1>9. OfKind(PartsOf(WireTurn(t)), "call") = <<>> /\ OfKind(PartsOf(WireTurn(t)), "result") = <<>>
 <2>1. OfKind(b, "result") = <<>> BY <1>2, <1>5, KindNone
 <2> QED BY <1>4, <1>6, <2>1 DEF Adds, Carries
<1>10. OfKind(Outgoing(history), "call") = <<>> /\ OfKind(Outgoing(history), "result") = <<>>
 BY <1>8, <1>9, KindEmpty
<1>11. Ids(<<>>) = <<>> BY DEF Ids
<1>12. Answered(Outgoing(history), pending.blocks)
 <2>1. pending.blocks = <<>> /\ <<>> = <<>> \o <<>> BY <1>3 DEF NoCalls
 <2> QED BY <1>10, <1>11, <2>1 DEF Answered
<1>13. PendingOf(pending, round) BY <1>3, EmptySeq DEF PendingOf, NoCalls, AllOf, OfRound
<1>14. Carried(Outgoing(history), executed) BY <1>3 DEF Carried
<1> QED BY <1>1, <1>3, <1>6, <1>7, <1>12, <1>13, <1>14 DEF MessagesInv

(* The blocks of an answer. *)
LEMMA AnswerBlocks ==
  ASSUME round \in Nat, NEW n \in Nat, NEW s \in AnswersWith(n)
  PROVE  s \in Seq(Blocks) /\ OfRound(s, round + 1) /\ (n = 0 => NoneOf("call", s))
<1> DEFINE q == round + 1
           thought == <<Block("thought", <<q, 0>>)>>
           text == <<Block("text", <<q, 0>>)>>
           calls == [i \in 1..n |-> Block("call", <<q, i>>)]
<1>0. q \in Nat OBVIOUS
<1>1. /\ thought \in Seq(Blocks) /\ OfRound(thought, q) /\ NoneOf("call", thought)
      /\ text \in Seq(Blocks) /\ OfRound(text, q) /\ NoneOf("call", text)
 BY <1>0, OneBlock
<1>2. calls \in Seq(Blocks) /\ OfRound(calls, q) /\ (n = 0 => NoneOf("call", calls))
 <2>1. \A i \in 1..n : Block("call", <<q, i>>) \in Blocks /\ Block("call", <<q, i>>).id[1] = q
  BY <1>0 DEF Block, Blocks
 <2>2. calls \in [1..n -> Blocks] /\ DOMAIN calls = 1..n /\ \A i \in 1..n : calls[i].id[1] = q
  BY <2>1
 <2> HIDE DEF calls
 <2>3. calls \in Seq(Blocks) BY <2>2
 <2>4. OfRound(calls, q) BY <2>2 DEF OfRound
 <2>5. n = 0 => NoneOf("call", calls) BY <2>2 DEF NoneOf
 <2> QED BY <2>3, <2>4, <2>5
<1>3. s \in {<<>> \o calls, thought \o calls, (thought \o text) \o calls, (thought \o calls) \o text}
 BY DEF AnswersWith
<1> HIDE DEF thought, text, calls, q
<1>4. ASSUME NEW a \in Seq(Blocks), NEW b \in Seq(Blocks)
      PROVE  /\ a \o b \in Seq(Blocks)
             /\ (OfRound(a, q) /\ OfRound(b, q)) => OfRound(a \o b, q)
             /\ (NoneOf("call", a) /\ NoneOf("call", b)) => NoneOf("call", a \o b)
 <2> DEFINE c == a \o b
 <2>1. c \in Seq(Blocks) OBVIOUS
 <2>2. \A i \in DOMAIN c : (i \in DOMAIN a /\ c[i] = a[i]) \/ (i - Len(a) \in DOMAIN b /\ c[i] = b[i - Len(a)])
  OBVIOUS
 <2> HIDE DEF c
 <2>3. (OfRound(a, q) /\ OfRound(b, q)) => OfRound(c, q) BY <2>2 DEF OfRound
 <2>4. (NoneOf("call", a) /\ NoneOf("call", b)) => NoneOf("call", c) BY <2>2 DEF NoneOf
 <2> QED BY <2>1, <2>3, <2>4 DEF c
<1>5. <<>> \o calls = calls BY <1>2
<1>6. s \in Seq(Blocks) /\ OfRound(s, q) /\ (n = 0 => NoneOf("call", s))
 <2>1. CASE s = calls BY <1>2, <2>1
 <2>2. CASE s = thought \o calls BY <1>1, <1>2, <1>4, <2>2
 <2>3. CASE s = (thought \o text) \o calls BY <1>1, <1>2, <1>4, <2>3
 <2>4. CASE s = (thought \o calls) \o text BY <1>1, <1>2, <1>4, <2>4
 <2> QED BY <1>3, <1>5, <2>1, <2>2, <2>3, <2>4
<1> QED BY <1>6 DEF q

(* An answer goes into the history: its calls are those that wait for a       *)
(* result.                                                                    *)
LEMMA AnswerGoes ==
  ASSUME MessagesInv, pending = NoCalls, NEW s \in Seq(Blocks), OfRound(s, round + 1)
  PROVE  /\ Going(Append(history, Turn("assistant", s)), round + 1)
         /\ Answered(Outgoing(Append(history, Turn("assistant", s))), OfKind(s, "call"))
         /\ Carried(Outgoing(Append(history, Turn("assistant", s))), executed)
<1> DEFINE t == Turn("assistant", s)
           h == Append(history, t)
           o == Outgoing(history)
           p == PartsOf(WireTurn(t))
<1>1. t \in [role : {"user", "assistant"}, blocks : Seq(Blocks)] /\ t.role = "assistant" /\ t.blocks = s
 BY Spoken
<1>2. /\ Speaks /\ Going(history, round) /\ round \in Nat /\ Answered(Outgoing(history), pending.blocks)
      /\ Carried(Outgoing(history), executed)
 BY DEF MessagesInv, Going
<1> HIDE DEF t
<1>3. Going(h, round + 1) /\ Adds(history, t)
 <2>1. round + 1 \in Nat /\ round <= round + 1 BY <1>2
 <2>2. OfRound(t.blocks, round + 1) /\ (t.role = "user" => NoneOf("thought", t.blocks)) BY <1>1
 <2> QED BY <1>1, <1>2, <2>1, <2>2, HistoryGrows
<1>4. /\ OfKind(Outgoing(h), "call") = OfKind(o, "call") \o OfKind(s, "call")
      /\ OfKind(Outgoing(h), "result") = OfKind(o, "result") \o <<>> /\ From(o, Outgoing(h)) /\ o \in Seq(Blocks)
 BY <1>1, <1>3 DEF Adds, Carries
<1> HIDE DEF h, o
<1>5. OfKind(o, "call") \in Seq(Blocks) /\ OfKind(o, "result") \in Seq(Blocks) /\ OfKind(s, "call") \in Seq(Blocks)
 BY <1>4, KindTyped
<1>6. Answered(Outgoing(h), OfKind(s, "call"))
 <2> DEFINE c == OfKind(o, "call")
            r == OfKind(o, "result")
            d == OfKind(s, "call")
 <2>1. Ids(c) = Ids(r) \o Ids(<<>>) BY <1>2 DEF Answered, NoCalls, o
 <2>2. Ids(c \o d) = Ids(c) \o Ids(d) /\ Ids(r) \in Seq(Nat \X Nat) BY <1>5, IdsConcat
 <2>3. Ids(<<>>) = <<>> BY DEF Ids
 <2>4. OfKind(Outgoing(h), "call") = c \o d /\ OfKind(Outgoing(h), "result") = r
  <3> HIDE DEF c, d, r
  <3>1. r \in Seq(Blocks) BY <1>5 DEF r
  <3>2. r \o <<>> = r BY <3>1
  <3> QED BY <1>4, <3>2 DEF c, d, r
 <2>5. Ids(r) \o <<>> = Ids(r) BY <2>2
 <2> HIDE DEF c, d, r
 <2>6. Ids(OfKind(Outgoing(h), "call")) = Ids(OfKind(Outgoing(h), "result")) \o Ids(d)
  BY <2>1, <2>2, <2>3, <2>4, <2>5
 <2> QED BY <2>6 DEF Answered, d
<1>7. Carried(Outgoing(h), executed) BY <1>2, <1>4 DEF Carried, From, o
<1> QED BY <1>3, <1>6, <1>7 DEF h, t

LEMMA CallsToolsKeeps ==
  ASSUME MessagesConstants, MessagesInv, CallsTools
  PROVE  MessagesInv'
<1>1. PICK n \in 1..MaxCalls : \E s \in AnswersWith(n) :
           /\ history' = Append(history, Turn("assistant", s))
           /\ pending' = [blocks |-> OfKind(s, "call"), results |-> <<>>]
 BY DEF CallsTools
<1>2. PICK s \in AnswersWith(n) :
           /\ history' = Append(history, Turn("assistant", s))
           /\ pending' = [blocks |-> OfKind(s, "call"), results |-> <<>>]
 BY <1>1
<1>3. round \in Nat /\ n \in Nat /\ pending = NoCalls /\ wire' = wire /\ executed' = executed /\ round' = round + 1 /\ Speaks
 BY DEF CallsTools, MessagesInv, Going, MessagesConstants
<1>4. s \in Seq(Blocks) /\ OfRound(s, round + 1) BY <1>3, AnswerBlocks
<1>5. /\ Going(history', round') /\ Answered(Outgoing(history'), OfKind(s, "call")) /\ Carried(Outgoing(history'), executed')
 BY <1>2, <1>3, <1>4, AnswerGoes
<1> DEFINE c == OfKind(s, "call")
<1>6. c \in Seq(Blocks) /\ AllOf("call", c) /\ From(c, s) BY <1>4, KindTyped
<1>7. OfRound(c, round') BY <1>3, <1>4, <1>6, FromRound
<1>8. pending' = [blocks |-> c, results |-> <<>>] BY <1>2
<1> HIDE DEF c
<1>9. PendingOf(pending', round')
 <2>1. Len(<<>>) <= Len(c) /\ <<>> \in Seq(Blocks) BY <1>6, EmptySeq
 <2> QED BY <1>6, <1>7, <1>8, <2>1 DEF PendingOf
<1>10. Answered(Outgoing(history'), pending'.blocks) BY <1>5, <1>8 DEF c
<1> QED BY <1>3, <1>5, <1>9, <1>10, InvAfter

(* A call's result: its id is the call's. *)
LEMMA WaitingSent ==
  ASSUME MessagesInv, NEW i \in DOMAIN pending.blocks
  PROVE  pending.blocks[i].id \in {Outgoing(history)[j].id : j \in DOMAIN Outgoing(history)}
<1> DEFINE o == Outgoing(history)
           c == OfKind(o, "call")
           r == OfKind(o, "result")
           w == pending.blocks
<1>1. o \in Seq(Blocks) /\ w \in Seq(Blocks)
 <2>1. o \in Seq(Blocks) BY PartsTyped DEF MessagesInv, Going, Outgoing
 <2>2. w \in Seq(Blocks) BY DEF MessagesInv, PendingOf
 <2> QED BY <2>1, <2>2
<1>2. Ids(c) = Ids(r) \o Ids(w) BY DEF MessagesInv, Answered
<1> HIDE DEF o, w
<1>3. c \in Seq(Blocks) /\ r \in Seq(Blocks) /\ From(c, o) BY <1>1, KindTyped
<1>4. i \in DOMAIN w BY DEF w
<1> HIDE DEF c, r
<1>5. /\ Ids(r) \in Seq(Nat \X Nat) /\ Len(Ids(r)) = Len(r) /\ Ids(w) \in Seq(Nat \X Nat) /\ Len(Ids(w)) = Len(w)
      /\ Len(Ids(c)) = Len(c)
 BY <1>1, <1>3, IdsConcat
<1> DEFINE a == Ids(r)
           b == Ids(w)
           k == Len(a) + i
<1>6. b[i] = w[i].id /\ DOMAIN b = DOMAIN w BY <1>4 DEF Ids
<1> HIDE DEF a, b
<1>7. a \in Seq(Nat \X Nat) /\ b \in Seq(Nat \X Nat) /\ i \in DOMAIN b
 BY <1>4, <1>5, <1>6 DEF a, b
<1>8. k \in 1..Len(a \o b) /\ (a \o b)[k] = b[i] /\ Len(a \o b) \in Nat BY <1>7
<1> HIDE DEF k
<1>9. Ids(c)[k] = w[i].id /\ k \in DOMAIN c
 <2>1. Ids(c) = a \o b BY <1>2 DEF a, b
 <2>2. Len(c) = Len(a \o b) /\ DOMAIN c = 1..Len(c) BY <1>3, <1>5, <2>1
 <2> QED BY <1>6, <1>8, <2>1, <2>2
<1>10. Ids(c)[k] = c[k].id BY <1>9 DEF Ids
<1>11. PICK j \in DOMAIN o : c[k] = o[j] BY <1>3, <1>9 DEF From
<1> QED BY <1>9, <1>10, <1>11 DEF o, w

LEMMA ExecutesKeeps ==
  ASSUME MessagesInv, Executes
  PROVE  MessagesInv'
<1> DEFINE w == pending.blocks
           r == pending.results
           m == Len(w)
           n == Len(r)
           left == SubSeq(w, n + 1, m)
<1>1. /\ w \in Seq(Blocks) /\ r \in Seq(Blocks) /\ n <= m /\ m \in Nat /\ n \in Nat
      /\ \A i \in 1..n : r[i] = Block("result", w[i].id)
 <2>1. w \in Seq(Blocks) /\ r \in Seq(Blocks) /\ n <= m BY DEF MessagesInv, PendingOf
 <2>2. m \in Nat /\ n \in Nat /\ DOMAIN r = 1..n BY <2>1
 <2> QED BY <2>1, <2>2 DEF MessagesInv, PendingOf
<1>2. left # <<>> /\ Unanswered = left BY DEF Executes, Unanswered
<1>3. PICK failed \in BOOLEAN :
         pending' = [pending EXCEPT !.results = @ \o ResultsOf(IF failed THEN Unanswered ELSE <<Head(Unanswered)>>)]
 BY DEF Executes
<1>4. wire' = wire /\ history' = history /\ round' = round /\ executed' = executed \cup {Head(Unanswered).id}
 BY DEF Executes
<1> DEFINE calls == IF failed THEN Unanswered ELSE <<Head(Unanswered)>>
           u == ResultsOf(calls)
<1>5. pending' = [blocks |-> w, results |-> r \o u] BY <1>3 DEF MessagesInv, PendingOf
<1> HIDE DEF w, r
<1>6. n < m /\ n + 1 \in DOMAIN w
 <2>1. ~ (n < m) => left = <<>> BY <1>1
 <2>2. DOMAIN w = 1..m BY <1>1
 <2> QED BY <1>1, <1>2, <2>1, <2>2
<1>7. left \in Seq(Blocks) /\ Len(left) = m - n /\ \A i \in 1..(m - n) : left[i] = w[n + i]
 <2>1. n + 1 \in Nat /\ n + 1 \in 1..m /\ m \in 1..m /\ n + 1 <= m BY <1>1, <1>6
 <2>2. left \in Seq(Blocks) /\ Len(left) = m - n BY <1>1, <2>1
 <2>3. \A i \in 1..(m - n) : left[i] = w[n + i] BY <1>1, <2>1
 <2> QED BY <2>2, <2>3
<1> HIDE DEF left, m, n
<1>8. Head(left) = w[n + 1] /\ Head(left) \in Blocks
 <2>1. left[1] = w[n + 1] /\ Head(left) = left[1] /\ left[1] \in Blocks BY <1>1, <1>6, <1>7
 <2> QED BY <2>1
<1>9. calls \in Seq(Blocks) /\ Len(calls) \in 1..(m - n) /\ \A i \in 1..Len(calls) : calls[i] = w[n + i]
 <2>1. CASE failed
  <3>1. calls = left BY <1>2, <2>1
  <3>2. m - n \in 1..(m - n) BY <1>1, <1>6
  <3> HIDE DEF calls
  <3> QED BY <1>7, <3>1, <3>2
 <2>2. CASE ~failed
  <3>1. calls = <<Head(left)>> BY <1>2, <2>2
  <3>2. 1 \in 1..(m - n) BY <1>1, <1>6
  <3> HIDE DEF calls
  <3> QED BY <1>8, <3>1, <3>2
 <2> QED BY <2>1, <2>2
<1> HIDE DEF calls
<1>10. u \in Seq(Blocks) /\ Len(u) = Len(calls) /\ \A i \in 1..Len(calls) : u[i] = Block("result", w[n + i].id)
 <2>1. DOMAIN calls = 1..Len(calls) /\ Len(calls) \in Nat BY <1>9
 <2>2. u = [i \in 1..Len(calls) |-> Block("result", calls[i].id)] BY <2>1 DEF ResultsOf
 <2>3. \A i \in 1..Len(calls) : Block("result", calls[i].id) \in Blocks
  <3>1. \A i \in 1..Len(calls) : calls[i].id \in Nat \X Nat BY <1>9, <2>1, BlockIds
  <3> QED BY <3>1 DEF Block, Blocks
 <2>4. u \in [1..Len(calls) -> Blocks] BY <2>2, <2>3
 <2>5. u \in Seq(Blocks) /\ Len(u) = Len(calls)
  <3> HIDE DEF u
  <3> QED BY <2>1, <2>4
 <2>6. \A i \in 1..Len(calls) : u[i] = Block("result", w[n + i].id) BY <1>9, <2>2
 <2> QED BY <2>5, <2>6
<1> DEFINE v == r \o u
<1>11. v \in Seq(Blocks) /\ Len(v) = n + Len(calls) /\ \A i \in 1..(n + Len(calls)) : v[i] = Block("result", w[i].id)
 <2> HIDE DEF u
 <2>0. r \in Seq(Blocks) /\ u \in Seq(Blocks) /\ Len(r) = n /\ Len(u) = Len(calls)
  BY <1>1, <1>10 DEF n
 <2>1. v \in Seq(Blocks) /\ Len(v) = n + Len(calls) BY <2>0
 <2>9. Len(calls) \in Nat /\ n \in Nat BY <1>1, <1>9
 <2>2. ASSUME NEW i \in 1..(n + Len(calls)) PROVE v[i] = Block("result", w[i].id)
  <3>1. CASE i <= n
   <4>1. v[i] = r[i] /\ i \in 1..n BY <1>1, <1>9, <1>10, <3>1 DEF n
   <4> QED BY <1>1, <4>1
  <3>2. CASE i > n
   <4>1. v[i] = u[i - n] /\ i - n \in 1..Len(calls) /\ n + (i - n) = i
    BY <1>1, <1>9, <1>10, <3>2 DEF n
   <4> QED BY <1>10, <4>1
  <3>3. i <= n \/ i > n BY <2>9
  <3> QED BY <3>1, <3>2, <3>3
 <2> QED BY <2>1, <2>2
<1> HIDE DEF v, u
<1>12. PendingOf(pending', round')
 <2>1. AllOf("call", w) /\ OfRound(w, round') BY <1>4 DEF MessagesInv, PendingOf, w
 <2>2. pending' = [blocks |-> w, results |-> v] BY <1>5 DEF v
 <2>3. Len(v) <= Len(w) /\ DOMAIN v = 1..(n + Len(calls))
  <3>1. Len(w) = m /\ DOMAIN v = 1..Len(v) BY <1>11 DEF m
  <3> QED BY <1>1, <1>9, <1>11, <3>1
 <2> QED BY <1>1, <1>11, <2>1, <2>2, <2>3 DEF PendingOf
<1>13. Carried(Outgoing(history'), executed')
 <2>1. w[n + 1].id \in {Outgoing(history)[j].id : j \in DOMAIN Outgoing(history)}
  BY <1>6, WaitingSent DEF w
 <2>2. Head(Unanswered).id = w[n + 1].id BY <1>2, <1>8
 <2>3. Carried(Outgoing(history), executed) BY DEF MessagesInv
 <2> QED BY <1>4, <2>1, <2>2, <2>3 DEF Carried
<1>14. Going(history', round') /\ Answered(Outgoing(history'), pending'.blocks) /\ Speaks
 <2>1. pending'.blocks = pending.blocks BY <1>5 DEF w
 <2> QED BY <1>4, <2>1 DEF MessagesInv
<1> QED BY <1>4, <1>12, <1>13, <1>14, InvAfter

(* All calls have their results: they go back, in the calls' order. *)
LEMMA ContinuesKeeps ==
  ASSUME MessagesInv, Continues
  PROVE  MessagesInv'
<1> DEFINE w == pending.blocks
           r == pending.results
           t == Turn("user", r)
           o == Outgoing(history)
           h == Append(history, t)
<1>1. /\ w \in Seq(Blocks) /\ r \in Seq(Blocks) /\ Len(r) <= Len(w) /\ OfRound(w, round)
      /\ \A i \in DOMAIN r : r[i] = Block("result", w[i].id)
 BY DEF MessagesInv, PendingOf
<1>2. Len(w) \in Nat /\ Len(r) \in Nat /\ DOMAIN w = 1..Len(w) /\ DOMAIN r = 1..Len(r) BY <1>1
<1>3. Len(r) = Len(w)
 <2>1. SubSeq(w, Len(r) + 1, Len(w)) = <<>> BY DEF Continues, Unanswered
 <2> DEFINE n == Len(r)
            m == Len(w)
 <2>2. n \in Nat /\ m \in Nat /\ n <= m /\ SubSeq(w, n + 1, m) = <<>> BY <1>1, <1>2, <2>1
 <2> HIDE DEF w, r, n, m
 <2>3. ASSUME n < m PROVE FALSE
  <3>1. n + 1 \in 1..Len(w) /\ m \in 1..Len(w) /\ n + 1 <= m BY <2>2, <2>3 DEF m
  <3>2. Len(SubSeq(w, n + 1, m)) = m - n BY <1>1, <2>2, <3>1
  <3>3. Len(<<>>) = 0 /\ SubSeq(w, n + 1, m) = <<>> BY <2>2
  <3>4. m - n = 0 BY <3>2, <3>3
  <3> QED BY <2>2, <2>3, <3>4
 <2>4. n = m BY <2>2, <2>3
 <2> QED BY <2>4 DEF n, m
<1>4. wire' = wire /\ history' = h /\ round' = round /\ executed' = executed /\ pending' = NoCalls
 BY DEF Continues
<1>5. Speaks /\ Going(history, round) /\ round \in Nat /\ Answered(o, w) /\ Carried(o, executed)
 BY DEF MessagesInv, Going
<1> HIDE DEF w, r
<1>6. Ids(r) = Ids(w)
 <2>1. \A i \in 1..Len(w) : r[i].id = w[i].id BY <1>1, <1>2, <1>3 DEF Block
 <2>2. Ids(r) = [i \in 1..Len(w) |-> r[i].id] /\ Ids(w) = [i \in 1..Len(w) |-> w[i].id]
  BY <1>2, <1>3 DEF Ids
 <2> QED BY <2>1, <2>2
<1>7. OfRound(r, round) /\ AllOf("result", r)
 <2>1. \A i \in DOMAIN r : r[i].kind = "result" /\ r[i].id = w[i].id /\ i \in DOMAIN w
  BY <1>1, <1>2, <1>3 DEF Block
 <2> QED BY <1>1, <2>1 DEF OfRound, AllOf
<1>8. t \in [role : {"user", "assistant"}, blocks : Seq(Blocks)] /\ t.role = "user" /\ t.blocks = r
 BY <1>1, Spoken
<1> HIDE DEF t
<1>9. Going(h, round) /\ Adds(history, t)
 <2>1. OfRound(t.blocks, round) /\ NoneOf("thought", t.blocks) /\ round <= round
  BY <1>5, <1>7, <1>8 DEF AllOf, NoneOf
 <2> QED BY <1>5, <1>8, <2>1, HistoryGrows
<1>10. OfKind(r, "result") = r BY <1>1, <1>7, KindAll
<1>11. /\ OfKind(Outgoing(h), "call") = OfKind(o, "call") \o <<>> /\ OfKind(Outgoing(h), "result") = OfKind(o, "result") \o r
       /\ From(o, Outgoing(h)) /\ o \in Seq(Blocks)
 BY <1>8, <1>9, <1>10 DEF Adds, Carries
<1> HIDE DEF h, o
<1> DEFINE c == OfKind(o, "call")
           d == OfKind(o, "result")
<1>12. c \in Seq(Blocks) /\ d \in Seq(Blocks) BY <1>11, KindTyped
<1>13. Ids(c) = Ids(d) \o Ids(w) BY <1>5 DEF Answered
<1>14. Answered(Outgoing(h), <<>>)
 <2>1. OfKind(Outgoing(h), "call") = c \o <<>> /\ OfKind(Outgoing(h), "result") = d \o r
  BY <1>11
 <2> HIDE DEF c, d
 <2>2. c \o <<>> = c /\ d \o r \in Seq(Blocks) BY <1>1, <1>12
 <2>3. Ids(d \o r) = Ids(d) \o Ids(r) BY <1>1, <1>12, IdsConcat
 <2>4. Ids(d \o r) \in Seq(Nat \X Nat) BY <2>2, IdsConcat
 <2>5. Ids(<<>>) = <<>> BY DEF Ids
 <2>6. Ids(d \o r) \o <<>> = Ids(d \o r) BY <2>4
 <2> QED BY <1>6, <1>13, <2>1, <2>2, <2>3, <2>5, <2>6 DEF Answered
<1>15. Carried(Outgoing(h), executed) BY <1>5, <1>11 DEF Carried, From
<1>16. PendingOf(NoCalls, round) BY EmptySeq DEF PendingOf, NoCalls, AllOf, OfRound
<1>17. NoCalls.blocks = <<>> BY DEF NoCalls
<1> QED BY <1>4, <1>5, <1>9, <1>14, <1>15, <1>16, <1>17, InvAfter

(* An answer without calls, and a text that goes back. *)
LEMMA TextRoundKeeps ==
  ASSUME MessagesInv, TextRound
  PROVE  MessagesInv'
<1> DEFINE q == round + 1
           b == <<Block("text", <<q, 0>>)>>
           u == Turn("user", b)
<1>1. PICK s \in AnswersWith(0) : history' = history \o <<Turn("assistant", s), u>>
 BY DEF TextRound
<1>2. /\ wire' = wire /\ pending' = pending /\ executed' = executed /\ round' = q /\ pending = NoCalls
      /\ Speaks /\ Going(history, round) /\ round \in Nat /\ q \in Nat /\ history \in Dialogue
 BY DEF TextRound, MessagesInv, Going
<1>3. s \in Seq(Blocks) /\ OfRound(s, q) /\ NoneOf("call", s) BY <1>2, AnswerBlocks
<1>4. OfKind(s, "call") = <<>> BY <1>3, KindNone
<1> DEFINE t == Turn("assistant", s)
           g == Append(history, t)
           h == Append(g, u)
<1>5. Going(g, q) /\ Answered(Outgoing(g), <<>>) /\ Carried(Outgoing(g), executed)
 BY <1>2, <1>3, <1>4, AnswerGoes
<1>6. b \in Seq(Blocks) /\ OfRound(b, q) /\ AllOf("text", b) BY <1>2, OneBlock
<1> HIDE DEF q, b
<1>7. u \in [role : {"user", "assistant"}, blocks : Seq(Blocks)] /\ u.role = "user" /\ u.blocks = b
 BY <1>6, Spoken
<1>8. t \in [role : {"user", "assistant"}, blocks : Seq(Blocks)] BY <1>3, Spoken
<1> HIDE DEF t, u
<1>9. history' = h
 <2> DEFINE T == [role : {"user", "assistant"}, blocks : Seq(Blocks)]
 <2>1. history \in Seq(T) /\ t \in T /\ u \in T BY <1>2, <1>7, <1>8 DEF Dialogue
 <2> HIDE DEF T
 <2>2. history \o <<t, u>> = Append(Append(history, t), u) BY <2>1
 <2> QED BY <1>1, <2>2 DEF t
<1> HIDE DEF g
<1>10. Going(h, q) /\ Adds(g, u)
 <2>1. OfRound(u.blocks, q) /\ NoneOf("thought", u.blocks) /\ q <= q
  BY <1>2, <1>6, <1>7 DEF AllOf, NoneOf
 <2> QED BY <1>2, <1>5, <1>7, <2>1, HistoryGrows
<1> DEFINE o == Outgoing(g)
           c == OfKind(o, "call")
           d == OfKind(o, "result")
<1>11. OfKind(b, "result") = <<>>
 <2>1. NoneOf("result", b) BY <1>6 DEF AllOf, NoneOf
 <2> QED BY <1>6, <2>1, KindNone
<1>12. /\ OfKind(Outgoing(h), "call") = c \o <<>> /\ OfKind(Outgoing(h), "result") = d \o <<>>
       /\ From(o, Outgoing(h)) /\ o \in Seq(Blocks)
 BY <1>7, <1>10, <1>11 DEF Adds, Carries
<1> HIDE DEF h, o
<1>13. c \in Seq(Blocks) /\ d \in Seq(Blocks) BY <1>12, KindTyped
<1>14. Answered(Outgoing(h), <<>>)
 <2>1. Ids(c) = Ids(d) \o Ids(<<>>) BY <1>5 DEF Answered, o
 <2> HIDE DEF c, d
 <2>2. c \o <<>> = c /\ d \o <<>> = d BY <1>13
 <2>3. OfKind(Outgoing(h), "call") = c /\ OfKind(Outgoing(h), "result") = d
  BY <1>12, <2>2 DEF c, d
 <2> QED BY <2>1, <2>3 DEF Answered
<1>15. Carried(Outgoing(h), executed) BY <1>5, <1>12 DEF Carried, From, o
<1>16. PendingOf(pending', round') BY <1>2, EmptySeq DEF PendingOf, NoCalls, AllOf, OfRound
<1>17. pending'.blocks = <<>> BY <1>2 DEF NoCalls
<1> QED BY <1>2, <1>9, <1>10, <1>14, <1>15, <1>16, <1>17, InvAfter

LEMMA MessagesStep ==
  ASSUME MessagesConstants, MessagesInv, MessagesNext
  PROVE  MessagesInv'
BY CallsToolsKeeps, ExecutesKeeps, ContinuesKeeps, TextRoundKeeps DEF MessagesNext

LEMMA MessagesStutter ==
  ASSUME MessagesInv, UNCHANGED messages
  PROVE  MessagesInv'
<1>1. wire' = wire /\ history' = history /\ round' = round /\ pending' = pending /\ executed' = executed
 BY DEF messages
<1> QED BY <1>1, InvAfter DEF MessagesInv

LEMMA SoundIsAccepted ==
  ASSUME MessagesInv
  PROVE  AnsweredOnTheWire /\ ThoughtsGoBack
<1>1. Sent = SentOf(history) BY DEF Sent, SentOf
<1> DEFINE o == PartsOf(Sent)
           c == OfKind(o, "call")
           r == OfKind(o, "result")
<1>2. o = Outgoing(history) BY <1>1 DEF Outgoing
<1> HIDE DEF o
<1>3. o \in Seq(Blocks) /\ InOrder(o, round) /\ Answered(o, pending.blocks) /\ Carried(o, executed)
 <2>1. o \in Seq(Blocks) BY <1>2, PartsTyped DEF MessagesInv, Going, Outgoing
 <2> QED BY <1>2, <2>1 DEF MessagesInv, Going
<1>4. pending = NoCalls => Ids(c) = Ids(r)
 <2> SUFFICES ASSUME pending = NoCalls PROVE Ids(c) = Ids(r)
  OBVIOUS
 <2>1. Ids(c) = Ids(r) \o Ids(<<>>) BY <1>3 DEF Answered, NoCalls
 <2>2. r \in Seq(Blocks) BY <1>3, KindTyped
 <2> HIDE DEF c, r
 <2>3. Ids(r) \in Seq(Nat \X Nat) /\ Ids(<<>>) = <<>>
  <3>1. Ids(r) \in Seq(Nat \X Nat) BY <2>2, IdsConcat
  <3> QED BY <3>1 DEF Ids
 <2>4. Ids(r) \o <<>> = Ids(r) BY <2>3
 <2> QED BY <2>1, <2>3, <2>4
<1>5. ASSUME NEW i \in DOMAIN o, NEW j \in DOMAIN o, o[i].id = o[j].id, NEW k \in i + 1..j - 1
      PROVE  o[k].id[1] = o[i].id[1]
 <2>1. k \in DOMAIN o /\ i <= k /\ k <= j BY <1>3
 <2>2. o[i].id[1] <= o[k].id[1] /\ o[k].id[1] <= o[j].id[1] BY <1>3, <2>1 DEF InOrder
 <2>3. o[i].id[1] \in Nat /\ o[k].id[1] \in Nat /\ o[j].id[1] = o[i].id[1]
  BY <1>3, <1>5, <2>1, BlockIds
 <2> QED BY <2>2, <2>3
<1>6. AnsweredOnTheWire BY <1>3, <1>4, <1>5 DEF AnsweredOnTheWire, Carried, o
<1>7. ThoughtsGoBack BY <1>2 DEF ThoughtsGoBack, MessagesInv, Going, o
<1> QED BY <1>6, <1>7

--------------------------------------------------
(* All parts *)

(* PluginManager and McpManager, in every behaviour of the services: one      *)
(* process of a plugin and of a server is in use, and what can be reached is  *)
(* that one's, connected unless its connection failed during discovery.       *)
THEOREM ServicesOneOfEach == ServicesSpec => []OneOfEach
<1>1. ServicesInit => PluginInv /\ McpInv BY PluginInitInv, McpInitInv DEF ServicesInit
<1>2. PluginInv /\ McpInv /\ [ServicesNext]_services => (PluginInv /\ McpInv)'
 <2> SUFFICES ASSUME PluginInv, McpInv, [PluginsNext]_plugin, [McpNext]_mcp PROVE PluginInv' /\ McpInv'
  BY OwnStepOrNone
 <2>1. PluginInv'
  BY PluginNextInv DEF plugin, PluginInv, PlugTypes, CallsHaveHosts, OneCopy, Reaches
 <2>2. McpInv' BY McpNextInv DEF mcp, McpInv, McpTypes, HeldInv, CallsOfStarted
 <2> QED BY <2>1, <2>2
<1>3. PluginInv /\ McpInv => OneOfEach BY DEF OneOfEach, PluginInv, McpInv, HeldInv, OneServer
<1> QED BY <1>1, <1>2, <1>3, PTL DEF ServicesSpec

(* A plugin's terminal write and an agent's command: both need the user's     *)
(* consent, whatever is asked, answered late or twice, or times out.          *)
THEOREM ServicesAskedFirst == ServicesSpec => AskedFirst
<1>1. ServicesInit => AskingInv /\ CommandsInv
 BY AskingInitInv, CommandsInitInv DEF ServicesInit
<1>2. AskingInv /\ CommandsInv /\ [ServicesNext]_services
        => /\ (AskingInv /\ CommandsInv)'
           /\ [\A w \in Writes : write'[w].stage = "written" /\ write[w].stage # "written"
                  => approved' \/ w \in question]_plugin
 <2> SUFFICES ASSUME AskingInv, CommandsInv, [PluginsNext]_plugin, [CommandsNext]_agentCommands
              PROVE  /\ AskingInv' /\ CommandsInv'
                     /\ [\A w \in Writes : write'[w].stage = "written" /\ write[w].stage # "written"
                            => approved' \/ w \in question]_plugin
  BY OwnStepOrNone
 <2>1. AskingInv' /\ [\A w \in Writes : write'[w].stage = "written" /\ write[w].stage # "written"
                         => approved' \/ w \in question]_plugin
  BY AskingNextInv DEF plugin, AskingInv, WaitingWrites
 <2>2. CommandsInv' BY CommandsNextInv DEF agentCommands, CommandsInv, Approved
 <2> QED BY <2>1, <2>2
<1>3. CommandsInv => CommandsAsked BY CommandsInvImplies
<1> QED BY <1>1, <1>2, <1>3, PTL DEF ServicesSpec, AskedFirst, WritesAsked

(* The watchdog: in every behaviour it acts in time and only against an app   *)
(* that does not answer, and the windows show what it is in.                  *)
THEOREM ServicesWatchedRight == ServicesSpec => []WatchedRight
<1>1. ServicesInit => WatchdogInv BY WatchdogInitInv DEF ServicesInit
<1>2. WatchdogInv /\ [ServicesNext]_services => WatchdogInv'
 <2> SUFFICES ASSUME WatchdogInv, [WatchdogNext]_watchdog PROVE WatchdogInv'
  BY OwnStepOrNone
 <2>1. CASE UNCHANGED watchdog
  <3>1. WatchdogTypes' /\ TimeInv' /\ FreezeInv'
   BY <2>1 DEF watchdog, WatchdogInv, WatchdogTypes, TimeInv, FreezeInv
  <3>2. SleepInv' BY <2>1 DEF watchdog, WatchdogInv, SleepInv, AppThere, Alive, Ignores
  <3>3. ToldInv' BY <2>1 DEF watchdog, WatchdogInv, ToldInv, AppThere, Alive
  <3> QED BY <3>1, <3>2, <3>3 DEF WatchdogInv
 <2> QED BY <2>1, WatchdogNextInv
<1>3. WatchdogInv => WatchedRight BY WatchdogInvImplies
<1> QED BY <1>1, <1>2, <1>3, PTL DEF ServicesSpec

(* LlmGateway and its adapters, in every behaviour of the services: a turn is *)
(* shown once, as its attempt said it, and (Ollama's apart) counts as an      *)
(* answer only when the provider ended it, but for the ends that Misread      *)
(* names and Gemini's status events.                                          *)
THEOREM ServicesTurnsTold == ServicesSpec => []TurnsTold
<1>1. ServicesInit => StreamsInv BY StreamsInitInv DEF ServicesInit
<1>2. StreamsInv /\ [ServicesNext]_services => StreamsInv'
 <2> SUFFICES ASSUME StreamsInv, [StreamsNext]_streams PROVE StreamsInv'
  BY OwnStepOrNone
 <2>1. CASE UNCHANGED streams
  <3>1. \A k \in Kinds : Told(k)' = Told(k) BY <2>1 DEF streams, Told
  <3> QED BY <2>1, <3>1 DEF streams, StreamsInv, StreamTypes, HeardAll, HeardEnds, Complete, Fails, CutsShort
 <2> QED BY <2>1, StreamsNextInv
<1>3. StreamsInv => TurnsTold
 BY StreamsInvImplies, StreamsProviders DEF TurnsTold, WholeAnswers, StreamsInv, Adapters
<1> QED BY <1>1, <1>2, <1>3, PTL DEF ServicesSpec

(* AgentEngine.ts and the commands of an agent, in every behaviour of the     *)
(* services and however an answer is cut: the text around an action is shown  *)
(* and no part of the action is, and the chat gets the output of a command.   *)
THEOREM ServicesChatIntact == ServicesSpec => []ChatIntact
<1>1. ServicesInit => ActionInv /\ CommandsInv
 BY ActionInitInv, CommandsInitInv DEF ServicesInit
<1>2. ActionInv /\ CommandsInv /\ [ServicesNext]_services => (ActionInv /\ CommandsInv)'
 <2> SUFFICES ASSUME ActionInv, CommandsInv, [ActionTextNext]_actionText, [CommandsNext]_agentCommands
              PROVE  ActionInv' /\ CommandsInv'
  BY OwnStepOrNone
 <2>1. ASSUME UNCHANGED actionText PROVE ActionInv'
  BY ZenonT(60), <2>1 DEF actionText, ActionInv, ActionTypes, ShownAsItCame, CutOut, NoAction, Whole, ShownBehind
 <2>2. ActionInv' BY <2>1, ActionNextInv
 <2>3. CommandsInv' BY CommandsNextInv DEF agentCommands, CommandsInv, Approved
 <2> QED BY <2>2, <2>3
<1>3. ActionInv /\ CommandsInv => ChatIntact
 BY ActionInvImplies, CommandsInvImplies DEF ChatIntact
<1> QED BY <1>1, <1>2, <1>3, PTL DEF ServicesSpec

(* mcpConfigStore.ts, in every behaviour of the services: a server's token is *)
(* only ever kept as that server's.                                           *)
THEOREM ServicesTokensStay == ServicesSpec => []TokensStay
<1>1. ServicesInit => ConfigsInv BY ConfigsInitInv DEF ServicesInit
<1>2. ConfigsInv /\ [ServicesNext]_services => ConfigsInv'
 <2> SUFFICES ASSUME ConfigsInv, [ConfigsNext]_configs PROVE ConfigsInv'
  BY OwnStepOrNone
 <2>1. CASE UNCHANGED configs BY <2>1 DEF configs, ConfigsInv, ConfigsTypeOK
 <2> QED BY <2>1, ConfigsNextInv
<1>3. ConfigsInv => TokensStay BY ConfigsInvImplies
<1> QED BY <1>1, <1>2, <1>3, PTL DEF ServicesSpec

(* AgentEngine.ts and the adapters, in every behaviour of the services and    *)
(* for any number of rounds and calls: the history that goes out answers each *)
(* call it carries once and in order, with its thoughts.                      *)
THEOREM ServicesOnTheWire == ServicesSpec => []OnTheWire
<1>1. ServicesInit => MessagesInv BY MessagesConstants, BeginMessages DEF ServicesInit
<1>2. MessagesInv /\ [ServicesNext]_services => MessagesInv'
 <2> SUFFICES ASSUME MessagesInv, [MessagesNext]_messages PROVE MessagesInv'
  BY OwnStepOrNone
 <2> QED BY MessagesConstants, MessagesStep, MessagesStutter
<1>3. MessagesInv => OnTheWire BY SoundIsAccepted DEF OnTheWire
<1> QED BY <1>1, <1>2, <1>3, PTL DEF ServicesSpec

--------------------------------------------------
(* What belongs to one profile, workspace or provider never passes to         *)
(* another: MCP tokens (McpManager.saveConfigs), the servers of a workspace   *)
(* (saveProfiles, getProfiles) and the chats of a workspace (saveChat,        *)
(* getChats), with the window and the main process agreed on the workspace.   *)
THEOREM ServicesKeptApart == ServicesSpec => []KeptApart
<1>1. ServicesInit => ConfigsInv /\ WorkspacesInv
 BY ConfigsInitInv, WorkspacesInvInit DEF ServicesInit
<1>2. ConfigsInv /\ WorkspacesInv /\ [ServicesNext]_services => (ConfigsInv /\ WorkspacesInv)'
 <2> SUFFICES ASSUME ConfigsInv, WorkspacesInv, [ConfigsNext]_configs, [WorkspacesNext]_workspaces
              PROVE  ConfigsInv' /\ WorkspacesInv'
  BY OwnStepOrNone
 <2>1. CASE UNCHANGED configs BY <2>1, WorkspacesInvNext DEF configs, ConfigsInv, ConfigsTypeOK
 <2>2. CASE ConfigsNext BY <2>2, ConfigsNextInv, WorkspacesInvNext
 <2> QED BY <2>1, <2>2
<1>3. ConfigsInv /\ WorkspacesInv => KeptApart
 BY ConfigsInvImplies, WorkspacesKeptApart DEF KeptApart
<1> QED BY <1>1, <1>2, <1>3, PTL DEF ServicesSpec

--------------------------------------------------
(* What the types say beyond the invariants above, part by part. *)

StreamsBounds ==
  /\ provider \in Providers /\ learned \subseteq Quirks
  /\ stage \in {"asking", "fetching", "streaming", "backoff", "done", "failed"}
  /\ attempt \in 0..MaxRetries + 1 /\ (stage \in {"asking", "backoff"} => attempt <= MaxRetries)
  /\ said.call \in {"none", "open", "whole"} /\ \A k \in Kinds : said[k] \in 0..MaxPieces
  /\ said.end \in {"none", "finished"} \cup EndsOf[provider]

LEMMA StreamsBoundsInit ==
  ASSUME StreamsInit \/ StreamsAtRest
  PROVE  StreamsBounds
<1>1. MaxRetries \in Nat /\ MaxPieces \in Nat /\ "openai" \in Providers
 BY StreamsConstants, ServicesConstants
<1>2. \A k \in Kinds : said[k] = 0 BY DEF StreamsInit, StreamsAtRest, Silence, Kinds
<1>3. said.call = "none" /\ (said.end = "none" \/ (provider = "openai" /\ said.end = "completed"))
 BY DEF StreamsInit, StreamsAtRest, Silence
<1> QED BY <1>1, <1>2, <1>3 DEF StreamsInit, StreamsAtRest, StreamsBounds, EndsOf

LEMMA CatchBounds ==
  ASSUME StreamsBounds, NEW r, NEW t, Catch(r, t)
  PROVE  StreamsBounds'
<1>1. MaxRetries \in Nat BY StreamsConstants
<1>2. /\ UNCHANGED <<provider, attempt, said>> /\ learned' \subseteq Quirks
      /\ (stage' \in {"asking", "backoff"} /\ attempt <= MaxRetries) \/ stage' = "failed"
 BY DEF Catch, MayAsk, StreamsBounds
<1> QED BY <1>1, <1>2 DEF StreamsBounds

LEMMA StreamsBoundsNext ==
  ASSUME StreamsInv, StreamsBounds, StreamsNext
  PROVE  StreamsBounds'
<1>0. MaxRetries \in Nat /\ MaxPieces \in Nat /\ said \in SaidRec
 BY StreamsConstants DEF StreamsInv, StreamTypes
<1>1. CASE Ask BY <1>0, <1>1 DEF Ask, StreamsBounds, Silence, Kinds
<1>2. CASE Opens \/ BackoffEnds BY <1>2 DEF Opens, BackoffEnds, StreamsBounds
<1>3. CASE NetworkFails \/ StreamTimesOut \/ \E f \in Refusals : Refused(f)
 BY <1>3, CatchBounds DEF NetworkFails, StreamTimesOut, Refused
<1>4. CASE Call
 <2>1. /\ said' = [said EXCEPT !.call = IF said.call = "none" THEN "open" ELSE "whole"]
       /\ UNCHANGED <<provider, stage, attempt, learned>>
  BY <1>4 DEF Call
 <2>2. said'.call \in {"none", "open", "whole"} /\ (\A k \in Kinds : said'[k] = said[k]) /\ said'.end = said.end
  BY <1>0, <2>1 DEF SaidRec, Kinds
 <2> QED BY <2>1, <2>2 DEF StreamsBounds
<1>5. CASE Done
 <2>1. /\ said' = [said EXCEPT !.end = IF @ = "none" THEN "finished" ELSE @]
       /\ UNCHANGED <<provider, stage, attempt, learned>>
  BY <1>5 DEF Done
 <2>2. said'.call = said.call /\ (\A k \in Kinds : said'[k] = said[k]) /\ said'.end \in {said.end, "finished"}
  BY <1>0, <2>1 DEF SaidRec, Kinds
 <2> QED BY <2>1, <2>2 DEF StreamsBounds
<1>6. CASE Closes
 <2>1. CASE Answers(heard) \in {"retry", "final"} BY <1>6, <2>1, CatchBounds DEF Closes
 <2>2. CASE Answers(heard) \notin {"retry", "final"}
  <3>1. Answer(Answers(heard)) BY <1>6, <2>2 DEF Closes
  <3>2. stage' = "done" /\ UNCHANGED <<provider, attempt, said, learned>> BY <3>1 DEF Answer
  <3> QED BY <3>2 DEF StreamsBounds
 <2> QED BY <2>1, <2>2
<1>7. ASSUME NEW k \in Kinds, Piece(k) PROVE StreamsBounds'
 <2>1. /\ said' = [said EXCEPT ![k] = @ + 1] /\ said[k] < MaxPieces
       /\ UNCHANGED <<provider, stage, attempt, learned>>
  BY <1>7 DEF Piece
 <2>2. said'.call = said.call /\ said'.end = said.end /\ \A j \in Kinds : said'[j] = IF j = k THEN said[j] + 1 ELSE said[j]
  BY <1>0, <2>1 DEF SaidRec, Kinds
 <2> QED BY <1>0, <2>1, <2>2 DEF StreamsBounds
<1>9. ASSUME NEW status, StatusUpdate(status) PROVE StreamsBounds'
 <2>1. said' = [said EXCEPT !.updated = TRUE] /\ UNCHANGED <<provider, stage, attempt, learned>>
  BY <1>9 DEF StatusUpdate
 <2>2. said'.call = said.call /\ (\A k \in Kinds : said'[k] = said[k]) /\ said'.end = said.end
  BY <1>0, <2>1 DEF SaidRec, Kinds
 <2> QED BY <2>1, <2>2 DEF StreamsBounds
<1>8. ASSUME NEW e \in EndsOf[provider], End(e) PROVE StreamsBounds'
 <2>1. said' = [said EXCEPT !.end = e] /\ UNCHANGED <<provider, stage, attempt, learned>>
  BY <1>8 DEF End
 <2>2. said'.call = said.call /\ (\A k \in Kinds : said'[k] = said[k]) /\ said'.end = e
  BY <1>0, <2>1 DEF SaidRec, Kinds
 <2> QED BY <1>8, <2>1, <2>2 DEF StreamsBounds
<1> QED BY <1>1, <1>2, <1>3, <1>4, <1>5, <1>6, <1>7, <1>8, <1>9 DEF StreamsNext

RoundsBounds == wire \in Wires /\ round \in 0..MaxRounds

LEMMA RoundsBoundsNext ==
  ASSUME RoundsBounds, MessagesNext
  PROVE  RoundsBounds'
<1>1. MaxRounds \in Nat BY MessagesConstants
<1>2. wire' = wire /\ (round' = round \/ (round < MaxRounds /\ round' = round + 1))
 BY DEF MessagesNext, CallsTools, Executes, Continues, TextRound
<1> QED BY <1>1, <1>2 DEF RoundsBounds

LEMMA MessagesTypes ==
  ASSUME MessagesInv, RoundsBounds
  PROVE  MessagesTypeOK
<1>1. Len(pending.results) <= Len(pending.blocks) BY DEF MessagesInv, PendingOf
<1>2. \A i \in DOMAIN history : history[i].role \in {"user", "assistant"}
 <2> DEFINE T == [role : {"user", "assistant"}, blocks : Seq(Blocks)]
 <2>1. history \in Seq(T) /\ \A t \in T : t.role \in {"user", "assistant"}
  BY DEF MessagesInv, Going, Dialogue
 <2> HIDE DEF T
 <2> QED BY <2>1
<1> QED BY <1>1, <1>2 DEF MessagesTypeOK, RoundsBounds

TextBounds == Len(arrived) <= MaxText /\ Len(displayed) + Len(textBuffer) <= Len(arrived)

LEMMA TextBoundsNext ==
  ASSUME ActionInv, TextBounds, ActionTextNext
  PROVE  TextBounds'
<1>0. /\ arrived \in Text /\ displayed \in Text /\ textBuffer \in Text /\ MaxText \in Nat
      /\ Len(arrived) \in Nat /\ Len(displayed) \in Nat /\ Len(textBuffer) \in Nat
 <2>1. <<>> \in Text /\ <<"<">> \in Text BY DEF Text, Symbols
 <2>2. arrived \in Text /\ displayed \in Text /\ textBuffer \in Text
  BY <2>1 DEF ActionInv, ActionTypes
 <2> QED BY <2>2, ActionTextConstants DEF Text
<1>1. CASE Ends
 <2>1. arrived' = arrived BY <1>1 DEF Ends
 <2>2. Len(displayed') + Len(textBuffer') <= Len(displayed) + Len(textBuffer)
  <3>1. CASE executing BY <1>0, <1>1, <3>1 DEF Ends
  <3>2. CASE ~executing
   <4>1. displayed' = displayed \o textBuffer /\ textBuffer' = <<>> BY <1>1, <3>2 DEF Ends
   <4>2. Len(displayed \o textBuffer) = Len(displayed) + Len(textBuffer) /\ Len(<<>>) = 0
    BY ZenonT(60), <1>0, JoinText
   <4> QED BY <1>0, <4>1, <4>2
  <3> QED BY <3>1, <3>2
 <2> QED BY <1>0, <2>1, <2>2 DEF TextBounds
<1>2. ASSUME NEW n \in 1..MaxChunk, NEW c \in [1..n -> Symbols], Len(arrived) + n <= MaxText, Chunk(c)
      PROVE  TextBounds'
 <2>1. c \in Text /\ Len(c) = n /\ n \in Nat BY ActionTextConstants DEF Text
 <2> DEFINE b == textBuffer \o c
            i == IndexOf(startTag, b)
            out == Len(b) - Held(b)
 <2>2. arrived' = arrived \o c /\ Len(arrived \o c) = Len(arrived) + n
  BY <1>0, <1>2, <2>1, JoinText DEF Chunk
 <2>3. b \in Text /\ Len(b) = Len(textBuffer) + n /\ Len(b) \in Nat BY <1>0, <2>1, JoinText
 <2>4. \/ UNCHANGED <<textBuffer, displayed>>
       \/ i # 0 /\ displayed' = displayed \o Before(b, i) /\ textBuffer' = <<>>
       \/ displayed' = displayed \o SubSeq(b, 1, out) /\ textBuffer' = SubSeq(b, out + 1, Len(b))
  BY <1>2 DEF Chunk
 <2>5. i # 0 => i \in 1..Len(b) - 1
  <3>1. startTag \in Tags BY DEF Tags
  <3> HIDE DEF b
  <3>2. i # 0 => First(startTag, b, i) BY <2>3, <3>1, FirstOrNone
  <3> QED BY <3>2 DEF First, Occurs
 <2>6. out \in 0..Len(b)
  <3>1. Held(b) \in {0, 1} /\ (Held(b) = 1 => b # <<>>) BY DEF Held
  <3> HIDE DEF b
  <3>2. b # <<>> => Len(b) >= 1 BY <2>3, EmptySeq DEF Text
  <3> QED BY <2>3, <3>1, <3>2
 <2> HIDE DEF b, i, out
 <2>7. Len(displayed') + Len(textBuffer') <= Len(displayed) + Len(textBuffer) + n
  <3>1. CASE UNCHANGED <<textBuffer, displayed>> BY <1>0, <2>1, <3>1
  <3>2. CASE i # 0 /\ displayed' = displayed \o Before(b, i) /\ textBuffer' = <<>>
   <4>1. Before(b, i) \in Text /\ Len(Before(b, i)) = i - 1 /\ i \in 1..Len(b) - 1
    BY <2>3, <2>5, <3>2, CutText
   <4>2. Len(displayed \o Before(b, i)) = Len(displayed) + (i - 1)
    <5> DEFINE x == Before(b, i)
    <5>1. displayed \in Text /\ x \in Text /\ Len(x) = i - 1 BY <1>0, <4>1
    <5> HIDE DEF x
    <5>2. Len(displayed \o x) = Len(displayed) + Len(x) BY ZenonT(60), <5>1, JoinText
    <5>3. Len(displayed \o x) = Len(displayed) + (i - 1) BY <5>1, <5>2
    <5> QED BY <5>3 DEF x
   <4>3. Len(displayed') = Len(displayed) + (i - 1) /\ Len(textBuffer') = 0 BY <3>2, <4>2
   <4> QED BY <1>0, <2>1, <2>3, <4>1, <4>3
  <3>3. CASE displayed' = displayed \o SubSeq(b, 1, out) /\ textBuffer' = SubSeq(b, out + 1, Len(b))
   <4>1. SubSeq(b, 1, out) \in Text /\ Len(SubSeq(b, 1, out)) = out /\ Len(SubSeq(b, out + 1, Len(b))) = Len(b) - out
    BY <2>3, <2>6, PartOf
   <4>2. Len(displayed \o SubSeq(b, 1, out)) = Len(displayed) + out
    <5> DEFINE x == SubSeq(b, 1, out)
    <5>1. displayed \in Text /\ x \in Text /\ Len(x) = out BY <1>0, <4>1
    <5> HIDE DEF x
    <5>2. Len(displayed \o x) = Len(displayed) + Len(x) BY ZenonT(60), <5>1, JoinText
    <5>3. Len(displayed \o x) = Len(displayed) + out BY <5>1, <5>2
    <5> QED BY <5>3 DEF x
   <4>3. Len(displayed') = Len(displayed) + out /\ Len(textBuffer') = Len(b) - out
    BY <3>3, <4>1, <4>2
   <4> QED BY <1>0, <2>1, <2>3, <2>6, <4>3
  <3> QED BY <2>4, <3>1, <3>2, <3>3
 <2> QED BY <1>0, <1>2, <2>1, <2>2, <2>7 DEF TextBounds
<1> QED BY <1>1, <1>2 DEF ActionTextNext

SentinelBounds ==
  supervisor.left \in 0..Grace \cup 0..SaveExtension
  /\ alerts \in 0..MaxAlerts /\ stalls \in 0..MaxStalls /\ clicks \in 0..MaxClicks

LEMMA SentinelBoundsNext ==
  ASSUME WatchdogInv, SentinelBounds, WatchdogNext
  PROVE  SentinelBounds'
<1>0. /\ supervisor \in SupervisorRec /\ Grace \in Nat /\ SaveExtension \in Nat /\ MaxAlerts \in Nat /\ MaxStalls \in Nat
      /\ MaxClicks \in Nat /\ toWatchdog \in Seq(AppLines)
 BY WatchdogConstants DEF WatchdogInv, WatchdogTypes
<1>1. alerts' \in 0..MaxAlerts /\ stalls' \in 0..MaxStalls /\ clicks' \in 0..MaxClicks
 BY <1>0 DEF SentinelBounds, WatchdogNext, TakeLine, OnSilence, Kill, Dies, Scan, Tick, Ping, Stall, Resume,
             TriggerLockdown, Hear, ResolveLockdown, OwnerAnswers, QuitApp, Exit
<1>2. supervisor'.left \in 0..Grace \cup 0..SaveExtension
 <2>1. CASE supervisor' = supervisor BY <2>1 DEF SentinelBounds
 <2>2. CASE TakeLine
  <3>1. Head(toWatchdog) \in AppLines /\ supervisor' = OnMessage(supervisor, Head(toWatchdog)).to
   BY <1>0, <2>2 DEF TakeLine
  <3>2. ASSUME NEW m \in AppLines PROVE OnMessage(supervisor, m).to.left \in 0..Grace \cup 0..SaveExtension
   BY <1>0 DEF SentinelBounds, OnMessage, OnIgnore, Keep, Resolve, ExtendGrace, EnterLockdown, In, Gone, Watching,
               SupervisorRec, AppLines
  <3> QED BY <3>1, <3>2
 <2>3. CASE OnSilence \/ Kill \/ Dies \/ Ping
  BY <1>0, <2>3 DEF SentinelBounds, OnSilence, Kill, Dies, Ping, OnHeartbeat, EnterLockdown, In, Gone, Watching
 <2>4. CASE Tick
  <3>1. supervisor' = [supervisor EXCEPT !.left = IF @ = 0 THEN 0 ELSE @ - 1] BY <2>4 DEF Tick
  <3>2. supervisor'.left = IF supervisor.left = 0 THEN 0 ELSE supervisor.left - 1
   BY <1>0, <3>1 DEF SupervisorRec
  <3> QED BY <1>0, <3>2 DEF SentinelBounds
 <2>5. supervisor' = supervisor \/ TakeLine \/ OnSilence \/ Kill \/ Dies \/ Ping \/ Tick
  BY DEF WatchdogNext, Scan, Stall, Resume, TriggerLockdown, Hear, ResolveLockdown, OwnerAnswers, QuitApp, Exit
 <2> QED BY <2>1, <2>2, <2>3, <2>4, <2>5
<1> QED BY <1>1, <1>2 DEF SentinelBounds

PartsInv ==
  /\ StreamsInv /\ MessagesInv /\ ActionInv /\ CommandsInv /\ PluginInv /\ AskingInv /\ McpInv /\ ConfigsInv
  /\ WatchdogInv /\ WorkspacesInv

ServicesBounds == PartsInv /\ StreamsBounds /\ RoundsBounds /\ TextBounds /\ SentinelBounds

LEMMA OtherTypes ==
  ASSUME CommandsInv, PluginInv, AskingInv, McpInv, WorkspacesInv
  PROVE  CommandsTypeOK /\ PluginsTypeOK /\ McpTypeOK /\ WorkspacesTypeOK
<1>1. CommandsTypeOK BY DEF CommandsInv, CommandsTypeOK, CommandRec
<1>2. PluginsTypeOK
 <2>1. Cardinality(question) <= 1
  <3>1. CASE question = {} BY <3>1, FS_EmptySet
  <3>2. CASE \E w \in Writes : question = {w} BY <3>2, FS_Singleton
  <3> QED BY <3>1, <3>2 DEF AskingInv
 <2> QED BY <2>1 DEF PluginInv, PlugTypes, AskingInv, PluginsTypeOK, Host, CallRec
<1>3. McpTypeOK BY DEF McpInv, McpTypes, HeldInv, McpTypeOK, Client, ToolCall
<1>4. WorkspacesTypeOK
 <2>1. hub \in Hubs /\ view \in Views BY DEF WorkspacesInv, ListsInv, Typed
 <2>2. hub.active \in Spaces /\ hub.chat \in Spaces /\ hub.closed \subseteq Guarded
  BY <2>1 DEF Hubs
 <2>3. view.shown \in Spaces /\ view.listOf \in Spaces \union {NoSpace} BY <2>1 DEF Views
 <2>4. \A r \in Replies : view.reply[r].state \in {"no", "live", "over"}
  BY <2>1 DEF Views, ReplyTexts
 <2> QED BY <2>2, <2>3, <2>4 DEF WorkspacesTypeOK
<1> QED BY <1>1, <1>2, <1>3, <1>4

LEMMA ServicesBoundsInit ==
  ASSUME ServicesInit
  PROVE  ServicesBounds
<1>1. /\ StreamsInit \/ StreamsAtRest
      /\ MessagesInit /\ ActionTextInit /\ CommandsInit /\ PluginsInit /\ McpInit /\ ConfigsInit /\ WatchdogInit
      /\ WorkspacesInit
 BY DEF ServicesInit
<1>2. PartsInv
 BY <1>1, MessagesConstants, StreamsInitInv, BeginMessages, ActionInitInv, CommandsInitInv, PluginInitInv, AskingInitInv,
    McpInitInv, ConfigsInitInv, WatchdogInitInv, WorkspacesInvInit DEF PartsInv
<1>3. StreamsBounds BY <1>1, StreamsBoundsInit
<1>4. RoundsBounds BY <1>1, MessagesConstants DEF MessagesInit, RoundsBounds
<1>5. TextBounds
 <2>1. arrived = <<>> /\ displayed = <<>> /\ textBuffer = <<>> /\ Len(<<>>) = 0 /\ MaxText \in Nat
  BY <1>1, ActionTextConstants DEF ActionTextInit
 <2> QED BY <2>1 DEF TextBounds
<1>6. SentinelBounds
 BY <1>1, WatchdogConstants DEF WatchdogInit, SentinelBounds, Watching, Gone, In
<1> QED BY <1>2, <1>3, <1>4, <1>5, <1>6 DEF ServicesBounds

LEMMA PartsKeep ==
  ASSUME PartsInv, [StreamsNext]_streams, [MessagesNext]_messages, [ActionTextNext]_actionText,
         [CommandsNext]_agentCommands, [PluginsNext]_plugin, [McpNext]_mcp, [ConfigsNext]_configs,
         [WatchdogNext]_watchdog, [WorkspacesNext]_workspaces
  PROVE  PartsInv'
<1>1. StreamsInv'
 <2>1. ASSUME UNCHANGED streams PROVE StreamsInv'
  <3>1. \A k \in Kinds : Told(k)' = Told(k) BY <2>1 DEF streams, Told
  <3> QED BY <2>1, <3>1 DEF streams, PartsInv, StreamsInv, StreamTypes, HeardAll, HeardEnds, Complete, Fails, CutsShort
 <2> QED BY <2>1, StreamsNextInv DEF PartsInv
<1>2. MessagesInv' BY MessagesConstants, MessagesStep, MessagesStutter DEF PartsInv
<1>3. ActionInv'
 <2>1. ASSUME UNCHANGED actionText PROVE ActionInv'
  BY ZenonT(60), <2>1 DEF PartsInv, actionText, ActionInv, ActionTypes, ShownAsItCame, CutOut, NoAction, Whole, ShownBehind
 <2> QED BY <2>1, ActionNextInv DEF PartsInv
<1>4. CommandsInv' BY CommandsNextInv DEF PartsInv, agentCommands, CommandsInv, Approved
<1>5. PluginInv'
 BY PluginNextInv DEF PartsInv, plugin, PluginInv, PlugTypes, CallsHaveHosts, OneCopy, Reaches
<1>6. AskingInv' BY AskingNextInv DEF PartsInv, plugin, AskingInv, WaitingWrites
<1>7. McpInv' BY McpNextInv DEF PartsInv, mcp, McpInv, McpTypes, HeldInv, CallsOfStarted
<1>8. ConfigsInv'
 <2>1. ASSUME UNCHANGED configs PROVE ConfigsInv'
  BY <2>1 DEF PartsInv, configs, ConfigsInv, ConfigsTypeOK
 <2> QED BY <2>1, ConfigsNextInv DEF PartsInv
<1>9. WatchdogInv'
 <2>1. ASSUME UNCHANGED watchdog PROVE WatchdogInv'
  <3>1. WatchdogTypes' /\ TimeInv' /\ FreezeInv'
   BY <2>1 DEF PartsInv, watchdog, WatchdogInv, WatchdogTypes, TimeInv, FreezeInv
  <3>2. SleepInv'
   BY <2>1 DEF PartsInv, watchdog, WatchdogInv, SleepInv, AppThere, Alive, Ignores
  <3>3. ToldInv' BY <2>1 DEF PartsInv, watchdog, WatchdogInv, ToldInv, AppThere, Alive
  <3> QED BY <3>1, <3>2, <3>3 DEF WatchdogInv
 <2> QED BY <2>1, WatchdogNextInv DEF PartsInv
<1>10. WorkspacesInv' BY WorkspacesInvNext DEF PartsInv
<1> QED BY <1>1, <1>2, <1>3, <1>4, <1>5, <1>6, <1>7, <1>8, <1>9, <1>10 DEF PartsInv

LEMMA ServicesBoundsNext ==
  ASSUME ServicesBounds, [ServicesNext]_services
  PROVE  ServicesBounds'
<1>1. /\ [StreamsNext]_streams /\ [MessagesNext]_messages /\ [ActionTextNext]_actionText
      /\ [CommandsNext]_agentCommands /\ [PluginsNext]_plugin /\ [McpNext]_mcp /\ [ConfigsNext]_configs
      /\ [WatchdogNext]_watchdog /\ [WorkspacesNext]_workspaces
 BY OwnStepOrNone
<1>2. PartsInv' BY <1>1, PartsKeep DEF ServicesBounds
<1>3. StreamsBounds'
 <2>1. ASSUME UNCHANGED streams PROVE StreamsBounds'
  BY <2>1 DEF ServicesBounds, streams, StreamsBounds
 <2> QED BY <1>1, <2>1, StreamsBoundsNext DEF ServicesBounds, PartsInv
<1>4. RoundsBounds'
 <2>1. ASSUME UNCHANGED messages PROVE RoundsBounds'
  BY <2>1 DEF ServicesBounds, messages, RoundsBounds
 <2> QED BY <1>1, <2>1, RoundsBoundsNext DEF ServicesBounds
<1>5. TextBounds'
 <2>1. ASSUME UNCHANGED actionText PROVE TextBounds'
  BY <2>1 DEF ServicesBounds, actionText, TextBounds
 <2> QED BY <1>1, <2>1, TextBoundsNext DEF ServicesBounds, PartsInv
<1>6. SentinelBounds'
 <2>1. ASSUME UNCHANGED watchdog PROVE SentinelBounds'
  BY <2>1 DEF ServicesBounds, watchdog, SentinelBounds
 <2> QED BY <1>1, <2>1, SentinelBoundsNext DEF ServicesBounds, PartsInv
<1> QED BY <1>2, <1>3, <1>4, <1>5, <1>6 DEF ServicesBounds

LEMMA ServicesBoundsImply ==
  ASSUME ServicesBounds
  PROVE  ServicesTypeOK
<1>1. StreamsTypeOK BY DEF ServicesBounds, PartsInv, StreamsInv, StreamTypes, SaidRec, StreamsBounds, StreamsTypeOK
<1>2. MessagesTypeOK BY MessagesTypes DEF ServicesBounds, PartsInv
<1>3. ActionTextTypeOK
 BY DEF ServicesBounds, PartsInv, ActionInv, ActionTypes, TextBounds, ActionTextTypeOK
<1>4. ConfigsTypeOK BY DEF ServicesBounds, PartsInv, ConfigsInv
<1>5. WatchdogTypeOK
 BY DEF ServicesBounds, PartsInv, WatchdogInv, WatchdogTypes, SupervisorRec, AppRec, SentinelBounds, WatchdogTypeOK
<1> QED BY <1>1, <1>2, <1>3, <1>4, <1>5, OtherTypes DEF ServicesBounds, PartsInv, ServicesTypeOK

(* Streams, Messages, ActionText, AgentCommands, PluginHosts, McpServers,     *)
(* McpConfigs, Watchdog, Workspaces: in every behaviour of the services,      *)
(* every part keeps to its types and bounds.                                  *)
THEOREM ServicesTypes == ServicesSpec => []ServicesTypeOK
<1>1. ServicesInit => ServicesBounds BY ServicesBoundsInit
<1>2. ServicesBounds /\ [ServicesNext]_services => ServicesBounds' BY ServicesBoundsNext
<1>3. ServicesBounds => ServicesTypeOK BY ServicesBoundsImply
<1> QED BY <1>1, <1>2, <1>3, PTL DEF ServicesSpec
=============================================================================
