----------------------------- MODULE PluginHosts -----------------------------
(* One isolated plugin: PluginManager.ts, which starts, stops, replaces and   *)
(* asks about it, and PluginProcessHost.ts, the process of each start. All    *)
(* of the manager's tables are keyed by the plugin's id, so one plugin is     *)
(* enough. Every start is a host of its own; promises a turn of JavaScript    *)
(* settles are resumed in that turn, so a rejected activation and what the    *)
(* manager does about it are one step.                                        *)

EXTENDS Naturals, FiniteSets

CONSTANTS
  Hosts,        \* the starts of the plugin
  Stoppers,     \* gracefulDeactivate calls in flight (reload, uninstall, quit)
  Invocations,  \* calls of the plugin's page and of its menu actions
  Writes,       \* ssh.write calls of the plugin
  NoHost        \* no start

ASSUME PluginConstants == NoHost \notin Hosts

VARIABLES
  host,        \* each PluginProcessHost
  running,     \* runningPlugins: the host of the entry
  handlers,    \* the hosts whose RPC methods and menu actions are registered
  listeners,   \* the hosts with a listener on the SSH bridge
  stopper,     \* each gracefulDeactivate: where it is and the host it began with
  invocation,  \* each call: where it is and the host it was made to
  write,       \* each ssh.write: where it is and the host that made it
  approved,    \* approvedSshWriters has the plugin
  question     \* pendingSshApprovals: the write whose dialog is on screen, or none

manager == <<running, handlers, listeners, approved>>
asking == <<write, question>>
plugin == <<host, running, handlers, listeners, stopper, invocation, write, approved, question>>

New == [child |-> "none", activation |-> "none", ending |-> FALSE, shutting |-> FALSE]
NoCall == [stage |-> "idle", host |-> NoHost]
NoWrite == {}

PluginsInit ==
  /\ host = [h \in Hosts |-> New]
  /\ running = NoHost /\ handlers = {} /\ listeners = {} /\ approved = FALSE
  /\ stopper = [s \in Stoppers |-> NoCall]
  /\ invocation = [i \in Invocations |-> NoCall]
  /\ write = [w \in Writes |-> NoCall]
  /\ question = NoWrite

--------------------------------------------------
(* PluginProcessHost *)

(* post goes through to a process that is there and not being ended. *)
Reaches(h) == host[h].child = "up" /\ ~host[h].ending

(* failAll and rejectActivation: a shutdown in progress leaves the activation *)
(* to its own timer.                                                          *)
Rejected(p) == IF p.activation = "waiting" THEN [p EXCEPT !.activation = "failed"] ELSE p
AllFailed(p) == IF p.shutting THEN p ELSE Rejected(p)

(* kill: the process is asked to end, once; nothing is sent to it or heard    *)
(* from it any more.                                                          *)
Killed(p) == AllFailed([p EXCEPT !.ending = (p.child = "up")])

(* The calls that wait for an answer of these hosts fail. *)
FailCalls(hs) ==
  invocation' = [i \in Invocations |->
    IF invocation[i].stage = "open" /\ invocation[i].host \in hs
    THEN [invocation[i] EXCEPT !.stage = "failed"] ELSE invocation[i]]

--------------------------------------------------
(* PluginManager: the entry and what hangs on it *)

(* cleanupPluginState, whatever runs under the id: its listeners, handlers,   *)
(* approval and entry go.                                                     *)
ForgetEntry ==
  /\ running' = NoHost /\ handlers' = {} /\ approved' = FALSE
  /\ listeners' = listeners \ {running}

(* ...and its process, when it is to be killed. *)
CleanUp ==
  /\ ForgetEntry
  /\ host' = [h \in Hosts |-> IF h = running THEN Killed(host[h]) ELSE host[h]]
  /\ FailCalls({running})

(* The catch of startIsolatedPlugin: this start's own process, and the state  *)
(* only if a newer start has not replaced it.                                 *)
GiveUp(h) ==
  /\ host' = [host EXCEPT ![h] = Killed(Rejected(@))]
  /\ FailCalls({h})
  /\ IF running = h THEN ForgetEntry ELSE UNCHANGED manager

(* A slip: the older process is left running without an entry. *)
StartBeside(h) ==
  /\ host[h] = New
  /\ running' = h /\ handlers' = {} /\ listeners' = {} /\ approved' = FALSE
  /\ host' = [host EXCEPT ![h] = [New EXCEPT !.child = "up", !.activation = "waiting"]]
  /\ FailCalls({running})
  /\ UNCHANGED <<stopper, asking>>

(* startIsolatedPlugin: at startup, and whenever a reload gets this far. It   *)
(* replaces a start that is still there, and its process comes up.            *)
Start(h) ==
  /\ host[h] = New
  /\ running' = h /\ handlers' = {} /\ listeners' = listeners \ {running} /\ approved' = FALSE
  /\ host' = [g \in Hosts |->
       IF g = h THEN [New EXCEPT !.child = "up", !.activation = "waiting"]
       ELSE IF g = running THEN Killed(host[g]) ELSE host[g]]
  /\ FailCalls({running})
  /\ UNCHANGED <<stopper, asking>>

(* The activation of a process that reports it in time: its registrations are *)
(* the plugin's, if it is still the plugin's process.                         *)
Activated(h) ==
  /\ Reaches(h) /\ host[h].activation = "waiting"
  /\ IF running = h
     THEN /\ host' = [host EXCEPT ![h].activation = "done"]
          /\ handlers' = handlers \union {h}
          /\ UNCHANGED <<running, listeners, approved, invocation>>
     ELSE GiveUp(h)
  /\ UNCHANGED <<stopper, asking>>

(* A slip: the timer looks at the process first. *)
ActivationTimesOutIfUp(h) ==
  /\ host[h].activation = "waiting" /\ host[h].child = "up"
  /\ GiveUp(h)
  /\ UNCHANGED <<stopper, asking>>

(* The activation timer, whatever has become of the process. *)
ActivationTimesOut(h) ==
  /\ host[h].activation = "waiting"
  /\ GiveUp(h)
  /\ UNCHANGED <<stopper, asking>>

(* A message the protocol forbids, a failed write, an output limit, or the    *)
(* process's own activation error: the activation fails and the process ends. *)
Violates(h) ==
  /\ Reaches(h)
  /\ IF host[h].activation = "waiting"
     THEN GiveUp(h)
     ELSE /\ host' = [host EXCEPT ![h] = Killed(@)]
          /\ FailCalls({h}) /\ UNCHANGED manager
  /\ UNCHANGED <<stopper, asking>>

(* The process is gone, killed or by itself: everything that waits for it     *)
(* fails, and the entry goes with it if it is still its own.                  *)
Closed(h) ==
  /\ host[h].child = "up"
  /\ host' = [host EXCEPT ![h] = AllFailed([@ EXCEPT !.child = "gone", !.ending = FALSE])]
  /\ FailCalls({h})
  /\ IF running = h THEN ForgetEntry ELSE UNCHANGED manager
  /\ UNCHANGED <<stopper, asking>>

--------------------------------------------------
(* Calls into the plugin *)

(* invoke, of an action or a method that is registered: an error at once if   *)
(* the process cannot be written to.                                          *)
Invoke(i, h) ==
  /\ invocation[i].stage = "idle" /\ h \in handlers
  /\ invocation' = [invocation EXCEPT ![i] = [stage |-> IF Reaches(h) THEN "open" ELSE "failed", host |-> h]]
  /\ UNCHANGED <<host, manager, stopper, asking>>

InvokeAnswered(i) ==
  /\ invocation[i].stage = "open" /\ Reaches(invocation[i].host)
  /\ \E end \in {"answered", "failed"} : invocation' = [invocation EXCEPT ![i].stage = end]
  /\ UNCHANGED <<host, manager, stopper, asking>>

InvokeTimesOut(i) ==
  /\ invocation[i].stage = "open"
  /\ invocation' = [invocation EXCEPT ![i].stage = "failed"]
  /\ UNCHANGED <<host, manager, stopper, asking>>

--------------------------------------------------
(* gracefulDeactivate *)

Deactivate(s) ==
  /\ stopper[s].stage = "idle" /\ running # NoHost
  /\ IF Reaches(running)
     THEN /\ stopper' = [stopper EXCEPT ![s] = [stage |-> "asked", host |-> running]]
          /\ host' = [host EXCEPT ![running].shutting = TRUE]
          /\ UNCHANGED <<manager, invocation>>
     ELSE /\ CleanUp /\ stopper' = [stopper EXCEPT ![s] = [stage |-> "done", host |-> running]]
  /\ UNCHANGED asking

(* shutdown-complete, the timer of two seconds, or the process's own end: the *)
(* exit is waited for next.                                                   *)
ShutdownAnswered(s) ==
  /\ stopper[s].stage = "asked"
  /\ stopper' = [stopper EXCEPT ![s].stage = "exiting"]
  /\ UNCHANGED <<host, manager, invocation, asking>>

(* The process ended or two more seconds passed: it is killed, and then the   *)
(* state of whatever runs under the plugin's id goes.                         *)
Deactivated(s) ==
  /\ stopper[s].stage = "exiting"
  /\ stopper' = [stopper EXCEPT ![s].stage = "done"]
  /\ ForgetEntry
  /\ host' = [h \in Hosts |-> IF h \in {running, stopper[s].host} THEN Killed(host[h]) ELSE host[h]]
  /\ FailCalls({running, stopper[s].host})
  /\ UNCHANGED asking

(* forceKill, of the watchdog or of a forbidden network request. *)
ForceKill ==
  /\ running # NoHost /\ CleanUp
  /\ UNCHANGED <<stopper, asking>>

--------------------------------------------------
(* Host calls of the plugin: subscriptions and terminal writes *)

(* dispatchPluginHostCall serves the process the entry names. *)
Serves(h) == Reaches(h) /\ running = h

Subscribe(h) ==
  /\ Serves(h) /\ listeners' = listeners \union {h}
  /\ UNCHANGED <<host, running, handlers, stopper, invocation, approved, asking>>

Unsubscribe(h) ==
  /\ Serves(h) /\ listeners' = listeners \ {h}
  /\ UNCHANGED <<host, running, handlers, stopper, invocation, approved, asking>>

(* approveSshWrite: written at once when approved; otherwise it asks, or      *)
(* waits for the question that is on screen.                                  *)
SshWrite(w, h) ==
  /\ Serves(h) /\ write[w].stage = "idle"
  /\ \/ /\ approved
        /\ write' = [write EXCEPT ![w] = [stage |-> "written", host |-> h]]
        /\ UNCHANGED question
     \/ /\ ~approved /\ question = NoWrite
        /\ write' = [write EXCEPT ![w] = [stage |-> "waiting", host |-> h]]
        /\ question' = {w}
     \/ /\ ~approved /\ question # NoWrite
        /\ write' = [write EXCEPT ![w] = [stage |-> "waiting", host |-> h]]
        /\ UNCHANGED question
  /\ UNCHANGED <<host, manager, stopper, invocation>>

WaitingWrites == {w \in Writes : write[w].stage = "waiting"}
Settled(ws, end) ==
  write' = [w \in Writes |-> IF w \in ws THEN [write[w] EXCEPT !.stage = end] ELSE write[w]]

(* Deny, or no window to ask in: the asker and all who waited are refused. *)
Deny ==
  /\ question # NoWrite /\ question' = NoWrite
  /\ Settled(WaitingWrites, "refused")
  /\ UNCHANGED <<host, manager, stopper, invocation>>

(* A slip: one answer lets everybody who waited through. *)
AllowOnceForAll ==
  /\ question # NoWrite /\ question' = NoWrite
  /\ Settled(WaitingWrites, "written")
  /\ UNCHANGED <<host, manager, stopper, invocation>>

(* Allow once: the asker writes, and one of those who waited asks again. *)
AllowOnce ==
  /\ question # NoWrite
  /\ LET rest == WaitingWrites \ question IN
       IF rest = {} THEN question' = NoWrite ELSE \E w \in rest : question' = {w}
  /\ Settled(question, "written")
  /\ UNCHANGED <<host, manager, stopper, invocation>>

(* Allow for this run: everybody who waited writes, and nobody asks again. *)
AllowRun ==
  /\ question # NoWrite /\ question' = NoWrite
  /\ approved' = TRUE
  /\ Settled(WaitingWrites, "written")
  /\ UNCHANGED <<host, running, handlers, listeners, stopper, invocation>>

--------------------------------------------------
PluginsNext ==
  \/ \E h \in Hosts : Start(h) \/ Activated(h) \/ ActivationTimesOut(h) \/ Violates(h) \/ Closed(h)
                      \/ Subscribe(h) \/ Unsubscribe(h)
  \/ \E i \in Invocations : InvokeAnswered(i) \/ InvokeTimesOut(i) \/ \E h \in Hosts : Invoke(i, h)
  \/ \E s \in Stoppers : Deactivate(s) \/ ShutdownAnswered(s) \/ Deactivated(s)
  \/ ForceKill
  \/ \E w \in Writes, h \in Hosts : SshWrite(w, h)
  \/ Deny \/ AllowOnce \/ AllowRun

(* Timers fire, and a process that was asked to end (SIGKILL after 1.5 s)     *)
(* does.                                                                      *)
PluginsFairness ==
  WF_plugin(\/ \E h \in Hosts : ActivationTimesOut(h) \/ (host[h].ending /\ Closed(h))
            \/ \E i \in Invocations : InvokeTimesOut(i)
            \/ \E s \in Stoppers : ShutdownAnswered(s) \/ Deactivated(s))

PluginsSpec == PluginsInit /\ [][PluginsNext]_plugin /\ PluginsFairness

--------------------------------------------------
(* Properties *)

PluginsTypeOK ==
  /\ host \in [Hosts -> [child : {"none", "up", "gone"}, activation : {"none", "waiting", "done", "failed"},
                         ending : BOOLEAN, shutting : BOOLEAN]]
  /\ running \in Hosts \union {NoHost} /\ approved \in BOOLEAN
  /\ stopper \in [Stoppers -> [stage : {"idle", "asked", "exiting", "done"}, host : Hosts \union {NoHost}]]
  /\ invocation \in [Invocations -> [stage : {"idle", "open", "answered", "failed"}, host : Hosts \union {NoHost}]]
  /\ write \in [Writes -> [stage : {"idle", "waiting", "written", "refused"}, host : Hosts \union {NoHost}]]
  /\ question \subseteq WaitingWrites /\ Cardinality(question) <= 1

(* One process per plugin: through starts that overlap, reloads, crashes and  *)
(* deactivations, only the process runningPlugins names can be talked to, and *)
(* every handler and every listener on the SSH bridge is that process's.      *)
OneCopy ==
  /\ \A h \in Hosts : Reaches(h) => running = h
  /\ handlers \union listeners \subseteq {running}

(* approveSshWrite: a write goes out on its own question or on an approval    *)
(* for the run; those who waited for another's "once" ask again, and a denial *)
(* refuses them all.                                                          *)
WritesAsked ==
  [][\A w \in Writes : write'[w].stage = "written" /\ write[w].stage # "written"
       => approved' \/ w \in question]_plugin

(* Nothing of a plugin waits for ever: not a start (also one that is being    *)
(* shut down while it activates), not a deactivation, not a call into it; and *)
(* a process that is no longer the plugin's ends. (A host, a stopper and a    *)
(* call are used once.)                                                       *)
PluginsSettle ==
  []<>(/\ \A h \in Hosts : host[h].activation # "waiting" /\ (host[h].child = "up" => running = h)
       /\ \A s \in Stoppers : stopper[s].stage \in {"idle", "done"}
       /\ \A i \in Invocations : invocation[i].stage # "open")

=============================================================================
