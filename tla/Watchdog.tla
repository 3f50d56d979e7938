------------------------------ MODULE Watchdog ------------------------------
(* Ocean Sentinel's watchdog process (supervisor.rs, main.rs) and the app's   *)
(* side of it (SecureCenter.ts): heartbeats, lockdowns with their deadlines,  *)
(* and the lines that cross each other on the socket. The clock is coarse:    *)
(* the 5 s without a heartbeat pass within a unit, and every line arrives     *)
(* within the unit in which it was sent.                                      *)

EXTENDS Naturals, Sequences

CONSTANTS
  Grace,          \* LOCKDOWN_GRACE
  SaveExtension,  \* SAVE_EXTENSION
  MaxSaves,       \* MAX_SAVE_EXTENSIONS
  MaxAlerts,      \* bound: alerts of the app and of the memory scan
  MaxStalls,      \* bound: times the app's main thread stops
  MaxClicks       \* bound: times the user acts on an alert's dialog

ASSUME WatchdogConstants ==
  Grace \in Nat \ {0} /\ SaveExtension \in Nat \ {0} /\ MaxSaves \in Nat \ {0} /\ {MaxAlerts, MaxStalls, MaxClicks} \subseteq Nat

VARIABLES
  supervisor,  \* [mode, left until the deadline, saves granted]
  age,         \* how long the lockdown has lasted
  toWatchdog,  \* main.rs's channel: the app's lines and the memory scan's
  toApp,       \* lines on their way to the app
  app,         \* SecureCenter's fields, and what its windows show
  awake,       \* units its main thread has run without a stop, up to 1
  pinged,      \* it has sent its heartbeats of this unit
  alerts, stalls, clicks

watchdog == <<supervisor, age, toWatchdog, toApp, app, awake, pinged, alerts, stalls, clicks>>

Lockdowns == {"freeze", "yellow", "red"}
UiAlive == {"yellow", "red"}
Alive == supervisor.mode # "gone"
NoHeartbeat == app.state = "stalled" \/ app.disabled

In(mode) == [mode |-> mode, left |-> 0, saves |-> 0]
Watching == In("watching")
Gone == In("gone")
NewApp == [state |-> "up", lockdown |-> FALSE, polluted |-> FALSE, level |-> "none",
           disabled |-> FALSE, socket |-> TRUE, shown |-> FALSE, asking |-> FALSE]

(* A process that has ended keeps no fields. *)
AppEnded(how) == [NewApp EXCEPT !.state = how, !.socket = FALSE]

(* Connected, or started without the watchdog's binary. *)
WatchdogInit ==
  /\ \/ supervisor = Watching /\ app = NewApp
     \/ /\ supervisor = Gone
        /\ app = [NewApp EXCEPT !.disabled = TRUE, !.socket = FALSE]
  /\ age = 0 /\ toWatchdog = <<>> /\ toApp = <<>>
  /\ awake = 1 /\ pinged = FALSE /\ alerts = 0 /\ stalls = 0 /\ clicks = 0

--------------------------------------------------
(* The watchdog *)

EnterLockdown(mode) == [mode |-> mode, left |-> Grace, saves |-> 0]
Keep(s) == [to |-> s, says |-> <<>>]

(* resolve: the app asked for the end and is told of it. *)
Resolve(mode) == [to |-> In(mode), says |-> <<"RESOLVED">>]

(* A slip: extensions are granted without counting them. *)
SaveUncounted(s) == [s EXCEPT !.left = SaveExtension]

ExtendGrace(s) ==
  IF s.saves < MaxSaves THEN [s EXCEPT !.left = SaveExtension, !.saves = @ + 1] ELSE s

(* A slip: any heartbeat ends a lockdown, an alert too. *)
OnHeartbeatAlways(s) == IF s.mode \in Lockdowns THEN Watching ELSE s

(* PING: a main thread that runs again ends a freeze, never an alert. *)
OnHeartbeat(s) == IF s.mode = "freeze" THEN Watching ELSE s

(* A slip: the choice to ignore counts only during a lockdown. *)
OnIgnoreInLockdown(s) == IF s.mode \in Lockdowns THEN Resolve("sleeping") ELSE Keep(s)

OnIgnore(s) ==
  CASE s.mode \in Lockdowns -> Resolve("sleeping")
    [] s.mode = "watching" -> Keep(In("sleeping"))
    [] OTHER -> Keep(s)

OnMessage(s, m) ==
  CASE m = "IGNORE" -> OnIgnore(s)
    [] m = "CONTINUE" -> IF s.mode \in Lockdowns THEN Resolve("watching") ELSE Keep(s)
    [] m = "SAVE" -> Keep(IF s.mode \in Lockdowns THEN ExtendGrace(s) ELSE s)
    [] m \in UiAlive ->
         IF s.mode = "watching" THEN [to |-> EnterLockdown(m), says |-> <<m>>] ELSE Keep(s)
    [] m \in {"QUIT", "CLOSED"} -> Keep(Gone)

Due == supervisor.mode \in {"freeze", "red"} /\ supervisor.left = 0

(* The loop of main.rs: the deadline comes before the next line. *)
TakeLine ==
  /\ Alive /\ ~Due /\ toWatchdog # <<>>
  /\ LET r == OnMessage(supervisor, Head(toWatchdog)) IN
       /\ supervisor' = r.to /\ toApp' = toApp \o r.says
       /\ age' = IF r.to.mode = supervisor.mode THEN age ELSE 0
  /\ toWatchdog' = Tail(toWatchdog)
  /\ UNCHANGED <<app, awake, pinged, alerts, stalls, clicks>>

OnSilence ==
  /\ supervisor.mode = "watching" /\ toWatchdog = <<>>
  /\ app.state \in {"up", "stalled"} /\ NoHeartbeat
  /\ supervisor' = EnterLockdown("freeze") /\ age' = 0
  /\ UNCHANGED <<toWatchdog, toApp, app, awake, pinged, alerts, stalls, clicks>>

(* Kill, and for a freeze the restart in safe mode; then the watchdog exits. *)
Kill ==
  /\ Due
  /\ app' = AppEnded(IF supervisor.mode = "freeze" THEN "restarted" ELSE "killed")
  /\ supervisor' = Gone /\ age' = 0
  /\ toWatchdog' = <<>> /\ toApp' = <<>>
  /\ UNCHANGED <<awake, pinged, alerts, stalls, clicks>>

Dies ==
  /\ Alive /\ supervisor' = Gone /\ age' = 0
  /\ toWatchdog' = <<>>
  /\ UNCHANGED <<toApp, app, awake, pinged, alerts, stalls, clicks>>

(* Windows only: the scan of the app's memory finds a hook, for the channel. *)
Scan ==
  /\ Alive /\ alerts < MaxAlerts /\ alerts' = alerts + 1
  /\ toWatchdog' = Append(toWatchdog, "red")
  /\ UNCHANGED <<supervisor, age, toApp, app, awake, pinged, stalls, clicks>>

(* A unit of time passes when everyone has done what takes less than one.     *)
(* TICK lines that a stopped app has not read are one.                        *)
Tick ==
  /\ Alive /\ ~Due /\ app.state \in {"up", "stalled"}
  /\ toWatchdog = <<>> /\ (app.state = "up" => toApp = <<>>)
  /\ IF NoHeartbeat THEN supervisor.mode # "watching" ELSE pinged
  /\ supervisor' = [supervisor EXCEPT !.left = IF @ = 0 THEN 0 ELSE @ - 1]
  /\ age' = IF supervisor.mode \in {"freeze", "red"} THEN age + 1 ELSE age
  /\ toApp' = IF supervisor.mode \in UiAlive /\ supervisor.left > 0
                 /\ (toApp = <<>> \/ toApp[Len(toApp)] # "TICK")
              THEN Append(toApp, "TICK") ELSE toApp
  /\ pinged' = FALSE /\ awake' = IF app.state = "up" THEN 1 ELSE 0
  /\ UNCHANGED <<toWatchdog, app, alerts, stalls, clicks>>

--------------------------------------------------
(* The app *)

Tells(line) == toWatchdog' = IF app.socket /\ Alive THEN Append(toWatchdog, line) ELSE toWatchdog

(* The interval of initSentinelWatchdog, also during a lockdown. A PING gets  *)
(* no answer, so it is sent and taken in one step, when no line is before it. *)
Ping ==
  /\ app.state = "up" /\ app.socket /\ ~app.disabled /\ ~pinged
  /\ Alive /\ ~Due /\ toWatchdog = <<>>
  /\ pinged' = TRUE /\ supervisor' = OnHeartbeat(supervisor)
  /\ age' = IF supervisor'.mode = supervisor.mode THEN age ELSE 0
  /\ UNCHANGED <<toWatchdog, toApp, app, awake, alerts, stalls, clicks>>

Stall ==
  /\ app.state = "up" /\ stalls < MaxStalls /\ stalls' = stalls + 1
  /\ app' = [app EXCEPT !.state = "stalled"] /\ awake' = 0
  /\ UNCHANGED <<supervisor, age, toWatchdog, toApp, pinged, alerts, clicks>>

Resume ==
  /\ app.state = "stalled" /\ app' = [app EXCEPT !.state = "up"] /\ pinged' = FALSE
  /\ UNCHANGED <<supervisor, age, toWatchdog, toApp, awake, alerts, stalls, clicks>>

(* auditPluginCommand's triggerLockdown; without a watchdog shown at once. *)
TriggerLockdown ==
  /\ app.state = "up" /\ alerts < MaxAlerts /\ alerts' = alerts + 1
  /\ ~app.polluted /\ ~app.lockdown
  /\ app' = [app EXCEPT !.polluted = TRUE, !.lockdown = TRUE,
                        !.level = IF app.socket THEN @ ELSE "yellow",
                        !.shown = @ \/ ~app.socket]
  /\ Tells("yellow")
  /\ UNCHANGED <<supervisor, age, toApp, awake, pinged, stalls, clicks>>

Heard(a, line) ==
  CASE line \in UiAlive ->
         [a EXCEPT !.level = line, !.lockdown = TRUE, !.polluted = TRUE, !.shown = TRUE]
    [] line = "TICK" -> [a EXCEPT !.shown = TRUE]
    [] line = "RESOLVED" ->
         [a EXCEPT !.lockdown = FALSE, !.polluted = @ /\ a.disabled, !.shown = FALSE]

(* socket.on('data') and socket.on('close') *)
Hear ==
  /\ app.state = "up"
  /\ \/ toApp # <<>> /\ toApp' = Tail(toApp) /\ app' = Heard(app, Head(toApp))
     \/ toApp = <<>> /\ ~Alive /\ app.socket
        /\ app' = [app EXCEPT !.socket = FALSE] /\ UNCHANGED toApp
  /\ UNCHANGED <<supervisor, age, toWatchdog, awake, pinged, alerts, stalls, clicks>>

(* The end of handleAction: without a watchdog nobody answers RESOLVED. *)
SettledHere(a) == IF a.socket THEN a ELSE [a EXCEPT !.lockdown = FALSE, !.shown = FALSE]

(* handleAction, for an action of the alert's dialog. *)
Act(a) ==
  CASE a = "ignore" -> /\ app' = SettledHere([app EXCEPT !.polluted = TRUE, !.disabled = TRUE, !.asking = FALSE])
                       /\ Tells("IGNORE")
    [] a = "continue" -> app' = SettledHere([app EXCEPT !.polluted = FALSE]) /\ Tells("CONTINUE")
    [] a = "save-15s" -> app' = SettledHere(app) /\ Tells("SAVE")
    [] a = "restart-safe" -> app' = [app EXCEPT !.state = "leaving"] /\ Tells("CONTINUE")

(* resolve-security-lockdown *)
ResolveLockdown ==
  /\ app.state = "up" /\ app.shown /\ clicks < MaxClicks /\ clicks' = clicks + 1
  /\ \/ app.level # "red" /\ Act("continue")
     \/ Act("save-15s")
     \/ Act("restart-safe")
     \/ app.lockdown /\ ~app.asking /\ app' = [app EXCEPT !.asking = TRUE] /\ UNCHANGED toWatchdog
  /\ UNCHANGED <<supervisor, age, toApp, awake, pinged, alerts, stalls>>

(* verifyOwner's answer, however long it took. *)
OwnerAnswers ==
  /\ app.state = "up" /\ app.asking
  /\ \/ Act("ignore")
     \/ app' = [app EXCEPT !.asking = FALSE] /\ UNCHANGED toWatchdog
  /\ UNCHANGED <<supervisor, age, toApp, awake, pinged, alerts, stalls, clicks>>

(* gracefulShutdown; the process exits a little later, as after restart-safe, *)
(* and what it still hears or sends until then changes nothing.               *)
QuitApp ==
  /\ app.state = "up" /\ app' = [app EXCEPT !.state = "leaving"] /\ Tells("QUIT")
  /\ UNCHANGED <<supervisor, age, toApp, awake, pinged, alerts, stalls, clicks>>

Exit ==
  /\ app.state = "leaving" /\ app' = AppEnded("exited") /\ Tells("CLOSED") /\ toApp' = <<>>
  /\ UNCHANGED <<supervisor, age, awake, pinged, alerts, stalls, clicks>>

WatchdogNext ==
  \/ TakeLine \/ OnSilence \/ Kill \/ Dies \/ Scan \/ Tick
  \/ Ping \/ Stall \/ Resume \/ TriggerLockdown \/ Hear
  \/ ResolveLockdown \/ OwnerAnswers \/ QuitApp \/ Exit

(* The watchdog's loop and clock go on; so does the app's, unless it stops:   *)
(* nothing makes a stopped main thread go on, or the user answer.             *)
SentinelRuns == TakeLine \/ OnSilence \/ Kill \/ Tick
AppRuns == Ping \/ Hear \/ Exit
WatchdogFairness == WF_watchdog(SentinelRuns) /\ WF_watchdog(AppRuns)

WatchdogSpec == WatchdogInit /\ [][WatchdogNext]_watchdog /\ WatchdogFairness

--------------------------------------------------
(* Properties *)

WatchdogTypeOK ==
  /\ supervisor \in [mode : Lockdowns \cup {"watching", "sleeping", "gone"}, left : 0..Grace \cup 0..SaveExtension, saves : 0..MaxSaves]
  /\ app \in [state : {"up", "stalled", "leaving", "exited", "killed", "restarted"},
              level : {"none"} \cup UiAlive, lockdown : BOOLEAN, polluted : BOOLEAN,
              disabled : BOOLEAN, socket : BOOLEAN, shown : BOOLEAN, asking : BOOLEAN]
  /\ awake \in {0, 1} /\ pinged \in BOOLEAN
  /\ alerts \in 0..MaxAlerts /\ stalls \in 0..MaxStalls /\ clicks \in 0..MaxClicks

(* The watchdog acts within the grace and the extensions it may grant, be     *)
(* what it hears what it may; it restarts no app whose main thread has run    *)
(* for a while, whether that thread sends heartbeats or was told not to.      *)
KilledInTime ==
  /\ supervisor.mode \in {"freeze", "red"} => age < Grace + MaxSaves * SaveExtension
  /\ app.state = "restarted" => awake = 0

(* When no line is on its way, both ends agree: the windows show an alert,    *)
(* at its level, exactly while the watchdog is in one, and heartbeats stop    *)
(* exactly when it sleeps. A shown alert can be dealt with.                   *)
NothingOnItsWay == Alive /\ app.state = "up" /\ app.socket /\ toWatchdog = <<>> /\ toApp = <<>>
AlertsAgree ==
  /\ NothingOnItsWay => /\ app.shown <=> supervisor.mode \in UiAlive
                        /\ app.shown => app.level = supervisor.mode
                        /\ app.disabled <=> supervisor.mode = "sleeping"
  /\ app.shown => app.lockdown

(* A freeze or a red alert comes to an end: by a heartbeat, by the user or by *)
(* the deadline. Nothing turns the one into the other on the way.             *)
LockdownEnds ==
  supervisor.mode \in {"freeze", "red"} ~> supervisor.mode \notin {"freeze", "red"}
=============================================================================
