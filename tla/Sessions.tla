------------------------------ MODULE Sessions ------------------------------
(* Terminal sessions in the main process: sshHandler.ts dials, verifies the   *)
(* host key, opens the shell and tears down; ptyHandler.ts does the same for  *)
(* local shells and Telnet; ConnectionManager.ts holds the entries. The       *)
(* windows (LeafPane.tsx, useSessionManager.ts) show a session in a pane,     *)
(* close panes and reconnect. One host; every await is a step of its own.     *)

EXTENDS Naturals

CONSTANTS
  Sessions,  \* session ids
  Protocols  \* of {"ssh", "telnet", "local"}

ASSUME SessionsConstants == Protocols \subseteq {"ssh", "telnet", "local"}

NoSession == "none"

VARIABLES
  session,  \* per id, what the maps of the main process and its tasks hold
  known,    \* known_hosts.json has the host's key
  blocker,  \* the power save blocker is on
  quitting  \* "no", "teardown" or "done"

sessions == <<session, known, blocker, quitting>>

NoConnect == [
  protocol |-> "ssh",
  dial |-> "none",      \* phase of the connect: see Dialing; "up", "failing", "failed" when settled
  timer |-> FALSE,      \* the handshake (Telnet: connect) timer runs
  verifying |-> FALSE,  \* hostVerifier waits for known_hosts.json
  prompt |-> "none",    \* the host-key prompt: "open", or "saving" once answered with accept-save
  routed |-> FALSE,     \* sessionProtocols
  entry |-> FALSE,      \* connectionManager.sessions
  active |-> FALSE,     \* activeConnections
  config |-> FALSE,     \* sessionConfigs
  recording |-> FALSE,  \* sshAuditStreams
  records |-> 0,        \* its records in connection_history.json
  link |-> "none",      \* the shell's channel, socket or process: "open", "closing", "closed"
  closing |-> "no",     \* the close handler: "recording", "removing", "done"
  ending |-> FALSE,     \* disconnectSession waits for removeSession
  pane |-> "none",      \* its pane in the layout: "shown", "flagged" disconnected, "gone"
  for |-> NoSession]    \* the session whose pane this reconnect is for

Dialing == {"proxy", "kex", "auth", "shell", "refused"}
Settled(r) == r.dial \notin Dialing

SessionsInit ==
  /\ session = [s \in Sessions |-> NoConnect]
  /\ known = FALSE /\ blocker = FALSE /\ quitting = "no"

Put(s, r) == session' = [session EXCEPT ![s] = r]

(* updatePowerSaveBlocker, with s left as r. *)
Blocked(s, r) == blocker' = (r.entry \/ \E t \in Sessions \ {s} : session[t].entry)

--------------------------------------------------
(* Connecting *)

(* The session is open: what the connect paths of all protocols remember. *)
Up(r) == [r EXCEPT !.dial = "up", !.timer = FALSE, !.active = TRUE, !.config = TRUE, !.link = "open"]

Begin(s, target) ==
  /\ quitting = "no" /\ session[s].dial = "none"
  /\ \E p \in Protocols :
       LET r == [NoConnect EXCEPT !.protocol = p, !.for = target] IN
         \/ p = "ssh" /\ Put(s, [r EXCEPT !.dial = "failed"]) /\ UNCHANGED blocker
         \/ /\ p = "ssh" /\ UNCHANGED blocker
            /\ \E d \in {"proxy", "kex"} :
                 Put(s, [r EXCEPT !.dial = d, !.timer = TRUE, !.routed = TRUE, !.entry = TRUE])
         \/ p = "telnet" /\ UNCHANGED blocker
            /\ Put(s, [r EXCEPT !.dial = "kex", !.timer = TRUE, !.routed = TRUE])
         \/ p = "local" /\ Put(s, [Up(r) EXCEPT !.routed = TRUE, !.entry = TRUE]) /\ blocker' = TRUE
         \/ p = "local" /\ Put(s, [r EXCEPT !.dial = "failed"]) /\ UNCHANGED blocker
  /\ UNCHANGED <<known, quitting>>

(* ssh-connect. *)
Connect(s) == Begin(s, NoSession)

TelnetConnected(s) ==
  /\ session[s].protocol = "telnet" /\ session[s].dial = "kex"
  /\ Put(s, [Up(session[s]) EXCEPT !.entry = TRUE])
  /\ blocker' = TRUE
  /\ UNCHANGED <<known, quitting>>

ProxyReady(s) ==
  /\ session[s].dial = "proxy"
  /\ Put(s, [session[s] EXCEPT !.dial = "kex", !.timer = TRUE])
  /\ UNCHANGED <<known, blocker, quitting>>

HostKey(s) ==
  /\ session[s].protocol = "ssh" /\ session[s].dial = "kex"
  /\ ~session[s].verifying /\ session[s].prompt = "none"
  /\ Put(s, [session[s] EXCEPT !.verifying = TRUE])
  /\ UNCHANGED <<known, blocker, quitting>>

Trusted(r) == IF r.dial = "kex" THEN [r EXCEPT !.dial = "auth"] ELSE r
Refused(r) == IF r.dial = "kex" THEN [r EXCEPT !.dial = "refused"] ELSE r
Prompting(r) == [r EXCEPT !.prompt = "open", !.timer = FALSE]

(* A slip: the prompt is shown although the connect was given up meanwhile. *)
VerifyAnyway(s) ==
  /\ session[s].verifying
  /\ Put(s, Prompting([session[s] EXCEPT !.verifying = FALSE]))
  /\ UNCHANGED <<known, blocker, quitting>>

(* hostVerifier once the known hosts are read: a key that changed is refused   *)
(* outright under strict checking, any other unknown key is asked about.      *)
Verify(s) ==
  /\ session[s].verifying
  /\ LET r == [session[s] EXCEPT !.verifying = FALSE] IN
       \/ known /\ Put(s, Trusted(r))
       \/ Put(s, Refused(r))
       \/ ~Settled(r) /\ quitting = "no" /\ Put(s, Prompting(r))
  /\ UNCHANGED <<known, blocker, quitting>>

(* The prompt's answer; the timer runs again unless the connect has settled. *)
Answered(r, yes) ==
  [IF yes THEN Trusted(r) ELSE Refused(r) EXCEPT !.prompt = "none", !.timer = ~Settled(r)]

(* host-verification-result. *)
AnswerPrompt(s) ==
  /\ session[s].prompt = "open"
  /\ \/ \E yes \in BOOLEAN : Put(s, Answered(session[s], yes))
     \/ Put(s, [session[s] EXCEPT !.prompt = "saving"])
  /\ UNCHANGED <<known, blocker, quitting>>

(* Saved or not, the user has accepted the key. *)
SaveHost(s) ==
  /\ session[s].prompt = "saving"
  /\ known' \in {known, TRUE}
  /\ Put(s, Answered(session[s], TRUE))
  /\ UNCHANGED <<blocker, quitting>>

(* Nobody answers in time, or the window goes away. *)
PromptEnds(s) ==
  /\ session[s].prompt # "none"
  /\ Put(s, Answered(session[s], FALSE))
  /\ UNCHANGED <<known, blocker, quitting>>

Authenticated(s) ==
  /\ session[s].dial = "auth"
  /\ Put(s, [session[s] EXCEPT !.dial = "shell", !.timer = TRUE])
  /\ UNCHANGED <<known, blocker, quitting>>

(* The shell channel is open; enableAuditLogging may start a recording. *)
ShellOpens(s) ==
  /\ session[s].dial = "shell"
  /\ \E audit \in BOOLEAN :
       LET r == [Up(session[s]) EXCEPT !.recording = audit] IN Put(s, r) /\ Blocked(s, r)
  /\ UNCHANGED <<known, quitting>>

(* failConnect up to its await (Telnet: settle). An answer being saved can no *)
(* longer be cancelled.                                                       *)
Failed(r) ==
  [r EXCEPT !.dial = IF r.protocol = "ssh" THEN "failing" ELSE "failed",
            !.timer = FALSE, !.routed = FALSE, !.entry = FALSE,
            !.prompt = IF @ = "open" THEN "none" ELSE @]

(* The handshake, proxy, shell or Telnet timer. *)
TimesOut(s) ==
  /\ ~Settled(session[s]) /\ session[s].timer
  /\ Put(s, Failed(session[s]))
  /\ UNCHANGED <<known, blocker, quitting>>

(* The network, the proxy or the server ends the attempt. *)
AttemptFails(s) ==
  /\ ~Settled(session[s])
  /\ Put(s, Failed(session[s]))
  /\ UNCHANGED <<known, blocker, quitting>>

FailReported(s) ==
  /\ session[s].dial = "failing"
  /\ LET r == [session[s] EXCEPT !.dial = "failed"] IN Put(s, r) /\ Blocked(s, r)
  /\ UNCHANGED <<known, quitting>>

--------------------------------------------------
(* Ending *)

(* recordDisconnect up to its await: a connection is recorded once. *)
Recorded(r) == IF r.active THEN [r EXCEPT !.active = FALSE, !.records = @ + 1] ELSE r

(* markIfEndedOnItsOwn and the ssh-closed broadcast to the mounted terminals. *)
Marked(r) == [r EXCEPT !.pane = IF @ = "shown" THEN "flagged" ELSE @]

(* The channel, socket or process has closed, on its own or because of us:    *)
(* the handler up to its first await.                                         *)
LinkCloses(s) ==
  /\ session[s].link \in {"open", "closing"}
  /\ LET r == [session[s] EXCEPT !.link = "closed", !.routed = FALSE] IN
       Put(s, IF r.protocol = "ssh"
              THEN [Recorded(r) EXCEPT !.recording = FALSE, !.closing = "recording"]
              ELSE [r EXCEPT !.entry = FALSE, !.closing = "removing"])
  /\ UNCHANGED <<known, blocker, quitting>>

(* SSH: the record is written; removeSession up to its await. *)
CloseRecorded(s) ==
  /\ session[s].closing = "recording"
  /\ Put(s, [session[s] EXCEPT !.entry = FALSE, !.closing = "removing"])
  /\ UNCHANGED <<known, blocker, quitting>>

CloseFinishes(s) ==
  /\ session[s].closing = "removing"
  /\ LET r == Marked([Recorded(session[s]) EXCEPT !.closing = "done"]) IN Put(s, r) /\ Blocked(s, r)
  /\ UNCHANGED <<known, quitting>>

(* A slip: the channel is left to the server. *)
DisconnectedOpen(r) ==
  [r EXCEPT !.config = FALSE, !.routed = FALSE, !.recording = FALSE, !.entry = FALSE, !.ending = TRUE]

(* disconnectSession up to its await. A shell process or socket is known by   *)
(* its route, an SSH channel by its entry; a client that is still connecting  *)
(* is ended, one that waits for its proxy has nothing to end yet.             *)
Disconnected(r) ==
  LET reached == IF r.protocol = "ssh" THEN r.entry ELSE r.routed
      cut == r.protocol = "ssh" /\ r.entry /\ r.dial \in {"kex", "auth", "shell"}
      pty == r.protocol # "ssh" /\ r.routed IN
    [r EXCEPT !.config = FALSE, !.routed = FALSE, !.ending = TRUE,
              !.entry = FALSE,
              !.recording = pty /\ @,
              !.link = IF reached /\ @ = "open" THEN "closing" ELSE @,
              !.dial = IF cut THEN "refused" ELSE @]

Disconnect(s, r) == IF r.ending THEN Put(s, r) ELSE Put(s, Disconnected(r))

(* The rest of disconnectSession. *)
DisconnectFinishes(s) ==
  /\ session[s].ending
  /\ LET r == [Recorded(session[s]) EXCEPT !.ending = FALSE] IN Put(s, r) /\ Blocked(s, r)
  /\ UNCHANGED <<known, quitting>>

--------------------------------------------------
(* The windows *)

(* handleConnect has the reply: the pane is put into the layout. *)
Show(s) ==
  /\ quitting = "no"
  /\ session[s].dial = "up" /\ session[s].pane = "none" /\ session[s].for = NoSession
  /\ Put(s, [session[s] EXCEPT !.pane = "shown"])
  /\ UNCHANGED <<known, blocker, quitting>>

(* The layout hands the sessions of closed panes to disconnectSession. *)
ClosePane(s) ==
  /\ quitting = "no" /\ session[s].pane \in {"shown", "flagged"}
  /\ Disconnect(s, [session[s] EXCEPT !.pane = "gone"])
  /\ UNCHANGED <<known, blocker, quitting>>

(* Enter on a disconnected terminal, with the config kept for the session. *)
Reconnect(s, old) ==
  /\ session[old].pane = "flagged" /\ session[old].config
  /\ \A t \in Sessions : session[t].for # old
  /\ Begin(s, old)

(* A slip: the session dialled for a pane that was closed meanwhile is kept. *)
ReplaceOrKeep(s) ==
  LET old == session[s].for IN
    /\ quitting = "no"
    /\ session[s].dial = "up" /\ session[s].pane = "none" /\ old # NoSession
    /\ session' = IF session[old].pane = "gone" THEN [session EXCEPT ![s].pane = "gone"]
                  ELSE [session EXCEPT ![s].pane = "shown",
                          ![old] = IF @.ending THEN [@ EXCEPT !.pane = "gone"]
                                   ELSE Disconnected([@ EXCEPT !.pane = "gone"])]
    /\ UNCHANGED <<known, blocker, quitting>>

(* The replace request for a session that is up: the pane shows it and its old *)
(* session is retired, or, with the pane closed meanwhile, the new one is.     *)
Replace(s) ==
  LET old == session[s].for IN
    /\ quitting = "no"
    /\ session[s].dial = "up" /\ session[s].pane = "none" /\ old # NoSession
    /\ IF session[old].pane = "gone"
       THEN Disconnect(s, [session[s] EXCEPT !.pane = "gone"])
       ELSE session' = [session EXCEPT ![s].pane = "shown",
                          ![old] = IF @.ending THEN [@ EXCEPT !.pane = "gone"]
                                   ELSE Disconnected([@ EXCEPT !.pane = "gone"])]
    /\ UNCHANGED <<known, blocker, quitting>>

(* killAllSessions: every id some map still has. *)
Quit ==
  /\ quitting = "no" /\ quitting' = "teardown"
  /\ session' = [s \in Sessions |->
       LET r == session[s] IN
         IF r.ending \/ ~(r.entry \/ r.routed \/ r.active \/ r.config) THEN r ELSE Disconnected(r)]
  /\ UNCHANGED <<known, blocker>>

QuitFinishes ==
  /\ quitting = "teardown" /\ quitting' = "done"
  /\ \A s \in Sessions : ~session[s].ending
  /\ session' = [s \in Sessions |-> [session[s] EXCEPT !.recording = FALSE]]
  /\ UNCHANGED <<known, blocker>>

SessionsNext ==
  \/ \E s \in Sessions :
       \/ Connect(s) \/ TelnetConnected(s) \/ ProxyReady(s) \/ HostKey(s) \/ Verify(s)
       \/ AnswerPrompt(s) \/ SaveHost(s) \/ PromptEnds(s) \/ Authenticated(s) \/ ShellOpens(s)
       \/ TimesOut(s) \/ AttemptFails(s) \/ FailReported(s)
       \/ LinkCloses(s) \/ CloseRecorded(s) \/ CloseFinishes(s) \/ DisconnectFinishes(s)
       \/ Show(s) \/ ClosePane(s) \/ Replace(s)
       \/ \E old \in Sessions \ {s} : Reconnect(s, old)
  \/ Quit \/ QuitFinishes

(* What the main process and a window owe to a session: timers fire, awaited  *)
(* work ends, a link we closed reports it, and a window acts on the reply it  *)
(* waits for. The network and the user owe nothing.                           *)
Owed(s) ==
  \/ Verify(s) \/ SaveHost(s) \/ PromptEnds(s) \/ TimesOut(s) \/ FailReported(s)
  \/ session[s].link = "closing" /\ LinkCloses(s)
  \/ CloseRecorded(s) \/ CloseFinishes(s) \/ DisconnectFinishes(s) \/ Show(s) \/ Replace(s)

SessionsFairness == (\A s \in Sessions : WF_sessions(Owed(s))) /\ WF_sessions(QuitFinishes)

SessionsSpec == SessionsInit /\ [][SessionsNext]_sessions /\ SessionsFairness

--------------------------------------------------
(* Properties *)

SessionsTypeOK ==
  /\ known \in BOOLEAN /\ blocker \in BOOLEAN /\ quitting \in {"no", "teardown", "done"}
  /\ \A s \in Sessions :
       /\ session[s].dial \in Dialing \cup {"none", "up", "failing", "failed"}
       /\ session[s].prompt \in {"none", "open", "saving"}
       /\ session[s].link \in {"none", "open", "closing", "closed"}
       /\ session[s].pane \in {"none", "shown", "flagged", "gone"}
       /\ session[s].records \in 0..2

(* While a connect is under way a clock runs for it: the handshake timer, or, *)
(* while the user is asked about the host key, the prompt's own. A prompt is  *)
(* open only for a connect that can still use the answer, and a connect that  *)
(* failed leaves no timer, route or entry behind (failConnect).               *)
ConnectTimed ==
  \A s \in Sessions :
    LET r == session[s] IN
      /\ ~Settled(r) => r.timer \/ r.prompt # "none"
      /\ r.prompt = "open" => ~Settled(r) /\ ~r.timer
      /\ r.dial \in {"failing", "failed"} => ~r.timer /\ ~r.routed /\ ~r.entry /\ ~r.active

Over(r) == r.dial \in {"none", "failed"} \/ (r.closing = "done" /\ ~r.ending)

(* However the window, the server and quitting end a session together, it is  *)
(* recorded once, and when they are done nothing is left of it: no route,     *)
(* entry, active connection or open recording, and no link. A pane is flagged *)
(* disconnected only when the link is really down. The power save blocker is  *)
(* on while a session is up and off once none is left.                        *)
EndsClean ==
  /\ \A s \in Sessions :
       LET r == session[s] IN
         /\ r.records <= 1
         /\ r.closing = "done" /\ ~r.ending =>
              r.records = 1 /\ ~r.routed /\ ~r.entry /\ ~r.active /\ ~r.recording
         /\ r.pane = "gone" => ~r.config /\ r.link # "open"
         /\ r.pane = "flagged" => r.link = "closed"
         /\ r.link = "open" /\ r.entry => blocker
  /\ (\A s \in Sessions : Over(session[s])) => ~blocker

(* A connect that is under way, or a session that is up without a pane. *)
Unresolved(r) == ~Settled(r) \/ (r.link \in {"open", "closing"} /\ r.pane # "shown" /\ quitting = "no")

(* Every connect settles, whatever the server, the proxy and the user leave   *)
(* undone, and a session that comes up is shown by a pane or ended: none runs *)
(* on unseen, also when the pane it was dialled for is gone by then.          *)
(* (An id is used once, so each of them ends when again and again none is     *)
(* under way.)                                                                *)
ConnectSettles == []<>(\A s \in Sessions : ~Unresolved(session[s]))

=============================================================================
