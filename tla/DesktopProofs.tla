---------------------------- MODULE DesktopProofs ----------------------------
(* Proofs about the terminals of the desktop: that a connect under way always *)
(* has a clock (ConnectTimed), that what ends leaves nothing behind           *)
(* (NothingLeftOver), that a terminal shows what its session printed          *)
(* (Lossless, TextIntact) and the server has what was saved (SavesArrive),    *)
(* that a pane is in one tab (OnePlace) and not lost (NothingLost), and that  *)
(* every part of the desktop keeps to its types and bounds (DesktopTypeOK),   *)
(* for any number of sessions, terminals, packets, windows, files and entries.*)

EXTENDS MCDesktop, AppLockProofs, WellFoundedInduction, SequenceTheorems, TLAPS

--------------------------------------------------
(* Sessions.  Clocked is about the connect, OnceUp about the end, BeforeQuit  *)
(* about what only holds as long as nobody quits: quitting takes apart        *)
(* sessions that still wait for their proxy and then come up all the same.    *)

SessionRec ==
  [protocol : {"ssh", "telnet", "local"}, dial : Dialing \cup {"none", "up", "failing", "failed"},
   timer : BOOLEAN, verifying : BOOLEAN, prompt : {"none", "open", "saving"}, routed : BOOLEAN,
   entry : BOOLEAN, active : BOOLEAN, config : BOOLEAN, recording : BOOLEAN, records : {0, 1},
   link : {"none", "open", "closing", "closed"}, closing : {"no", "recording", "removing", "done"},
   ending : BOOLEAN, pane : {"none", "shown", "flagged", "gone"}, for : Sessions \cup {NoSession}]

(* A prompt or a check of the host key belongs to a connect that has got to   *)
(* the host key; only SSH has either.                                         *)
Clocked(r) ==
  /\ ~Settled(r) => r.timer \/ r.prompt # "none"
  /\ r.prompt = "open" => r.dial \in {"kex", "refused"} /\ ~r.timer
  /\ r.prompt # "none" => r.dial \in {"kex", "refused", "failing", "failed"} /\ ~r.verifying
  /\ r.verifying => r.dial \in {"kex", "refused", "failing", "failed"}
  /\ r.dial \in {"failing", "failed"} => ~r.timer /\ ~r.routed /\ ~r.entry /\ ~r.active
  /\ r.protocol # "ssh" =>
       ~r.verifying /\ r.prompt = "none" /\ ~r.recording /\ r.dial \in {"none", "kex", "up", "failed"}
  /\ r.protocol = "local" => r.dial \in {"none", "up", "failed"}

(* Only a session that came up is active, recorded, closed or shown; its      *)
(* record is written when it stops being active, and each step of the close   *)
(* handler finds done what those before it did.                               *)
OnceUp(r) ==
  /\ r.dial # "up" => /\ ~r.active /\ r.records = 0 /\ ~r.recording
                      /\ r.link = "none" /\ r.closing = "no" /\ r.pane = "none"
  /\ r.dial = "up" => r.link # "none" /\ (r.active <=> r.records = 0)
  /\ r.dial = "none" => ~r.entry /\ ~r.ending /\ ~r.routed /\ ~r.config
  /\ ~Settled(r) /\ r.protocol = "telnet" => ~r.entry
  /\ r.closing # "no" <=> r.link = "closed"
  /\ r.link = "closed" => ~r.routed /\ ~r.recording /\ (r.protocol = "ssh" => ~r.active)
  /\ r.closing \in {"removing", "done"} => ~r.entry
  /\ r.closing = "done" => ~r.active
  /\ r.pane = "flagged" => r.link = "closed"
  /\ r.pane = "gone" => ~r.config /\ r.link # "open"

(* Until then disconnectSession reaches every link, so that a session that is *)
(* being ended has none open.                                                 *)
BeforeQuit(r) ==
  /\ r.ending => r.dial = "up" /\ ~r.config /\ r.link # "open"
  /\ r.dial \in {"proxy", "kex", "auth", "shell"} /\ r.protocol = "ssh" => r.entry
  /\ r.dial = "kex" /\ r.protocol = "telnet" => r.routed
  /\ r.link = "open" => IF r.protocol = "ssh" THEN r.entry ELSE r.routed

Sound(r, q) == r \in SessionRec /\ Clocked(r) /\ OnceUp(r) /\ (q = "no" => BeforeQuit(r))

(* A session for which the power save blocker is on. *)
Lights(r) == ~Over(r) /\ ~(r.protocol = "telnet" /\ ~Settled(r))

Retired(r) == r.pane \in {"flagged", "gone"}

EachSound == \A s \in Sessions : Sound(session[s], quitting)
Replaces  == \A s \in Sessions : session[s].for # NoSession => Retired(session[session[s].for])
LitUp     == \A s \in Sessions : session[s].link = "open" /\ session[s].entry => blocker
LitFor    == blocker => \E s \in Sessions : Lights(session[s])

SessionsInv ==
  /\ known \in BOOLEAN /\ blocker \in BOOLEAN /\ quitting \in {"no", "teardown", "done"}
  /\ session \in [Sessions -> SessionRec]
  /\ EachSound /\ Replaces /\ LitUp /\ LitFor

LEMMA EntryLights ==
  ASSUME NEW r, NEW q, Sound(r, q), r.entry
  PROVE  Lights(r)
BY DEF Sound, SessionRec, Clocked, OnceUp, Lights, Over, Settled, Dialing

(* A step that leaves a session as n where it was r brings none up and lets   *)
(* none reach its end, so that the blocker may stay as it is.                 *)
KeepsLight(r, n) ==
  /\ Lights(r) => Lights(n)
  /\ n.link = "open" /\ n.entry => r.link = "open" /\ r.entry

KeepsPane(r, n) == n.for = r.for /\ (Retired(r) => Retired(n))

Quietly(r, n) == KeepsLight(r, n) /\ KeepsPane(r, n)

LEMMA QuietStep ==
  ASSUME SessionsInv, session' \in [Sessions -> SessionRec],
         \A s \in Sessions : Sound(session'[s], quitting') /\ Quietly(session[s], session'[s]),
         blocker' = blocker, known' \in BOOLEAN, quitting' \in {"no", "teardown", "done"}
  PROVE  SessionsInv'
<1>1. EachSound' BY DEF EachSound
<1>2. Replaces'
 <2> SUFFICES ASSUME NEW t \in Sessions, session'[t].for # NoSession
              PROVE  Retired(session'[session'[t].for])
  BY DEF Replaces, Retired
 <2>1. session'[t].for = session[t].for /\ session[t].for \in Sessions \cup {NoSession}
  BY DEF SessionsInv, SessionRec, Quietly, KeepsPane
 <2> QED BY <2>1 DEF SessionsInv, Replaces, Quietly, KeepsPane
<1>3. LitUp' BY DEF SessionsInv, LitUp, Quietly, KeepsLight
<1>4. LitFor' BY DEF SessionsInv, LitFor, Quietly, KeepsLight
<1> QED BY <1>1, <1>2, <1>3, <1>4 DEF SessionsInv

(* What a step may do to the blocker when it leaves session s as r. *)
BlockerRight(s, r) ==
  \/ Blocked(s, r)
  \/ blocker' = TRUE /\ Lights(r)
  \/ blocker' = blocker /\ KeepsLight(session[s], r)

LEMMA OneChanges ==
  ASSUME SessionsInv, NEW s \in Sessions, NEW r, Put(s, r), Sound(r, quitting),
         quitting' = quitting, known' \in BOOLEAN,
         Retired(session[s]) => Retired(r),
         r.for = session[s].for \/ r.for = NoSession \/ (r.for # s /\ Retired(session[r.for])),
         BlockerRight(s, r)
  PROVE  SessionsInv'
<1>1. /\ session' \in [Sessions -> SessionRec] /\ session'[s] = r
      /\ \A t \in Sessions \ {s} : session'[t] = session[t]
 BY DEF SessionsInv, Put, Sound
<1>2. EachSound' BY <1>1 DEF SessionsInv, EachSound
<1>3. \A t \in Sessions : session[t].for \in Sessions \cup {NoSession}
 BY DEF SessionsInv, SessionRec
<1>4. \A t \in Sessions : Retired(session[t]) => Retired(session'[t]) BY <1>1
<1>5. r.for \in Sessions \cup {NoSession} BY DEF Sound, SessionRec
<1>6. Replaces'
 <2> SUFFICES ASSUME NEW t \in Sessions, session'[t].for # NoSession
              PROVE  Retired(session'[session'[t].for])
  BY DEF Replaces, Retired
 <2>1. CASE session'[t].for = session[t].for BY <1>3, <1>4, <2>1 DEF SessionsInv, Replaces
 <2>2. CASE session'[t].for # session[t].for BY <1>1, <1>4, <1>5, <2>2
 <2> QED BY <2>1, <2>2
<1>7. CASE Blocked(s, r)
 <2>1. blocker' <=> \E t \in Sessions : session'[t].entry BY <1>1, <1>7 DEF Blocked
 <2>2. LitUp' BY <2>1 DEF LitUp
 <2>3. LitFor' BY <1>2, <2>1, EntryLights DEF LitFor, EachSound
 <2>4. blocker' \in BOOLEAN BY <1>7 DEF Blocked, SessionsInv, SessionRec, Sound
 <2> QED BY <1>1, <1>2, <1>6, <2>2, <2>3, <2>4 DEF SessionsInv
<1>8. CASE blocker' = TRUE /\ Lights(r) BY <1>1, <1>2, <1>6, <1>8 DEF SessionsInv, LitUp, LitFor
<1>9. CASE blocker' = blocker /\ KeepsLight(session[s], r)
 <2>1. LitUp' BY <1>1, <1>9 DEF SessionsInv, LitUp, KeepsLight
 <2>2. LitFor' BY <1>1, <1>9 DEF SessionsInv, LitFor, KeepsLight
 <2> QED BY <1>1, <1>2, <1>6, <1>9, <2>1, <2>2 DEF SessionsInv
<1> QED BY <1>7, <1>8, <1>9 DEF BlockerRight

--------------------------------------------------
(* What the steps make of one session's record *)

LEMMA RefusedSound ==
  ASSUME NEW q, NEW target \in Sessions \cup {NoSession}, NEW p \in {"ssh", "local"}
  PROVE  Sound([[NoConnect EXCEPT !.protocol = p, !.for = target] EXCEPT !.dial = "failed"], q)
<1> DEFINE n == [[NoConnect EXCEPT !.protocol = p, !.for = target] EXCEPT !.dial = "failed"]
<1>1. n \in SessionRec BY DEF SessionRec, Dialing, NoConnect
<1>2. Clocked(n) /\ OnceUp(n) /\ BeforeQuit(n)
 BY DEF Clocked, OnceUp, BeforeQuit, Settled, Dialing, NoConnect
<1> QED BY <1>1, <1>2 DEF Sound

LEMMA DialsSound ==
  ASSUME NEW q, NEW target \in Sessions \cup {NoSession}, NEW d \in {"proxy", "kex"}
  PROVE  Sound([[NoConnect EXCEPT !.protocol = "ssh", !.for = target]
                   EXCEPT !.dial = d, !.timer = TRUE, !.routed = TRUE, !.entry = TRUE], q)
<1> DEFINE n == [[NoConnect EXCEPT !.protocol = "ssh", !.for = target]
                 EXCEPT !.dial = d, !.timer = TRUE, !.routed = TRUE, !.entry = TRUE]
<1>1. n \in SessionRec BY DEF SessionRec, Dialing, NoConnect
<1>2. Clocked(n) /\ OnceUp(n) /\ BeforeQuit(n)
 BY DEF Clocked, OnceUp, BeforeQuit, Settled, Dialing, NoConnect
<1> QED BY <1>1, <1>2 DEF Sound

LEMMA DialsTelnetSound ==
  ASSUME NEW q, NEW target \in Sessions \cup {NoSession}
  PROVE  Sound([[NoConnect EXCEPT !.protocol = "telnet", !.for = target]
                   EXCEPT !.dial = "kex", !.timer = TRUE, !.routed = TRUE], q)
<1> DEFINE n == [[NoConnect EXCEPT !.protocol = "telnet", !.for = target]
                 EXCEPT !.dial = "kex", !.timer = TRUE, !.routed = TRUE]
<1>1. n \in SessionRec BY DEF SessionRec, Dialing, NoConnect
<1>2. Clocked(n) /\ OnceUp(n) /\ BeforeQuit(n)
 BY DEF Clocked, OnceUp, BeforeQuit, Settled, Dialing, NoConnect
<1> QED BY <1>1, <1>2 DEF Sound

LEMMA LocalSound ==
  ASSUME NEW q, NEW target \in Sessions \cup {NoSession}
  PROVE  Sound([Up([NoConnect EXCEPT !.protocol = "local", !.for = target])
                   EXCEPT !.routed = TRUE, !.entry = TRUE], q)
<1> DEFINE n == [Up([NoConnect EXCEPT !.protocol = "local", !.for = target])
                 EXCEPT !.routed = TRUE, !.entry = TRUE]
<1>1. n \in SessionRec BY DEF SessionRec, Dialing, NoConnect, Up
<1>2. Clocked(n) /\ OnceUp(n) /\ BeforeQuit(n)
 BY DEF Clocked, OnceUp, BeforeQuit, Settled, Dialing, NoConnect, Up
<1> QED BY <1>1, <1>2 DEF Sound

LEMMA TelnetUpSound ==
  ASSUME NEW q, NEW r, Sound(r, q), r.protocol = "telnet", r.dial = "kex"
  PROVE  Sound([Up(r) EXCEPT !.entry = TRUE], q)
<1> DEFINE n == [Up(r) EXCEPT !.entry = TRUE]
<1>1. n \in SessionRec BY DEF Sound, SessionRec, Settled, Dialing, Up
<1>2. Clocked(n) BY DEF Sound, SessionRec, Settled, Dialing, Clocked, OnceUp, Up
<1>3. OnceUp(n) BY DEF Sound, SessionRec, Settled, Dialing, Clocked, OnceUp, Up
<1>4. q = "no" => BeforeQuit(n)
 BY DEF Sound, SessionRec, Settled, Dialing, Clocked, OnceUp, BeforeQuit, Up
<1> QED BY <1>1, <1>2, <1>3, <1>4 DEF Sound

LEMMA ShellUpSound ==
  ASSUME NEW q, NEW r, Sound(r, q), r.dial = "shell", NEW audit \in BOOLEAN
  PROVE  Sound([Up(r) EXCEPT !.recording = audit], q)
<1> DEFINE n == [Up(r) EXCEPT !.recording = audit]
<1>1. n \in SessionRec BY DEF Sound, SessionRec, Settled, Dialing, Up
<1>2. Clocked(n) BY DEF Sound, SessionRec, Settled, Dialing, Clocked, OnceUp, Up
<1>3. OnceUp(n) BY DEF Sound, SessionRec, Settled, Dialing, Clocked, OnceUp, Up
<1>4. q = "no" => BeforeQuit(n)
 BY DEF Sound, SessionRec, Settled, Dialing, Clocked, OnceUp, BeforeQuit, Up
<1> QED BY <1>1, <1>2, <1>3, <1>4 DEF Sound

LEMMA ProxySound ==
  ASSUME NEW q, NEW r, Sound(r, q), r.dial = "proxy"
  PROVE  Sound([r EXCEPT !.dial = "kex", !.timer = TRUE], q)
<1> DEFINE n == [r EXCEPT !.dial = "kex", !.timer = TRUE]
<1>1. n \in SessionRec BY DEF Sound, SessionRec, Settled, Dialing
<1>2. Clocked(n) BY DEF Sound, SessionRec, Settled, Dialing, Clocked, OnceUp
<1>3. OnceUp(n) BY DEF Sound, SessionRec, Settled, Dialing, Clocked, OnceUp
<1>4. q = "no" => BeforeQuit(n)
 BY DEF Sound, SessionRec, Settled, Dialing, Clocked, OnceUp, BeforeQuit
<1> QED BY <1>1, <1>2, <1>3, <1>4 DEF Sound

LEMMA VerifyingSound ==
  ASSUME NEW q, NEW r, Sound(r, q), r.protocol = "ssh", r.dial = "kex",
         ~r.verifying, r.prompt = "none"
  PROVE  Sound([r EXCEPT !.verifying = TRUE], q)
<1> DEFINE n == [r EXCEPT !.verifying = TRUE]
<1>1. n \in SessionRec BY DEF Sound, SessionRec, Settled, Dialing
<1>2. Clocked(n) BY DEF Sound, SessionRec, Settled, Dialing, Clocked, OnceUp
<1>3. OnceUp(n) BY DEF Sound, SessionRec, Settled, Dialing, Clocked, OnceUp
<1>4. q = "no" => BeforeQuit(n)
 BY DEF Sound, SessionRec, Settled, Dialing, Clocked, OnceUp, BeforeQuit
<1> QED BY <1>1, <1>2, <1>3, <1>4 DEF Sound

LEMMA SavingSound ==
  ASSUME NEW q, NEW r, Sound(r, q), r.prompt = "open"
  PROVE  Sound([r EXCEPT !.prompt = "saving"], q)
<1> DEFINE n == [r EXCEPT !.prompt = "saving"]
<1>1. n \in SessionRec BY DEF Sound, SessionRec, Settled, Dialing
<1>2. Clocked(n) BY DEF Sound, SessionRec, Settled, Dialing, Clocked, OnceUp
<1>3. OnceUp(n) BY DEF Sound, SessionRec, Settled, Dialing, Clocked, OnceUp
<1>4. q = "no" => BeforeQuit(n)
 BY DEF Sound, SessionRec, Settled, Dialing, Clocked, OnceUp, BeforeQuit
<1> QED BY <1>1, <1>2, <1>3, <1>4 DEF Sound

LEMMA AuthSound ==
  ASSUME NEW q, NEW r, Sound(r, q), r.dial = "auth"
  PROVE  Sound([r EXCEPT !.dial = "shell", !.timer = TRUE], q)
<1> DEFINE n == [r EXCEPT !.dial = "shell", !.timer = TRUE]
<1>1. n \in SessionRec BY DEF Sound, SessionRec, Settled, Dialing
<1>2. Clocked(n) BY DEF Sound, SessionRec, Settled, Dialing, Clocked, OnceUp
<1>3. OnceUp(n) BY DEF Sound, SessionRec, Settled, Dialing, Clocked, OnceUp
<1>4. q = "no" => BeforeQuit(n)
 BY DEF Sound, SessionRec, Settled, Dialing, Clocked, OnceUp, BeforeQuit
<1> QED BY <1>1, <1>2, <1>3, <1>4 DEF Sound

LEMMA TrustedSound ==
  ASSUME NEW q, NEW r, Sound(r, q), r.verifying
  PROVE  Sound(Trusted([r EXCEPT !.verifying = FALSE]), q)
<1> DEFINE n == Trusted([r EXCEPT !.verifying = FALSE])
<1>1. n \in SessionRec BY ZenonT(60) DEF Sound, SessionRec, Settled, Dialing, Trusted
<1>2. Clocked(n) BY DEF Sound, SessionRec, Settled, Dialing, Clocked, OnceUp, Trusted
<1>3. OnceUp(n) BY DEF Sound, SessionRec, Settled, Dialing, Clocked, OnceUp, Trusted
<1>4. q = "no" => BeforeQuit(n)
 BY DEF Sound, SessionRec, Settled, Dialing, Clocked, OnceUp, BeforeQuit, Trusted
<1> QED BY <1>1, <1>2, <1>3, <1>4 DEF Sound

LEMMA RefusedKeySound ==
  ASSUME NEW q, NEW r, Sound(r, q), r.verifying
  PROVE  Sound(Refused([r EXCEPT !.verifying = FALSE]), q)
<1> DEFINE n == Refused([r EXCEPT !.verifying = FALSE])
<1>1. n \in SessionRec BY ZenonT(60) DEF Sound, SessionRec, Settled, Dialing, Refused
<1>2. Clocked(n) BY DEF Sound, SessionRec, Settled, Dialing, Clocked, OnceUp, Refused
<1>3. OnceUp(n) BY DEF Sound, SessionRec, Settled, Dialing, Clocked, OnceUp, Refused
<1>4. q = "no" => BeforeQuit(n)
 BY DEF Sound, SessionRec, Settled, Dialing, Clocked, OnceUp, BeforeQuit, Refused
<1> QED BY <1>1, <1>2, <1>3, <1>4 DEF Sound

LEMMA PromptingSound ==
  ASSUME NEW q, NEW r, Sound(r, q), r.verifying, ~Settled(r)
  PROVE  Sound(Prompting([r EXCEPT !.verifying = FALSE]), q)
<1> DEFINE n == Prompting([r EXCEPT !.verifying = FALSE])
<1>1. n \in SessionRec BY ZenonT(60) DEF Sound, SessionRec, Settled, Dialing, Prompting
<1>2. Clocked(n) BY DEF Sound, SessionRec, Settled, Dialing, Clocked, OnceUp, Prompting
<1>3. OnceUp(n) BY DEF Sound, SessionRec, Settled, Dialing, Clocked, OnceUp, Prompting
<1>4. q = "no" => BeforeQuit(n)
 BY DEF Sound, SessionRec, Settled, Dialing, Clocked, OnceUp, BeforeQuit, Prompting
<1> QED BY <1>1, <1>2, <1>3, <1>4 DEF Sound

LEMMA AnsweredSound ==
  ASSUME NEW q, NEW r, Sound(r, q), r.prompt # "none", NEW yes \in BOOLEAN
  PROVE  Sound(Answered(r, yes), q)
<1> DEFINE d  == IF r.dial # "kex" THEN r.dial ELSE IF yes THEN "auth" ELSE "refused"
           up == ~Settled(r)
           n  == [r EXCEPT !.dial = d, !.prompt = "none", !.timer = up]
<1>1. Answered(r, yes) = n BY DEF Sound, SessionRec, Answered, Trusted, Refused
<1>2. /\ up \in BOOLEAN /\ d \in Dialing \cup {"none", "up", "failing", "failed"}
      /\ up <=> r.dial \in Dialing
      /\ r.dial # "kex" => d = r.dial
      /\ r.dial = "kex" => d \in {"auth", "refused"}
 BY DEF Sound, SessionRec, Settled, Dialing
<1> HIDE DEF d, up
<1>3. n \in SessionRec BY <1>2 DEF Sound, SessionRec
<1>4. Clocked(n) BY <1>2 DEF Sound, SessionRec, Settled, Dialing, Clocked
<1>5. OnceUp(n) BY <1>2 DEF Sound, SessionRec, Settled, Dialing, Clocked, OnceUp
<1>6. q = "no" => BeforeQuit(n) BY <1>2 DEF Sound, SessionRec, Dialing, Clocked, BeforeQuit
<1> QED BY <1>1, <1>3, <1>4, <1>5, <1>6 DEF Sound

LEMMA FailedSound ==
  ASSUME NEW q, NEW r, Sound(r, q), ~Settled(r)
  PROVE  Sound(Failed(r), q)
<1> DEFINE d == IF r.protocol = "ssh" THEN "failing" ELSE "failed"
           p == IF r.prompt = "open" THEN "none" ELSE r.prompt
           n == [r EXCEPT !.dial = d, !.timer = FALSE, !.routed = FALSE, !.entry = FALSE, !.prompt = p]
<1>1. Failed(r) = n BY DEF Sound, SessionRec, Failed
<1>2. /\ d \in {"failing", "failed"} /\ (d = "failing" <=> r.protocol = "ssh")
      /\ p \in {"none", "saving"} /\ (r.prompt = "none" => p = "none")
 BY DEF Sound, SessionRec
<1> HIDE DEF d, p
<1>3. n \in SessionRec BY <1>2 DEF Sound, SessionRec
<1>4. Clocked(n) BY <1>2 DEF Sound, SessionRec, Settled, Dialing, Clocked, OnceUp
<1>5. OnceUp(n) BY <1>2 DEF Sound, SessionRec, Settled, Dialing, OnceUp
<1>6. q = "no" => BeforeQuit(n)
 BY <1>2 DEF Sound, SessionRec, Settled, Dialing, OnceUp, BeforeQuit
<1> QED BY <1>1, <1>3, <1>4, <1>5, <1>6 DEF Sound

LEMMA FailReportedSound ==
  ASSUME NEW q, NEW r, Sound(r, q), r.dial = "failing"
  PROVE  Sound([r EXCEPT !.dial = "failed"], q)
<1> DEFINE n == [r EXCEPT !.dial = "failed"]
<1>1. n \in SessionRec BY DEF Sound, SessionRec, Settled, Dialing
<1>2. Clocked(n) BY DEF Sound, SessionRec, Settled, Dialing, Clocked, OnceUp
<1>3. OnceUp(n) BY DEF Sound, SessionRec, Settled, Dialing, Clocked, OnceUp
<1>4. q = "no" => BeforeQuit(n)
 BY DEF Sound, SessionRec, Settled, Dialing, Clocked, OnceUp, BeforeQuit
<1> QED BY <1>1, <1>2, <1>3, <1>4 DEF Sound

LEMMA RecordedIs ==
  ASSUME NEW r \in SessionRec, OnceUp(r)
  PROVE  Recorded(r) = [r EXCEPT !.active = FALSE, !.records = IF r.active THEN 1 ELSE r.records]
<1>1. CASE r.active
 <2>1. r.dial = "up" /\ r.records = 0 BY <1>1 DEF OnceUp
 <2>2. r.records + 1 = 1 BY <2>1
 <2> QED BY <1>1, <2>2 DEF Recorded
<1>2. CASE ~r.active BY <1>2 DEF Recorded, SessionRec
<1> QED BY <1>1, <1>2

LEMMA SshClosesSound ==
  ASSUME NEW q, NEW r, Sound(r, q), r.link \in {"open", "closing"}, r.protocol = "ssh"
  PROVE  Sound([Recorded([r EXCEPT !.link = "closed", !.routed = FALSE])
                   EXCEPT !.recording = FALSE, !.closing = "recording"], q)
<1> DEFINE rs == IF r.active THEN 1 ELSE r.records
           n  == [r EXCEPT !.link = "closed", !.routed = FALSE, !.active = FALSE, !.records = rs,
                     !.recording = FALSE, !.closing = "recording"]
<1>1. [Recorded([r EXCEPT !.link = "closed", !.routed = FALSE])
                 EXCEPT !.recording = FALSE, !.closing = "recording"] = n
 BY ZenonT(60), RecordedIs DEF Sound, SessionRec, Recorded
<1>2. rs \in {0, 1} /\ (r.active => rs = 1) /\ (~r.active => rs = r.records)
 BY DEF Sound, SessionRec
<1> HIDE DEF rs
<1>3. n \in SessionRec BY ZenonT(60), <1>2 DEF Sound, SessionRec
<1>4. Clocked(n) BY DEF Sound, SessionRec, Settled, Clocked
<1>5. OnceUp(n) BY <1>2 DEF Sound, SessionRec, Settled, Dialing, OnceUp
<1>6. q = "no" => BeforeQuit(n) BY DEF Sound, SessionRec, OnceUp, BeforeQuit
<1> QED BY <1>1, <1>3, <1>4, <1>5, <1>6 DEF Sound

LEMMA PtyClosesSound ==
  ASSUME NEW q, NEW r, Sound(r, q), r.link \in {"open", "closing"},
         r.protocol # "ssh"
  PROVE  Sound([[r EXCEPT !.link = "closed", !.routed = FALSE]
                   EXCEPT !.entry = FALSE, !.closing = "removing"], q)
<1> DEFINE n == [[r EXCEPT !.link = "closed", !.routed = FALSE]
                 EXCEPT !.entry = FALSE, !.closing = "removing"]
<1>1. n \in SessionRec BY ZenonT(60) DEF Sound, SessionRec, Settled, Dialing
<1>2. Clocked(n) BY DEF Sound, SessionRec, Settled, Dialing, Clocked, OnceUp
<1>3. OnceUp(n) BY DEF Sound, SessionRec, Settled, Dialing, Clocked, OnceUp
<1>4. q = "no" => BeforeQuit(n)
 BY DEF Sound, SessionRec, Settled, Dialing, Clocked, OnceUp, BeforeQuit
<1> QED BY <1>1, <1>2, <1>3, <1>4 DEF Sound

LEMMA RemovingSound ==
  ASSUME NEW q, NEW r, Sound(r, q), r.closing = "recording"
  PROVE  Sound([r EXCEPT !.entry = FALSE, !.closing = "removing"], q)
<1> DEFINE n == [r EXCEPT !.entry = FALSE, !.closing = "removing"]
<1>1. n \in SessionRec BY DEF Sound, SessionRec, Settled, Dialing
<1>2. Clocked(n) BY DEF Sound, SessionRec, Settled, Dialing, Clocked, OnceUp
<1>3. OnceUp(n) BY DEF Sound, SessionRec, Settled, Dialing, Clocked, OnceUp
<1>4. q = "no" => BeforeQuit(n)
 BY DEF Sound, SessionRec, Settled, Dialing, Clocked, OnceUp, BeforeQuit
<1> QED BY <1>1, <1>2, <1>3, <1>4 DEF Sound

LEMMA MarkedSound ==
  ASSUME NEW q, NEW r, Sound(r, q), r.closing = "removing"
  PROVE  Sound(Marked([Recorded(r) EXCEPT !.closing = "done"]), q)
<1> DEFINE rs == IF r.active THEN 1 ELSE r.records
           p  == IF r.pane = "shown" THEN "flagged" ELSE r.pane
           n  == [r EXCEPT !.active = FALSE, !.records = rs, !.closing = "done", !.pane = p]
<1>1. Marked([Recorded(r) EXCEPT !.closing = "done"]) = n
 BY RecordedIs DEF Sound, SessionRec, Marked
<1>2. rs \in {0, 1} /\ (r.active => rs = 1) /\ (~r.active => rs = r.records)
      /\ p \in {"none", "flagged", "gone"} /\ (p = "flagged" => r.pane \in {"shown", "flagged"})
      /\ (p = "gone" => r.pane = "gone") /\ (r.pane = "none" => p = "none")
 BY DEF Sound, SessionRec
<1> HIDE DEF rs, p
<1>3. n \in SessionRec BY <1>2 DEF Sound, SessionRec
<1>4. Clocked(n) BY DEF Sound, SessionRec, Settled, Clocked
<1>5. OnceUp(n) BY <1>2 DEF Sound, SessionRec, Settled, Dialing, OnceUp
<1>6. q = "no" => BeforeQuit(n) BY DEF Sound, SessionRec, OnceUp, BeforeQuit
<1> QED BY <1>1, <1>3, <1>4, <1>5, <1>6 DEF Sound

LEMMA EndedSound ==
  ASSUME NEW q, NEW r, Sound(r, q), r.ending
  PROVE  Sound([Recorded(r) EXCEPT !.ending = FALSE], q)
<1> DEFINE rs == IF r.active THEN 1 ELSE r.records
           n  == [r EXCEPT !.active = FALSE, !.records = rs, !.ending = FALSE]
<1>1. [Recorded(r) EXCEPT !.ending = FALSE] = n BY RecordedIs DEF Sound, SessionRec
<1>2. rs \in {0, 1} /\ (r.active => rs = 1) /\ (~r.active => rs = r.records)
 BY DEF Sound, SessionRec
<1> HIDE DEF rs
<1>3. n \in SessionRec BY <1>2 DEF Sound, SessionRec
<1>4. Clocked(n) BY DEF Sound, SessionRec, Settled, Clocked
<1>5. OnceUp(n) BY <1>2 DEF Sound, SessionRec, Settled, Dialing, OnceUp
<1>6. q = "no" => BeforeQuit(n) BY DEF Sound, SessionRec, OnceUp, BeforeQuit
<1> QED BY <1>1, <1>3, <1>4, <1>5, <1>6 DEF Sound

LEMMA DisconnectedSound ==
  ASSUME NEW q, NEW r, Sound(r, q), r.dial = "up" \/ (r.dial # "none" /\ q # "no")
  PROVE  Sound(Disconnected(r), q)
<1> DEFINE n == Disconnected(r)
<1>1. n \in SessionRec
 <2> DEFINE pty   == r.protocol # "ssh" /\ r.routed
            cut   == r.protocol = "ssh" /\ r.entry /\ r.dial \in {"kex", "auth", "shell"}
            reach == IF r.protocol = "ssh" THEN r.entry ELSE r.routed
            rec   == pty /\ r.recording
            link  == IF reach /\ r.link = "open" THEN "closing" ELSE r.link
            dial  == IF cut THEN "refused" ELSE r.dial
 <2>1. rec \in BOOLEAN OBVIOUS
 <2>2. link \in {"none", "open", "closing", "closed"} BY DEF Sound, SessionRec
 <2>3. dial \in Dialing \cup {"none", "up", "failing", "failed"}
  BY DEF Sound, SessionRec, Dialing
 <2>4. n = [r EXCEPT !.config = FALSE, !.routed = FALSE, !.ending = TRUE, !.entry = FALSE,
                     !.recording = rec, !.link = link, !.dial = dial]
  BY DEF Sound, SessionRec, Disconnected
 <2> HIDE DEF rec, link, dial
 <2> QED BY ZenonT(60), <2>1, <2>2, <2>3, <2>4 DEF Sound, SessionRec
<1>2. Clocked(n) BY DEF Sound, SessionRec, Settled, Dialing, Clocked, OnceUp, Disconnected
<1>3. OnceUp(n) BY DEF Sound, SessionRec, Settled, Dialing, Clocked, OnceUp, Disconnected
<1>4. q = "no" => BeforeQuit(n)
 BY DEF Sound, SessionRec, Settled, Dialing, Clocked, OnceUp, BeforeQuit, Disconnected
<1> QED BY <1>1, <1>2, <1>3, <1>4 DEF Sound

LEMMA ShownSound ==
  ASSUME NEW q, NEW r, Sound(r, q), r.dial = "up", r.pane = "none"
  PROVE  Sound([r EXCEPT !.pane = "shown"], q)
<1> DEFINE n == [r EXCEPT !.pane = "shown"]
<1>1. n \in SessionRec BY DEF Sound, SessionRec, Settled, Dialing
<1>2. Clocked(n) BY DEF Sound, SessionRec, Settled, Dialing, Clocked, OnceUp
<1>3. OnceUp(n) BY DEF Sound, SessionRec, Settled, Dialing, Clocked, OnceUp
<1>4. q = "no" => BeforeQuit(n)
 BY DEF Sound, SessionRec, Settled, Dialing, Clocked, OnceUp, BeforeQuit
<1> QED BY <1>1, <1>2, <1>3, <1>4 DEF Sound

--------------------------------------------------
(* The steps of Sessions keep the invariant: each by what it makes of its     *)
(* session's record, in the order of SessionsNext.                            *)

LEMMA BeginKeeps ==
  ASSUME SessionsInv, NEW s \in Sessions, NEW target \in Sessions \cup {NoSession},
         Begin(s, target), target # NoSession => target # s /\ Retired(session[target])
  PROVE  SessionsInv'
<1>1. Sound(session[s], quitting) /\ session[s].dial = "none"
 BY DEF SessionsInv, EachSound, Begin
<1>2. ~Retired(session[s]) /\ ~Lights(session[s])
 BY <1>1 DEF Sound, OnceUp, Retired, Lights, Over
<1> DEFINE Fits(n) == Sound(n, quitting) /\ n.for = target /\ BlockerRight(s, n)
           r(p)    == [NoConnect EXCEPT !.protocol = p, !.for = target]
<1>3. ASSUME NEW n, Put(s, n), Fits(n)  PROVE SessionsInv'
 <2>1. quitting' = quitting /\ known' \in BOOLEAN BY DEF Begin, SessionsInv
 <2> QED BY <1>2, <1>3, <2>1, OneChanges
<1>4. ASSUME NEW p \in {"ssh", "local"}, Put(s, [r(p) EXCEPT !.dial = "failed"]), UNCHANGED blocker
      PROVE  SessionsInv'
 <2> DEFINE n == [r(p) EXCEPT !.dial = "failed"]
 <2>1. Sound(n, quitting) BY RefusedSound
 <2>2. n.for = target /\ KeepsLight(session[s], n) BY <1>2 DEF KeepsLight, NoConnect
 <2> QED BY <1>3, <1>4, <2>1, <2>2 DEF BlockerRight
<1>5. ASSUME NEW d \in {"proxy", "kex"}, UNCHANGED blocker,
             Put(s, [r("ssh") EXCEPT !.dial = d, !.timer = TRUE, !.routed = TRUE, !.entry = TRUE])
      PROVE  SessionsInv'
 <2> DEFINE n == [r("ssh") EXCEPT !.dial = d, !.timer = TRUE, !.routed = TRUE, !.entry = TRUE]
 <2>1. Sound(n, quitting) BY DialsSound
 <2>2. n.for = target /\ KeepsLight(session[s], n) BY <1>2 DEF KeepsLight, NoConnect
 <2> QED BY <1>3, <1>5, <2>1, <2>2 DEF BlockerRight
<1>6. ASSUME UNCHANGED blocker,
             Put(s, [r("telnet") EXCEPT !.dial = "kex", !.timer = TRUE, !.routed = TRUE])
      PROVE  SessionsInv'
 <2> DEFINE n == [r("telnet") EXCEPT !.dial = "kex", !.timer = TRUE, !.routed = TRUE]
 <2>1. Sound(n, quitting) BY DialsTelnetSound
 <2>2. n.for = target /\ KeepsLight(session[s], n) BY <1>2 DEF KeepsLight, NoConnect
 <2> QED BY <1>3, <1>6, <2>1, <2>2 DEF BlockerRight
<1>7. ASSUME blocker' = TRUE, Put(s, [Up(r("local")) EXCEPT !.routed = TRUE, !.entry = TRUE])
      PROVE  SessionsInv'
 <2> DEFINE n == [Up(r("local")) EXCEPT !.routed = TRUE, !.entry = TRUE]
 <2>1. Sound(n, quitting) BY LocalSound
 <2>2. n.for = target /\ n.entry BY DEF Up, NoConnect
 <2>3. Lights(n) BY <2>1, <2>2, EntryLights
 <2> QED BY <1>3, <1>7, <2>1, <2>2, <2>3 DEF BlockerRight
<1> QED BY <1>4, <1>5, <1>6, <1>7 DEF Begin

LEMMA TelnetConnectedKeeps ==
  ASSUME SessionsInv, NEW s \in Sessions, TelnetConnected(s)
  PROVE  SessionsInv'
<1> DEFINE n == [Up(session[s]) EXCEPT !.entry = TRUE]
<1>1. Sound(session[s], quitting) BY DEF SessionsInv, EachSound
<1>2. Put(s, n) /\ blocker' = TRUE /\ UNCHANGED quitting /\ known' \in BOOLEAN
 BY DEF TelnetConnected, SessionsInv
<1>3. Sound(n, quitting) BY <1>1, TelnetUpSound DEF TelnetConnected
<1>4. KeepsPane(session[s], n)
 BY <1>1 DEF TelnetConnected, Sound, SessionRec, OnceUp, Retired, KeepsPane, Up
<1>5. Lights(n)
 <2>1. n.entry BY <1>1 DEF Sound, SessionRec, Up
 <2> QED BY <1>3, <2>1, EntryLights
<1> QED BY <1>2, <1>3, <1>4, <1>5, OneChanges DEF BlockerRight, KeepsPane

LEMMA ProxyReadyKeeps ==
  ASSUME SessionsInv, NEW s \in Sessions, ProxyReady(s)
  PROVE  SessionsInv'
<1> DEFINE n == [session[s] EXCEPT !.dial = "kex", !.timer = TRUE]
<1>1. Sound(session[s], quitting) BY DEF SessionsInv, EachSound
<1>2. Put(s, n) /\ UNCHANGED <<blocker, quitting>> /\ known' \in BOOLEAN
 BY DEF ProxyReady, SessionsInv
<1>3. Sound(n, quitting) BY <1>1, ProxySound DEF ProxyReady
<1>4. Quietly(session[s], n)
 BY <1>1 DEF ProxyReady, Sound, SessionRec, Dialing, Clocked, OnceUp, Settled, Lights, Over,
    Retired, KeepsLight, KeepsPane, Quietly
<1> QED BY <1>2, <1>3, <1>4, OneChanges DEF BlockerRight, Quietly, KeepsPane

LEMMA HostKeyKeeps ==
  ASSUME SessionsInv, NEW s \in Sessions, HostKey(s)
  PROVE  SessionsInv'
<1> DEFINE n == [session[s] EXCEPT !.verifying = TRUE]
<1>1. Sound(session[s], quitting) BY DEF SessionsInv, EachSound
<1>2. Put(s, n) /\ UNCHANGED <<blocker, quitting>> /\ known' \in BOOLEAN
 BY DEF HostKey, SessionsInv
<1>3. Sound(n, quitting) BY <1>1, VerifyingSound DEF HostKey
<1>4. Quietly(session[s], n)
 BY <1>1 DEF HostKey, Sound, SessionRec, Dialing, Clocked, OnceUp, Settled, Lights, Over,
    Retired, KeepsLight, KeepsPane, Quietly
<1> QED BY <1>2, <1>3, <1>4, OneChanges DEF BlockerRight, Quietly, KeepsPane

LEMMA VerifyKeeps ==
  ASSUME SessionsInv, NEW s \in Sessions, Verify(s)
  PROVE  SessionsInv'
<1> DEFINE r == [session[s] EXCEPT !.verifying = FALSE]
<1>1. Sound(session[s], quitting) /\ session[s].verifying BY DEF SessionsInv, EachSound, Verify
<1>2. UNCHANGED <<blocker, quitting>> /\ known' \in BOOLEAN BY DEF Verify, SessionsInv
<1>3. ASSUME NEW n, Put(s, n), Sound(n, quitting), Quietly(session[s], n)  PROVE SessionsInv'
 BY <1>2, <1>3, OneChanges DEF BlockerRight, Quietly, KeepsPane
<1>4. CASE Put(s, Trusted(r))
 <2>1. Sound(Trusted(r), quitting) BY <1>1, TrustedSound
 <2>2. Quietly(session[s], Trusted(r))
  BY <1>1 DEF Trusted, Sound, SessionRec, Dialing, Clocked, OnceUp, Settled, Lights, Over,
     Retired, KeepsLight, KeepsPane, Quietly
 <2> QED BY <1>3, <1>4, <2>1, <2>2
<1>5. CASE Put(s, Refused(r))
 <2>1. Sound(Refused(r), quitting) BY <1>1, RefusedKeySound
 <2>2. Quietly(session[s], Refused(r))
  BY <1>1 DEF Refused, Sound, SessionRec, Dialing, Clocked, OnceUp, Settled, Lights, Over,
     Retired, KeepsLight, KeepsPane, Quietly
 <2> QED BY <1>3, <1>5, <2>1, <2>2
<1>6. CASE ~Settled(r) /\ Put(s, Prompting(r))
 <2>1. Sound(Prompting(r), quitting)
  BY <1>1, <1>6, PromptingSound DEF Settled, Sound, SessionRec
 <2>2. Quietly(session[s], Prompting(r))
  BY <1>1 DEF Prompting, Sound, SessionRec, Dialing, Clocked, OnceUp, Settled, Lights, Over,
     Retired, KeepsLight, KeepsPane, Quietly
 <2> QED BY <1>3, <1>6, <2>1, <2>2
<1> QED BY <1>4, <1>5, <1>6 DEF Verify

LEMMA AnsweredQuiet ==
  ASSUME NEW q, NEW r, Sound(r, q), r.prompt # "none", NEW yes \in BOOLEAN
  PROVE  Quietly(r, Answered(r, yes))
<1> DEFINE n == Answered(r, yes)
<1>1. r.dial # "up" /\ r.pane = "none" /\ r.link = "none" /\ r.protocol = "ssh" /\ r.closing = "no"
 BY DEF Sound, Clocked, OnceUp, SessionRec
<1>2. /\ n.for = r.for /\ n.pane = r.pane /\ n.link = r.link /\ n.protocol = r.protocol
      /\ n.closing = r.closing
 BY DEF Sound, SessionRec, Answered, Trusted, Refused
<1>3. n.dial = r.dial \/ n.dial \in {"auth", "refused"}
 BY DEF Sound, SessionRec, Answered, Trusted, Refused
<1> HIDE DEF n
<1>4. Quietly(r, n)
 BY <1>1, <1>2, <1>3 DEF Lights, Over, Retired, KeepsLight, KeepsPane, Quietly
<1> QED BY <1>4 DEF n

LEMMA AnswerKeeps ==
  ASSUME SessionsInv, NEW s \in Sessions, NEW yes \in BOOLEAN, session[s].prompt # "none",
         Put(s, Answered(session[s], yes)), UNCHANGED <<blocker, quitting>>, known' \in BOOLEAN
  PROVE  SessionsInv'
<1> DEFINE n == Answered(session[s], yes)
<1>1. Sound(session[s], quitting) BY DEF SessionsInv, EachSound
<1>2. Sound(n, quitting) /\ Quietly(session[s], n) BY <1>1, AnsweredSound, AnsweredQuiet
<1> QED BY <1>2, OneChanges DEF BlockerRight, Quietly, KeepsPane

LEMMA SavingKeeps ==
  ASSUME SessionsInv, NEW s \in Sessions, session[s].prompt = "open",
         Put(s, [session[s] EXCEPT !.prompt = "saving"]), UNCHANGED <<blocker, quitting, known>>
  PROVE  SessionsInv'
<1> DEFINE n == [session[s] EXCEPT !.prompt = "saving"]
<1>1. Sound(session[s], quitting) /\ known' \in BOOLEAN BY DEF SessionsInv, EachSound
<1>2. Sound(n, quitting) BY <1>1, SavingSound
<1>3. Quietly(session[s], n)
 BY <1>1 DEF Sound, SessionRec, Dialing, Clocked, OnceUp, Settled, Lights, Over, Retired,
    KeepsLight, KeepsPane, Quietly
<1> QED BY <1>1, <1>2, <1>3, OneChanges DEF BlockerRight, Quietly, KeepsPane

LEMMA PromptKeeps ==
  ASSUME SessionsInv, NEW s \in Sessions, AnswerPrompt(s) \/ SaveHost(s) \/ PromptEnds(s)
  PROVE  SessionsInv'
<1>1. known \in BOOLEAN BY DEF SessionsInv
<1>2. CASE AnswerPrompt(s) BY <1>1, <1>2, AnswerKeeps, SavingKeeps DEF AnswerPrompt
<1>3. CASE SaveHost(s) BY <1>1, <1>3, AnswerKeeps DEF SaveHost
<1>4. CASE PromptEnds(s) BY <1>1, <1>4, AnswerKeeps DEF PromptEnds
<1> QED BY <1>2, <1>3, <1>4

LEMMA AuthenticatedKeeps ==
  ASSUME SessionsInv, NEW s \in Sessions, Authenticated(s)
  PROVE  SessionsInv'
<1> DEFINE n == [session[s] EXCEPT !.dial = "shell", !.timer = TRUE]
<1>1. Sound(session[s], quitting) BY DEF SessionsInv, EachSound
<1>2. Put(s, n) /\ UNCHANGED <<blocker, quitting>> /\ known' \in BOOLEAN
 BY DEF Authenticated, SessionsInv
<1>3. Sound(n, quitting) BY <1>1, AuthSound DEF Authenticated
<1>4. Quietly(session[s], n)
 BY <1>1 DEF Authenticated, Sound, SessionRec, Dialing, Clocked, OnceUp, Settled, Lights, Over,
    Retired, KeepsLight, KeepsPane, Quietly
<1> QED BY <1>2, <1>3, <1>4, OneChanges DEF BlockerRight, Quietly, KeepsPane

LEMMA ShellOpensKeeps ==
  ASSUME SessionsInv, NEW s \in Sessions, ShellOpens(s)
  PROVE  SessionsInv'
<1>1. PICK audit \in BOOLEAN :
        LET r == [Up(session[s]) EXCEPT !.recording = audit] IN Put(s, r) /\ Blocked(s, r)
 BY DEF ShellOpens
<1> DEFINE n == [Up(session[s]) EXCEPT !.recording = audit]
<1>2. Sound(session[s], quitting) /\ session[s].dial = "shell"
 BY DEF SessionsInv, EachSound, ShellOpens
<1>3. Put(s, n) /\ Blocked(s, n) /\ UNCHANGED quitting /\ known' \in BOOLEAN
 BY <1>1 DEF ShellOpens, SessionsInv
<1>4. Sound(n, quitting) BY <1>2, ShellUpSound
<1>5. KeepsPane(session[s], n) BY <1>2 DEF Sound, SessionRec, Up, Retired, KeepsPane
<1> QED BY <1>3, <1>4, <1>5, OneChanges DEF BlockerRight, KeepsPane

LEMMA FailsKeeps ==
  ASSUME SessionsInv, NEW s \in Sessions, TimesOut(s) \/ AttemptFails(s)
  PROVE  SessionsInv'
<1> DEFINE n == Failed(session[s])
<1>1. Sound(session[s], quitting) BY DEF SessionsInv, EachSound
<1>2. Put(s, n) /\ UNCHANGED <<blocker, quitting>> /\ known' \in BOOLEAN
 BY DEF TimesOut, AttemptFails, SessionsInv
<1>3. Sound(n, quitting) BY <1>1, FailedSound DEF TimesOut, AttemptFails
<1>4. Quietly(session[s], n)
 BY <1>1 DEF TimesOut, AttemptFails, Sound, SessionRec, Dialing, Clocked, OnceUp, Settled,
    Lights, Over, Retired, KeepsLight, KeepsPane, Quietly, Failed
<1> QED BY <1>2, <1>3, <1>4, OneChanges DEF BlockerRight, Quietly, KeepsPane

LEMMA FailReportedKeeps ==
  ASSUME SessionsInv, NEW s \in Sessions, FailReported(s)
  PROVE  SessionsInv'
<1> DEFINE n == [session[s] EXCEPT !.dial = "failed"]
<1>1. Sound(session[s], quitting) BY DEF SessionsInv, EachSound
<1>2. Put(s, n) /\ Blocked(s, n) /\ UNCHANGED quitting /\ known' \in BOOLEAN
 BY DEF FailReported, SessionsInv
<1>3. Sound(n, quitting) BY <1>1, FailReportedSound DEF FailReported
<1>4. KeepsPane(session[s], n)
 BY <1>1 DEF FailReported, Sound, SessionRec, OnceUp, Retired, KeepsPane
<1> QED BY <1>2, <1>3, <1>4, OneChanges DEF BlockerRight, KeepsPane

LEMMA LinkClosesKeeps ==
  ASSUME SessionsInv, NEW s \in Sessions, LinkCloses(s)
  PROVE  SessionsInv'
<1> DEFINE r   == [session[s] EXCEPT !.link = "closed", !.routed = FALSE]
           ssh == [Recorded(r) EXCEPT !.recording = FALSE, !.closing = "recording"]
           pty == [r EXCEPT !.entry = FALSE, !.closing = "removing"]
<1>1. /\ Sound(session[s], quitting) /\ session[s].link \in {"open", "closing"}
      /\ UNCHANGED <<blocker, quitting>> /\ known' \in BOOLEAN
 BY DEF SessionsInv, EachSound, LinkCloses
<1>2. r.protocol = session[s].protocol BY <1>1 DEF Sound, SessionRec
<1>3. CASE session[s].protocol = "ssh"
 <2>1. Put(s, ssh) BY <1>2, <1>3 DEF LinkCloses
 <2>2. Sound(ssh, quitting) BY <1>1, <1>3, SshClosesSound
 <2>3. Quietly(session[s], ssh)
  BY <1>1 DEF Recorded, Sound, SessionRec, Dialing, Clocked, OnceUp, Settled, Lights, Over,
     Retired, KeepsLight, KeepsPane, Quietly
 <2> QED BY <1>1, <2>1, <2>2, <2>3, OneChanges DEF BlockerRight, Quietly, KeepsPane
<1>4. CASE session[s].protocol # "ssh"
 <2>1. Put(s, pty) BY <1>2, <1>4 DEF LinkCloses
 <2>2. Sound(pty, quitting) BY <1>1, <1>4, PtyClosesSound
 <2>3. Quietly(session[s], pty)
  BY <1>1 DEF Sound, SessionRec, Dialing, Clocked, OnceUp, Settled, Lights, Over, Retired,
     KeepsLight, KeepsPane, Quietly
 <2> QED BY <1>1, <2>1, <2>2, <2>3, OneChanges DEF BlockerRight, Quietly, KeepsPane
<1> QED BY <1>3, <1>4

LEMMA CloseRecordedKeeps ==
  ASSUME SessionsInv, NEW s \in Sessions, CloseRecorded(s)
  PROVE  SessionsInv'
<1> DEFINE n == [session[s] EXCEPT !.entry = FALSE, !.closing = "removing"]
<1>1. Sound(session[s], quitting) BY DEF SessionsInv, EachSound
<1>2. Put(s, n) /\ UNCHANGED <<blocker, quitting>> /\ known' \in BOOLEAN
 BY DEF CloseRecorded, SessionsInv
<1>3. Sound(n, quitting) BY <1>1, RemovingSound DEF CloseRecorded
<1>4. Quietly(session[s], n)
 BY <1>1 DEF CloseRecorded, Sound, SessionRec, Dialing, Clocked, OnceUp, Settled, Lights, Over,
    Retired, KeepsLight, KeepsPane, Quietly
<1> QED BY <1>2, <1>3, <1>4, OneChanges DEF BlockerRight, Quietly, KeepsPane

LEMMA CloseFinishesKeeps ==
  ASSUME SessionsInv, NEW s \in Sessions, CloseFinishes(s)
  PROVE  SessionsInv'
<1> DEFINE n == Marked([Recorded(session[s]) EXCEPT !.closing = "done"])
<1>1. Sound(session[s], quitting) BY DEF SessionsInv, EachSound
<1>2. Put(s, n) /\ Blocked(s, n) /\ UNCHANGED quitting /\ known' \in BOOLEAN
 BY DEF CloseFinishes, SessionsInv
<1>3. Sound(n, quitting) BY <1>1, MarkedSound DEF CloseFinishes
<1>4. KeepsPane(session[s], n)
 BY <1>1 DEF CloseFinishes, Sound, SessionRec, OnceUp, Retired, KeepsPane, Marked, Recorded
<1> QED BY <1>2, <1>3, <1>4, OneChanges DEF BlockerRight, KeepsPane

LEMMA DisconnectFinishesKeeps ==
  ASSUME SessionsInv, NEW s \in Sessions, DisconnectFinishes(s)
  PROVE  SessionsInv'
<1> DEFINE n == [Recorded(session[s]) EXCEPT !.ending = FALSE]
<1>1. Sound(session[s], quitting) BY DEF SessionsInv, EachSound
<1>2. Put(s, n) /\ Blocked(s, n) /\ UNCHANGED quitting /\ known' \in BOOLEAN
 BY DEF DisconnectFinishes, SessionsInv
<1>3. Sound(n, quitting) BY <1>1, EndedSound DEF DisconnectFinishes
<1>4. KeepsPane(session[s], n)
 BY <1>1 DEF DisconnectFinishes, Sound, SessionRec, OnceUp, Retired, KeepsPane, Recorded
<1> QED BY <1>2, <1>3, <1>4, OneChanges DEF BlockerRight, KeepsPane

LEMMA ShowKeeps ==
  ASSUME SessionsInv, NEW s \in Sessions, Show(s)
  PROVE  SessionsInv'
<1> DEFINE n == [session[s] EXCEPT !.pane = "shown"]
<1>1. Sound(session[s], quitting) BY DEF SessionsInv, EachSound
<1>2. Put(s, n) /\ UNCHANGED <<blocker, quitting>> /\ known' \in BOOLEAN
 BY DEF Show, SessionsInv
<1>3. Sound(n, quitting) BY <1>1, ShownSound DEF Show
<1>4. Quietly(session[s], n)
 BY <1>1 DEF Show, Sound, SessionRec, Dialing, Clocked, OnceUp, Settled, Lights, Over, Retired,
    KeepsLight, KeepsPane, Quietly
<1> QED BY <1>2, <1>3, <1>4, OneChanges DEF BlockerRight, Quietly, KeepsPane

(* A pane that goes away: its session is ended, unless it is being ended. *)
Gone(r) ==
  IF r.ending THEN [r EXCEPT !.pane = "gone"] ELSE Disconnected([r EXCEPT !.pane = "gone"])

LEMMA GoneSound ==
  ASSUME NEW r, Sound(r, "no"), r.dial = "up"
  PROVE  /\ Sound(Gone(r), "no") /\ Quietly(r, Gone(r))
         /\ Gone(r).for = r.for /\ Gone(r).pane = "gone"
<1>1. ASSUME NEW b, Sound(b, "no"), b.dial = "up", ~b.config, b.link # "open", b.ending
      PROVE  LET n == [b EXCEPT !.pane = "gone"] IN
               /\ Sound(n, "no") /\ n.for = b.for /\ n.pane = "gone" /\ Lights(n) /\ n.link # "open"
 <2> DEFINE n == [b EXCEPT !.pane = "gone"]
 <2>1. n \in SessionRec BY <1>1 DEF Sound, SessionRec
 <2>2. Clocked(n) BY <1>1 DEF Sound, SessionRec, Clocked, Settled
 <2>3. OnceUp(n) BY <1>1 DEF Sound, SessionRec, OnceUp, Settled, Dialing
 <2>4. BeforeQuit(n) BY <1>1 DEF Sound, SessionRec, BeforeQuit
 <2>5. n.for = b.for /\ n.pane = "gone" /\ Lights(n) /\ n.link # "open"
  BY <1>1 DEF Sound, SessionRec, Lights, Over, Settled, Dialing
 <2> QED BY <2>1, <2>2, <2>3, <2>4, <2>5 DEF Sound
<1>2. CASE r.ending
 <2>1. ~r.config /\ r.link # "open" BY <1>2 DEF Sound, BeforeQuit
 <2>2. Gone(r) = [r EXCEPT !.pane = "gone"] BY <1>2 DEF Gone
 <2> QED BY <1>1, <1>2, <2>1, <2>2 DEF Quietly, KeepsPane, KeepsLight, Retired
<1>3. CASE ~r.ending
 <2> DEFINE b == Disconnected(r)
 <2>1. Sound(b, "no") BY DisconnectedSound
 <2>2. b.dial = "up" /\ ~b.config /\ b.link # "open" /\ b.ending /\ b.for = r.for
  BY DEF Sound, SessionRec, BeforeQuit, Disconnected
 <2>3. Gone(r) = [b EXCEPT !.pane = "gone"]
  BY ZenonT(60), <1>3 DEF Gone, Disconnected, Sound, SessionRec
 <2> HIDE DEF b
 <2> QED BY <1>1, <2>1, <2>2, <2>3 DEF Quietly, KeepsPane, KeepsLight, Retired
<1> QED BY <1>2, <1>3

LEMMA ClosePaneKeeps ==
  ASSUME SessionsInv, NEW s \in Sessions, ClosePane(s)
  PROVE  SessionsInv'
<1>1. Sound(session[s], "no") /\ quitting = "no" /\ session[s].pane \in {"shown", "flagged"}
 BY DEF SessionsInv, EachSound, ClosePane
<1>2. session[s].dial = "up" BY <1>1 DEF Sound, OnceUp
<1>3. Put(s, Gone(session[s])) /\ UNCHANGED <<blocker, quitting>> /\ known' \in BOOLEAN
 BY <1>1 DEF ClosePane, Disconnect, Gone, SessionsInv, Sound, SessionRec
<1>4. Sound(Gone(session[s]), quitting) /\ Quietly(session[s], Gone(session[s]))
 BY <1>1, <1>2, GoneSound
<1> QED BY <1>3, <1>4, OneChanges DEF BlockerRight, Quietly, KeepsPane

LEMMA ReplaceKeeps ==
  ASSUME SessionsInv, NEW s \in Sessions, Replace(s)
  PROVE  SessionsInv'
<1> DEFINE r   == session[s]
           old == r.for
<1>1. /\ Sound(r, "no") /\ quitting = "no" /\ r.dial = "up" /\ r.pane = "none"
      /\ UNCHANGED <<known, blocker, quitting>>
 BY DEF SessionsInv, EachSound, Replace
<1>2. known' \in BOOLEAN BY <1>1 DEF SessionsInv
<1>3. old \in Sessions /\ Retired(session[old]) /\ Sound(session[old], "no")
 BY <1>1 DEF SessionsInv, EachSound, Replaces, Replace, SessionRec, Sound
<1>4. CASE session[old].pane = "gone"
 <2>1. Put(s, Gone(r)) BY <1>1, <1>4 DEF Replace, Disconnect, Gone, Sound, SessionRec
 <2>2. Sound(Gone(r), quitting) /\ Quietly(r, Gone(r)) BY <1>1, GoneSound
 <2> QED BY <1>1, <1>2, <2>1, <2>2, OneChanges DEF BlockerRight, Quietly, KeepsPane
<1>5. CASE session[old].pane # "gone"
 <2> DEFINE n == [r EXCEPT !.pane = "shown"]
 <2>1. old # s BY <1>1, <1>3 DEF Retired
 <2>2. session[old].dial = "up" BY <1>3 DEF Sound, OnceUp, Retired
 <2>3. session' = [session EXCEPT ![s] = n, ![old] = Gone(session[old])]
  BY <1>5, <2>1 DEF Replace, Gone, SessionsInv
 <2>4. Sound(n, quitting') BY <1>1, ShownSound
 <2>5. Quietly(r, n)
  BY <1>1 DEF Sound, SessionRec, Settled, Lights, Over, Retired, KeepsLight, KeepsPane, Quietly
 <2>6. Sound(Gone(session[old]), quitting') /\ Quietly(session[old], Gone(session[old]))
  BY <1>1, <1>3, <2>2, GoneSound
 <2> HIDE DEF n
 <2>7. \A t \in Sessions : Sound(session[t], quitting') /\ Quietly(session[t], session[t])
  BY <1>1 DEF SessionsInv, EachSound, Quietly, KeepsLight, KeepsPane
 <2>8. /\ session'[s] = n /\ session'[old] = Gone(session[old])
       /\ \A t \in Sessions \ {s, old} : session'[t] = session[t]
  BY <1>3, <2>1, <2>3 DEF SessionsInv
 <2>9. \A t \in Sessions : Sound(session'[t], quitting') /\ Quietly(session[t], session'[t])
  BY <2>4, <2>5, <2>6, <2>7, <2>8
 <2>10. session' \in [Sessions -> SessionRec] BY <2>3, <2>4, <2>6 DEF SessionsInv, Sound
 <2> QED BY <1>1, <1>2, <2>9, <2>10, QuietStep DEF SessionsInv
<1> QED BY <1>4, <1>5

LEMMA QuitKeeps ==
  ASSUME SessionsInv, Quit
  PROVE  SessionsInv'
<1> DEFINE n(r) == IF r.ending \/ ~(r.entry \/ r.routed \/ r.active \/ r.config) THEN r ELSE Disconnected(r)
<1>1. /\ quitting' = "teardown" /\ blocker' = blocker /\ known' \in BOOLEAN
      /\ session' = [s \in Sessions |-> n(session[s])]
 BY DEF Quit, SessionsInv
<1>2. ASSUME NEW r, NEW q, Sound(r, q)  PROVE Sound(n(r), "teardown") /\ Quietly(r, n(r))
 <2>1. Sound(r, "teardown") BY <1>2 DEF Sound
 <2>2. CASE n(r) = r BY <2>1, <2>2 DEF Quietly, KeepsLight, KeepsPane
 <2>3. CASE n(r) # r
  <3>1. n(r) = Disconnected(r) /\ r.dial # "none" BY <1>2, <2>3 DEF Sound, OnceUp
  <3>2. Sound(Disconnected(r), "teardown") BY <2>1, <3>1, DisconnectedSound
  <3>3. LET d == Disconnected(r) IN
          /\ d.for = r.for /\ d.pane = r.pane /\ ~d.entry /\ d.ending /\ d.protocol = r.protocol
          /\ d.dial = r.dial \/ (r.protocol = "ssh" /\ d.dial = "refused")
   BY <1>2 DEF Disconnected, Sound, SessionRec
  <3>4. Quietly(r, Disconnected(r))
   BY <3>3 DEF Quietly, KeepsLight, KeepsPane, Lights, Over, Settled, Retired
  <3> QED BY <3>1, <3>2, <3>4
 <2> QED BY <2>2, <2>3
<1> HIDE DEF n
<1>3. \A s \in Sessions : Sound(session'[s], quitting') /\ Quietly(session[s], session'[s])
 BY <1>1, <1>2 DEF SessionsInv, EachSound
<1>4. session' \in [Sessions -> SessionRec] BY <1>1, <1>3 DEF Sound
<1> QED BY <1>1, <1>3, <1>4, QuietStep

LEMMA QuitFinishesKeeps ==
  ASSUME SessionsInv, QuitFinishes
  PROVE  SessionsInv'
<1> DEFINE n(r) == [r EXCEPT !.recording = FALSE]
<1>1. /\ quitting' = "done" /\ blocker' = blocker /\ known' \in BOOLEAN
      /\ session' = [s \in Sessions |-> n(session[s])]
 BY DEF QuitFinishes, SessionsInv
<1>2. ASSUME NEW r, NEW q, Sound(r, q)  PROVE Sound(n(r), "done") /\ Quietly(r, n(r))
 <2>1. n(r) \in SessionRec BY <1>2 DEF Sound, SessionRec
 <2>2. Clocked(n(r)) BY <1>2 DEF Sound, SessionRec, Clocked, Settled
 <2>3. OnceUp(n(r)) BY <1>2 DEF Sound, SessionRec, OnceUp, Settled
 <2>4. Quietly(r, n(r))
  BY <1>2 DEF Sound, SessionRec, Settled, Lights, Over, Retired, KeepsLight, KeepsPane, Quietly
 <2> QED BY <2>1, <2>2, <2>3, <2>4 DEF Sound
<1> HIDE DEF n
<1>3. \A s \in Sessions : Sound(session'[s], quitting') /\ Quietly(session[s], session'[s])
 BY <1>1, <1>2 DEF SessionsInv, EachSound
<1>4. session' \in [Sessions -> SessionRec] BY <1>1, <1>3 DEF Sound
<1> QED BY <1>1, <1>3, <1>4, QuietStep

LEMMA SessionsStep ==
  ASSUME SessionsInv, SessionsNext
  PROVE  SessionsInv'
<1>1. ASSUME NEW s \in Sessions, Connect(s)  PROVE SessionsInv'
 BY <1>1, BeginKeeps DEF Connect
<1>2. ASSUME NEW s \in Sessions, NEW old \in Sessions \ {s}, Reconnect(s, old)  PROVE SessionsInv'
 BY <1>2, BeginKeeps DEF Reconnect, Retired
<1> QED
 BY <1>1, <1>2, TelnetConnectedKeeps, ProxyReadyKeeps, HostKeyKeeps, VerifyKeeps, PromptKeeps,
    AuthenticatedKeeps, ShellOpensKeeps, FailsKeeps, FailReportedKeeps, LinkClosesKeeps,
    CloseRecordedKeeps, CloseFinishesKeeps, DisconnectFinishesKeeps, ShowKeeps, ClosePaneKeeps,
    ReplaceKeeps, QuitKeeps, QuitFinishesKeeps DEF SessionsNext

LEMMA SessionsStart ==
  ASSUME SessionsInit
  PROVE  SessionsInv
<1>1. Sound(NoConnect, "no")
 <2>1. NoConnect \in SessionRec BY DEF NoConnect, SessionRec
 <2> QED BY <2>1 DEF NoConnect, Sound, Clocked, OnceUp, BeforeQuit, Settled, Dialing
<1>2. \A s \in Sessions : session[s] = NoConnect BY DEF SessionsInit
<1>3. session \in [Sessions -> SessionRec] BY <1>1 DEF SessionsInit, Sound
<1>4. EachSound /\ Replaces /\ LitUp /\ LitFor
 BY <1>1, <1>2 DEF SessionsInit, EachSound, Replaces, LitUp, LitFor, NoConnect
<1> QED BY <1>3, <1>4 DEF SessionsInit, SessionsInv

LEMMA SessionsRight ==
  ASSUME SessionsInv
  PROVE  ConnectTimed /\ EndsClean
<1>1. ASSUME NEW s \in Sessions
      PROVE  /\ Clocked(session[s]) /\ OnceUp(session[s]) /\ session[s] \in SessionRec
             /\ session[s].link = "open" /\ session[s].entry => blocker
 BY DEF SessionsInv, EachSound, Sound, LitUp
<1>2. ConnectTimed BY <1>1 DEF ConnectTimed, Clocked, Settled, Dialing
<1>3. ASSUME NEW s \in Sessions
      PROVE  LET r == session[s] IN
               /\ r.records <= 1
               /\ r.closing = "done" /\ ~r.ending =>
                    r.records = 1 /\ ~r.routed /\ ~r.entry /\ ~r.active /\ ~r.recording
               /\ r.pane = "gone" => ~r.config /\ r.link # "open"
               /\ r.pane = "flagged" => r.link = "closed"
               /\ r.link = "open" /\ r.entry => blocker
 <2>1. session[s].records \in {0, 1} BY <1>1 DEF SessionRec
 <2>2. session[s].closing = "done" => session[s].dial = "up" /\ session[s].link = "closed"
  BY <1>1 DEF OnceUp
 <2> QED BY <1>1, <2>1, <2>2 DEF OnceUp
<1>4. (\A s \in Sessions : Over(session[s])) => ~blocker BY DEF SessionsInv, LitFor, Lights
<1> QED BY <1>2, <1>3, <1>4 DEF EndsClean

--------------------------------------------------
(* Files of a server.  What an open has sent of its copy is on the server,    *)
(* unless the copy has changed since, the upload failed, or another open      *)
(* wrote to the file after it began.                                          *)

Halves == Nat \X Nat

SyncRec ==
  [stage : {"no", "download", "on", "ended", "failed"}, dir : BOOLEAN, copy : Halves,
   timer : BOOLEAN, upload : {"no", "none", "one", "both"}, pending : BOOLEAN,
   failed : BOOLEAN, overwritten : BOOLEAN]

Sent(r, file) ==
  /\ r.upload = "one" => file[1] = r.copy[1]
  /\ r.upload \in {"no", "both"} => file[1] = r.copy[1] /\ file[2] = r.copy[2]

InSync(r, file, up) ==
  /\ r \in SyncRec
  /\ r.stage = "on" => up
  /\ r.stage # "on" => ~r.timer /\ ~r.pending
  /\ r.stage \in {"no", "download"} => r.upload = "no"
  /\ r.stage = "ended" => ~r.dir
  /\ r.stage = "on" /\ ~r.timer /\ ~r.pending /\ ~r.failed /\ ~r.overwritten => Sent(r, file)
  /\ r.upload = "no" => ~r.pending

EditsInv ==
  /\ connected \in BOOLEAN /\ saves \in Nat /\ served \in Halves
  /\ sync \in [Opens -> SyncRec]
  /\ \A o \in Opens : InSync(sync[o], served, connected)

LEMMA SyncStep ==
  ASSUME EditsInv, NEW o \in Opens, NEW n, Set(o, n), InSync(n, served, connected),
         UNCHANGED <<connected, served>>, saves' \in Nat
  PROVE  EditsInv'
<1>1. sync' \in [Opens -> SyncRec] /\ sync'[o] = n /\ \A p \in Opens \ {o} : sync'[p] = sync[p]
 BY DEF EditsInv, Set, InSync
<1>2. \A p \in Opens : InSync(sync'[p], served', connected') BY <1>1 DEF EditsInv
<1> QED BY <1>1, <1>2 DEF EditsInv

LEMMA OpenFileKeeps ==
  ASSUME EditsInv, NEW o \in Opens, OpenFile(o)
  PROVE  EditsInv'
<1> DEFINE n == [sync[o] EXCEPT !.stage = "download", !.overwritten = FALSE, !.dir = TRUE]
<1>1. InSync(sync[o], served, connected) /\ served \in Halves /\ saves \in Nat BY DEF EditsInv
<1>2. Set(o, n) /\ UNCHANGED <<connected, served, saves>> BY <1>1 DEF OpenFile, Created
<1>3. n \in SyncRec BY <1>1 DEF OpenFile, Created, InSync, SyncRec, Halves
<1>4. InSync(n, served, connected) BY <1>1, <1>3 DEF OpenFile, Created, InSync, SyncRec, Sent
<1> QED BY <1>1, <1>2, <1>4, SyncStep

LEMMA DownloadEndsKeeps ==
  ASSUME EditsInv, NEW o \in Opens, DownloadEnds(o)
  PROVE  EditsInv'
<1> DEFINE on  == [sync[o] EXCEPT !.copy = served, !.stage = "on"]
           off == [sync[o] EXCEPT !.copy = served, !.stage = "ended", !.dir = FALSE]
<1>1. /\ InSync(sync[o], served, connected) /\ served \in Halves /\ saves \in Nat
      /\ sync[o].stage = "download"
 BY DEF EditsInv, DownloadEnds
<1>2. UNCHANGED <<connected, served, saves>> /\ Set(o, IF connected THEN on ELSE off)
 BY DEF DownloadEnds, Registered
<1>3. on \in SyncRec /\ off \in SyncRec BY <1>1 DEF InSync, SyncRec
<1>4. CASE connected
 <2>1. InSync(on, served, connected) BY <1>1, <1>3, <1>4 DEF InSync, SyncRec, Sent
 <2> QED BY <1>1, <1>2, <1>4, <2>1, SyncStep
<1>5. CASE ~connected
 <2>1. InSync(off, served, connected) BY <1>1, <1>3 DEF InSync, SyncRec, Sent
 <2> QED BY <1>1, <1>2, <1>5, <2>1, SyncStep
<1> QED BY <1>4, <1>5

LEMMA DownloadFailsKeeps ==
  ASSUME EditsInv, NEW o \in Opens, DownloadFails(o)
  PROVE  EditsInv'
<1> DEFINE n == [sync[o] EXCEPT !.stage = "failed"]
<1>1. InSync(sync[o], served, connected) /\ served \in Halves /\ saves \in Nat BY DEF EditsInv
<1>2. Set(o, n) /\ UNCHANGED <<connected, served, saves>> BY <1>1 DEF DownloadFails
<1>3. n \in SyncRec BY <1>1 DEF DownloadFails, InSync, SyncRec, Halves
<1>4. InSync(n, served, connected) BY <1>1, <1>3 DEF DownloadFails, InSync, SyncRec, Sent
<1> QED BY <1>1, <1>2, <1>4, SyncStep

LEMMA SaveKeeps ==
  ASSUME EditsInv, NEW o \in Opens, Save(o)
  PROVE  EditsInv'
<1> DEFINE w == Whole(saves + 1)
           n == [sync[o] EXCEPT !.copy = w, !.timer = TRUE]
<1>1. InSync(sync[o], served, connected) /\ served \in Halves /\ saves \in Nat BY DEF EditsInv
<1>2. Set(o, n) /\ UNCHANGED <<connected, served>> /\ saves' \in Nat BY <1>1 DEF Save, EditsInv
<1>3. n \in SyncRec
 <2>1. w \in Halves BY <1>1 DEF Whole, Halves
 <2> HIDE DEF w
 <2> QED BY <1>1, <2>1 DEF InSync, SyncRec
<1>4. InSync(n, served, connected) BY <1>1, <1>3 DEF Save, InSync, SyncRec, Sent
<1> QED BY <1>1, <1>2, <1>4, SyncStep

LEMMA DebounceFiresKeeps ==
  ASSUME EditsInv, NEW o \in Opens, DebounceFires(o)
  PROVE  EditsInv'
<1> DEFINE r == [sync[o] EXCEPT !.timer = FALSE]
           n == DoUpload(r)
<1>1. /\ InSync(sync[o], served, connected) /\ served \in Halves /\ saves \in Nat
      /\ sync[o].timer /\ sync[o].stage = "on"
 BY DEF EditsInv, DebounceFires, InSync
<1>2. Set(o, n) /\ UNCHANGED <<connected, served, saves>> BY DEF DebounceFires
<1>3. InSync(n, served, connected)
 <2>1. CASE r.upload = "no" BY <1>1, <2>1 DEF DoUpload, Uploading, InSync, SyncRec, Sent
 <2>2. CASE r.upload # "no" BY <1>1, <2>2 DEF DoUpload, InSync, SyncRec, Sent
 <2> QED BY <2>1, <2>2
<1> QED BY <1>1, <1>2, <1>3, SyncStep

LEMMA WritesKeeps ==
  ASSUME EditsInv, NEW o \in Opens, Writes(o)
  PROVE  EditsInv'
<1> DEFINE r    == sync[o]
           next == IF r.upload = "none" THEN "one" ELSE "both"
           n    == [r EXCEPT !.upload = next]
<1>1. /\ InSync(r, served, connected) /\ served \in Halves /\ r \in SyncRec
      /\ r.upload \in {"none", "one"}
 BY DEF EditsInv, InSync, Writes
<1>2. r.copy \in Halves /\ r.copy[1] \in Nat /\ r.copy[2] \in Nat BY <1>1 DEF SyncRec, Halves
<1>3. UNCHANGED <<connected, saves>> BY DEF Writes
<1>4. served' \in Halves /\ (r.upload = "none" \/ Sent(r, served) => Sent(n, served'))
 <2>1. CASE r.upload = "none"
  <3>1. served' = <<r.copy[1], Hole>> BY <2>1 DEF Writes, ReadChunk
  <3> QED BY <1>1, <1>2, <2>1, <3>1, SftpConstants DEF Hole, Sent, SyncRec, Halves
 <2>2. CASE r.upload = "one"
  <3>1. served' = [served EXCEPT ![2] = r.copy[2]] BY <2>2 DEF Writes, ReadChunk
  <3>2. served' \in Halves /\ served'[1] = served[1] /\ served'[2] = r.copy[2]
   <4>1. PICK a \in Nat, b \in Nat : served = <<a, b>> BY <1>1 DEF Halves
   <4>2. served' = <<a, r.copy[2]>> BY <3>1, <4>1
   <4> QED BY <1>2, <4>1, <4>2 DEF Halves
  <3>3. n.copy = r.copy /\ n.upload = "both" BY <1>1, <2>2 DEF SyncRec
  <3> QED BY <2>2, <3>2, <3>3 DEF Sent
 <2> QED BY <1>1, <2>1, <2>2
<1>5. InSync(n, served', connected)
 <2>1. n \in SyncRec BY <1>1 DEF SyncRec
 <2> QED BY <1>1, <1>4, <2>1 DEF InSync, SyncRec
<1>6. \A p \in Opens \ {o} : InSync([sync[p] EXCEPT !.overwritten = TRUE], served', connected)
 BY ZenonT(60) DEF EditsInv, InSync, SyncRec
<1>7. sync' = [p \in Opens |-> IF p = o THEN n ELSE [sync[p] EXCEPT !.overwritten = TRUE]]
 BY DEF Writes
<1> HIDE DEF n
<1>8. \A p \in Opens : InSync(sync'[p], served', connected) BY <1>5, <1>6, <1>7
<1>9. sync' \in [Opens -> SyncRec] BY <1>7, <1>8 DEF InSync
<1> QED BY <1>3, <1>4, <1>8, <1>9 DEF EditsInv

LEMMA EndedInSync ==
  ASSUME NEW r, NEW file, NEW up, InSync(r, file, up), r.upload \in {"none", "one", "both"},
         r.upload # "both" => r.failed
  PROVE  InSync(Ended(r), file, up)
<1>1. CASE r.pending BY <1>1 DEF Ended, Uploading, InSync, SyncRec, Sent
<1>2. CASE ~r.pending BY <1>2 DEF Ended, InSync, SyncRec, Sent
<1> QED BY <1>1, <1>2

LEMMA UploadEndsKeeps ==
  ASSUME EditsInv, NEW o \in Opens, UploadEnds(o)
  PROVE  EditsInv'
<1>1. InSync(sync[o], served, connected) /\ saves \in Nat /\ UNCHANGED <<connected, served, saves>>
 BY DEF EditsInv, UploadEnds
<1>2. ASSUME sync[o].upload = "both", Set(o, Ended(sync[o]))  PROVE EditsInv'
 BY <1>1, <1>2, EndedInSync, SyncStep
<1>3. ASSUME sync[o].upload # "no", Set(o, Ended([sync[o] EXCEPT !.failed = TRUE]))  PROVE EditsInv'
 <2> DEFINE f == [sync[o] EXCEPT !.failed = TRUE]
 <2>1. InSync(f, served, connected) /\ f.upload \in {"none", "one", "both"} /\ f.failed
  BY <1>1, <1>3 DEF InSync, SyncRec
 <2>2. InSync(Ended(f), served, connected) BY <2>1, EndedInSync
 <2> QED BY <1>1, <1>3, <2>2, SyncStep
<1> QED BY <1>2, <1>3 DEF UploadEnds

LEMMA StoppedInSync ==
  ASSUME NEW r, NEW file, NEW up, NEW later, InSync(r, file, up), r.stage = "on"
  PROVE  InSync(Stopped(r), file, later)
BY DEF Stopped, InSync, SyncRec

LEMMA EditStopsKeeps ==
  ASSUME EditsInv, NEW o \in Opens, EditStops(o)
  PROVE  EditsInv'
BY StoppedInSync, SyncStep DEF EditsInv, EditStops

LEMMA SessionEndsKeeps ==
  ASSUME EditsInv, SessionEnds
  PROVE  EditsInv'
<1>1. connected' = FALSE /\ UNCHANGED <<served, saves>> BY DEF SessionEnds
<1>2. ASSUME NEW o \in Opens  PROVE InSync(sync'[o], served, FALSE)
 <2>1. InSync(sync[o], served, connected) BY DEF EditsInv
 <2>2. CASE sync[o].stage = "on" BY <2>1, <2>2, StoppedInSync DEF SessionEnds
 <2>3. CASE sync[o].stage # "on" BY <2>1, <2>3 DEF SessionEnds, InSync
 <2> QED BY <2>2, <2>3
<1>3. sync' \in [Opens -> SyncRec] BY <1>2 DEF SessionEnds, InSync
<1> QED BY <1>1, <1>2, <1>3 DEF EditsInv

LEMMA EditsStep ==
  ASSUME EditsInv, EditsNext
  PROVE  EditsInv'
BY OpenFileKeeps, DownloadEndsKeeps, DownloadFailsKeeps, SaveKeeps, DebounceFiresKeeps, WritesKeeps,
   UploadEndsKeeps, EditStopsKeeps, SessionEndsKeeps DEF EditsNext

LEMMA EditsRight ==
  ASSUME EditsInv
  PROVE  SyncsEnd /\ SavesArrive
<1>1. \A o \in Opens : InSync(sync[o], served, connected) /\ served \in Halves BY DEF EditsInv
<1>2. SyncsEnd BY <1>1 DEF SyncsEnd, InSync
<1>3. ASSUME NEW o \in Opens, sync[o].stage = "on", ~sync[o].timer, sync[o].upload = "no",
             ~sync[o].failed, ~sync[o].overwritten
      PROVE  served = sync[o].copy
 <2>1. served[1] = sync[o].copy[1] /\ served[2] = sync[o].copy[2] BY <1>1, <1>3 DEF InSync, Sent
 <2>2. served \in Nat \X Nat /\ sync[o].copy \in Nat \X Nat BY <1>1 DEF InSync, SyncRec, Halves
 <2> QED BY <2>1, <2>2
<1> QED BY <1>2, <1>3 DEF SavesArrive

--------------------------------------------------
(* A listing: a handle is only awaited or open while something is left to     *)
(* close it.                                                                  *)

FolderRec ==
  [stage : {"no", "opening", "reading", "settled"},
   handle : {"none", "asked", "refused", "open", "closed"}, timer : BOOLEAN,
   entries : Nat, answer : {"none", "whole", "truncated", "error"}]

FolderInv == folder \in FolderRec /\ HandlesFreed

LEMMA FinishedFreed ==
  ASSUME NEW f \in FolderRec, NEW answer \in {"whole", "truncated", "error"}
  PROVE  /\ Finished(f, answer) \in FolderRec
         /\ Finished(f, answer).stage = "settled" /\ Finished(f, answer).handle # "open"
<1> DEFINE h == IF f.handle = "open" THEN "closed" ELSE f.handle
<1>1. h \in {"none", "asked", "refused", "closed"} BY DEF FolderRec
<1>2. Finished(f, answer) =
        [f EXCEPT !.stage = "settled", !.timer = FALSE, !.answer = answer, !.handle = h]
 BY DEF Finished
<1> HIDE DEF h
<1> QED BY <1>1, <1>2 DEF FolderRec

LEMMA FolderStep ==
  ASSUME FolderInv, FolderNext
  PROVE  FolderInv'
<1>1. folder \in FolderRec BY DEF FolderInv
<1>2. ASSUME NEW f \in FolderRec, NEW answer \in {"whole", "truncated", "error"},
             folder' = Finished(f, answer)
      PROVE  FolderInv'
 BY <1>2, FinishedFreed DEF FolderInv, HandlesFreed
<1>3. CASE ListFolder BY <1>3 DEF ListFolder, NoListing, FolderInv, FolderRec, HandlesFreed
<1>4. CASE DirOpens BY <1>1, <1>4 DEF DirOpens, Opened, FolderInv, FolderRec, HandlesFreed
<1>5. CASE DirRefused
 <2> DEFINE f == [folder EXCEPT !.handle = "refused"]
 <2>1. f \in FolderRec /\ f.handle # "open" BY <1>1 DEF FolderRec
 <2>2. CASE f.stage = "settled" BY <1>5, <2>1, <2>2 DEF DirRefused, FolderInv, HandlesFreed
 <2>3. CASE f.stage # "settled" BY <1>2, <1>5, <2>1, <2>3 DEF DirRefused
 <2> QED BY <2>2, <2>3
<1>6. CASE DirReads
 <2>1. PICK n \in folder.entries..MaxEntries :
         folder' \in {[folder EXCEPT !.entries = n],
                      Finished([folder EXCEPT !.entries = n], "truncated")}
  BY <1>6 DEF DirReads
 <2> DEFINE f == [folder EXCEPT !.entries = n]
 <2>2. n \in Nat BY <1>1, SftpConstants DEF FolderRec
 <2>3. f \in FolderRec /\ f.stage = folder.stage /\ f.handle = folder.handle
  BY <1>1, <2>2 DEF FolderRec
 <2>4. CASE folder' = f BY <1>6, <2>3, <2>4 DEF DirReads, FolderInv, HandlesFreed
 <2>5. CASE folder' = Finished(f, "truncated") BY <1>2, <2>3, <2>5
 <2> QED BY <2>1, <2>4, <2>5
<1>7. CASE DirEnds BY <1>1, <1>2, <1>7 DEF DirEnds
<1>8. CASE Deadline BY <1>1, <1>2, <1>8 DEF Deadline
<1> QED BY <1>3, <1>4, <1>5, <1>6, <1>7, <1>8 DEF FolderNext

LEMMA SftpStart ==
  ASSUME SftpInit
  PROVE  EditsInv /\ FolderInv
<1>1. EditsInv BY DEF SftpInit, EditsInv, NotOpened, Whole, Halves, SyncRec, InSync
<1>2. FolderInv BY DEF SftpInit, FolderInv, NoListing, FolderRec, HandlesFreed
<1> QED BY <1>1, <1>2

--------------------------------------------------
(* Scrollback.  The least number of a set ends the arguments by induction:    *)
(* of the numbers something fails for, the least one has none before it.      *)

LEMMA LeastNumber ==
  ASSUME NEW N \in SUBSET Nat, N # {}
  PROVE  \E n \in N : \A m \in N : n <= m
<1>1. PICK n \in N : \A m \in N : ~ (<<m, n>> \in OpToRel(<, Nat))
 BY NatLessThanWellFounded, WFMin, Zenon
<1>2. \A m \in N : ~ (m < n) BY <1>1 DEF OpToRel
<1> QED BY <1>2

(* flushPending goes through the chunks one by one: a function after with     *)
(* this recursion exists.                                                     *)
FlushedFrom(f, chunks, s, m) ==
  f = [n \in 0..m |-> IF n = 0 THEN s ELSE Written(f[n - 1], chunks[n])]

LEMMA FlushedSteps ==
  ASSUME NEW chunks, NEW s, Len(chunks) \in Nat
  PROVE  \E f : FlushedFrom(f, chunks, s, Len(chunks)) /\ Flushed(chunks, s) = f[Len(chunks)]
<1> DEFINE Missing == {m \in Nat : ~ \E f : FlushedFrom(f, chunks, s, m)}
<1>1. Missing = {}
 <2> SUFFICES ASSUME Missing # {}  PROVE FALSE
  OBVIOUS
 <2>1. PICK m \in Missing : \A k \in Missing : m <= k BY LeastNumber
 <2>2. CASE m = 0
  <3> DEFINE f == [n \in 0..0 |-> s]
  <3>1. f = [n \in 0..0 |-> IF n = 0 THEN s ELSE Written(f[n - 1], chunks[n])] OBVIOUS
  <3> QED BY <2>1, <2>2, <3>1 DEF FlushedFrom
 <2>3. CASE m # 0
  <3>1. m - 1 \in Nat /\ m - 1 \notin Missing /\ m \in Nat BY <2>1, <2>3
  <3>2. PICK f : FlushedFrom(f, chunks, s, m - 1) BY <3>1
  <3> DEFINE g == [n \in 0..m |-> IF n = m THEN Written(f[m - 1], chunks[m]) ELSE f[n]]
  <3>3. \A n \in 0..(m - 1) : f[n] = IF n = 0 THEN s ELSE Written(f[n - 1], chunks[n])
   BY <3>1, <3>2 DEF FlushedFrom
  <3>4. \A n \in 0..(m - 1) : g[n] = f[n] BY <3>1
  <3>5. \A n \in 0..m : g[n] = IF n = 0 THEN s ELSE Written(g[n - 1], chunks[n])
   <4> SUFFICES ASSUME NEW n \in 0..m
                PROVE  g[n] = IF n = 0 THEN s ELSE Written(g[n - 1], chunks[n])
    OBVIOUS
   <4>1. CASE n = m
    <5>1. m - 1 \in 0..(m - 1) /\ g[m] = Written(f[m - 1], chunks[m]) BY <3>1
    <5> QED BY <2>3, <3>4, <4>1, <5>1
   <4>2. CASE n # m /\ n = 0 BY <3>1, <3>3, <3>4, <4>2
   <4>3. CASE n # m /\ n # 0
    <5>1. n \in 0..(m - 1) /\ n - 1 \in 0..(m - 1) BY <3>1, <4>3
    <5> QED BY <3>3, <3>4, <4>3, <5>1
   <4> QED BY <4>1, <4>2, <4>3
  <3>6. g = [n \in 0..m |-> g[n]] OBVIOUS
  <3> HIDE DEF g
  <3>7. FlushedFrom(g, chunks, s, m) BY <3>5, <3>6 DEF FlushedFrom
  <3> QED BY <2>1, <3>7
 <2> QED BY <2>2, <2>3
<1> DEFINE h == CHOOSE f : FlushedFrom(f, chunks, s, Len(chunks))
<1>2. FlushedFrom(h, chunks, s, Len(chunks)) BY <1>1
<1>3. Flushed(chunks, s) = h[Len(chunks)] BY DEF Flushed, FlushedFrom
<1> QED BY <1>2, <1>3

LEMMA CharsAre ==
  ASSUME NEW a \in Nat, NEW b \in Nat, a <= b
  PROVE  /\ Chars(a, b) \in Seq(Nat) /\ Len(Chars(a, b)) = b - a
         /\ \A i \in 1..(b - a) : Chars(a, b)[i] = a + i
BY DEF Chars

Ordered(shown) == \A i \in 1..(Len(shown) - 1) : shown[i + 1] >= shown[i] + 1
Gapless(shown) == \A i \in 1..(Len(shown) - 1) : shown[i + 1] = shown[i] + 1

(* What a terminal shows, and the offset of its entry. *)
OnScreen(shown, last) ==
  /\ shown \in Seq(Nat) /\ last \in Nat \cup {Fresh}
  /\ Ordered(shown) /\ (shown # <<>> => last = shown[Len(shown)])

(* A chunk on its way: the characters after Before(c). *)
Chunks ==
  {c \in Seq(Nat) : c # <<>> /\ c[1] > 0 /\ \A i \in 1..Len(c) : c[i] = c[1] + i - 1}
Before(c) == c[1] - 1

LEMMA ChunkEnds ==
  ASSUME NEW c \in Chunks
  PROVE  /\ Len(c) \in Nat \ {0} /\ Before(c) \in Nat /\ c[Len(c)] \in Nat
         /\ c[Len(c)] = Before(c) + Len(c)
         /\ \A i \in 1..Len(c) : c[i] = Before(c) + i
<1>1. /\ c \in Seq(Nat) /\ Len(c) \in Nat \ {0} /\ c[1] \in Nat /\ c[1] > 0
      /\ \A i \in 1..Len(c) : c[i] = c[1] + i - 1
 BY DEF Chunks
<1>2. 1 \in 1..Len(c) /\ Len(c) \in 1..Len(c) BY <1>1
<1>3. Before(c) \in Nat /\ c[1] = Before(c) + 1 BY <1>1 DEF Before
<1>4. \A i \in 1..Len(c) : c[i] = Before(c) + i
 <2> SUFFICES ASSUME NEW i \in 1..Len(c)  PROVE c[i] = Before(c) + i
  OBVIOUS
 <2>1. c[i] = c[1] + i - 1 BY <1>1
 <2> QED BY <1>1, <1>3, <2>1
<1>5. c[Len(c)] = Before(c) + Len(c) BY <1>2, <1>4
<1> QED BY <1>1, <1>3, <1>4, <1>5

(* A shown with more characters after it. *)
LEMMA Extended ==
  ASSUME NEW shown \in Seq(Nat), NEW more \in Seq(Nat), NEW last \in Nat, NEW from \in Nat,
         Ordered(shown), shown # <<>> => last = shown[Len(shown)],
         last <= from, more = <<>> => from = last,
         \A i \in 1..Len(more) : more[i] = from + i
  PROVE  /\ OnScreen(shown \o more, from + Len(more))
         /\ Gapless(shown) /\ from = last => Gapless(shown \o more)
<1> DEFINE t == shown \o more
           n == Len(shown)
           k == Len(more)
<1>1. n \in Nat /\ k \in Nat /\ t \in Seq(Nat) /\ Len(t) = n + k OBVIOUS
<1>2. \A i \in 1..(n + k) : t[i] = IF i <= n THEN shown[i] ELSE more[i - n] OBVIOUS
<1>3. n # 0 => last = shown[n] OBVIOUS
<1>4. \A i \in 1..n : shown[i] \in Nat OBVIOUS
<1> HIDE DEF t, n, k
<1>5. \A i \in 1..(n + k - 1) :
        t[i + 1] = IF i < n THEN shown[i + 1] ELSE IF i = n THEN from + 1 ELSE t[i] + 1
 <2> SUFFICES ASSUME NEW i \in 1..(n + k - 1)
              PROVE  t[i + 1] = IF i < n THEN shown[i + 1] ELSE IF i = n THEN from + 1 ELSE t[i] + 1
  OBVIOUS
 <2>1. i + 1 \in 1..(n + k) /\ i \in 1..(n + k) BY <1>1
 <2>2. CASE i < n BY <1>1, <1>2, <2>1, <2>2
 <2>3. CASE i = n
  <3>1. t[i + 1] = more[1]
   <4>1. ~(i + 1 <= n) /\ (i + 1) - n = 1 BY <1>1, <2>3
   <4>2. t[i + 1] = more[(i + 1) - n] BY <1>2, <2>1, <4>1
   <4> QED BY <4>1, <4>2
  <3>2. 1 \in 1..k BY <1>1, <2>3
  <3> QED BY <2>3, <3>1, <3>2 DEF k
 <2>4. CASE i > n
  <3>1. t[i] = more[i - n] /\ t[i + 1] = more[(i + 1) - n]
   <4>1. ~(i <= n) /\ ~(i + 1 <= n) BY <1>1, <2>4
   <4>2. t[i] = more[i - n] BY <1>2, <2>1, <4>1
   <4>3. t[i + 1] = more[(i + 1) - n] BY <1>2, <2>1, <4>1
   <4> QED BY <4>2, <4>3
  <3>2. i - n \in 1..k /\ (i + 1) - n \in 1..k BY <1>1, <2>4
  <3>3. more[i - n] = from + (i - n) /\ more[(i + 1) - n] = from + ((i + 1) - n) BY <3>2 DEF k
  <3> QED BY <1>1, <2>4, <3>1, <3>3
 <2> QED BY <1>1, <2>2, <2>3, <2>4
<1>6. \A i \in 1..(n + k - 1) : i < n => t[i] = shown[i] BY <1>1, <1>2
<1>7. n # 0 => t[n] = last BY <1>1, <1>2, <1>3
<1>8. \A i \in 1..(n + k) : t[i] \in Nat BY <1>1
<1>9. Ordered(t)
 <2> SUFFICES ASSUME NEW i \in 1..(n + k - 1)  PROVE t[i + 1] >= t[i] + 1
  BY <1>1 DEF Ordered
 <2>1. CASE i < n
  <3>1. i \in 1..(Len(shown) - 1) BY <1>1, <2>1 DEF n
  <3>2. shown[i + 1] >= shown[i] + 1 BY <3>1 DEF Ordered
  <3> QED BY <1>5, <1>6, <2>1, <3>2
 <2>2. CASE i = n
  <3>1. n # 0 /\ ~(i < n) BY <1>1, <2>2
  <3>2. t[i] = last /\ t[i + 1] = from + 1 BY <1>5, <1>7, <2>2, <3>1
  <3> QED BY <3>2
 <2>3. CASE i > n
  <3>1. i \in 1..(n + k) /\ t[i + 1] = t[i] + 1 BY <1>1, <1>5, <2>3
  <3> QED BY <1>8, <3>1
 <2> QED BY <1>1, <2>1, <2>2, <2>3
<1>10. Gapless(shown) /\ from = last => Gapless(t)
 <2> SUFFICES ASSUME Gapless(shown), from = last, NEW i \in 1..(n + k - 1)
              PROVE  t[i + 1] = t[i] + 1
  BY <1>1 DEF Gapless
 <2>1. CASE i < n
  <3>1. i \in 1..(Len(shown) - 1) BY <1>1, <2>1 DEF n
  <3>2. shown[i + 1] = shown[i] + 1 BY <3>1 DEF Gapless
  <3> QED BY <1>5, <1>6, <2>1, <3>2
 <2>2. CASE i = n
  <3>1. n # 0 /\ ~(i < n) BY <1>1, <2>2
  <3>2. t[i] = last /\ t[i + 1] = from + 1 BY <1>5, <1>7, <2>2, <3>1
  <3> QED BY <3>2
 <2>3. CASE i > n
  <3>1. ~(i < n) /\ i # n BY <1>1, <2>3
  <3> QED BY <1>5, <3>1
 <2> QED BY <1>1, <2>1, <2>2, <2>3
<1>11. t # <<>> => from + k = t[Len(t)]
 <2> SUFFICES ASSUME n + k # 0  PROVE from + k = t[n + k]
  BY <1>1 DEF t, n, k
 <2>1. CASE k = 0 BY <1>1, <1>7, <2>1 DEF k
 <2>2. CASE k # 0
  <3>1. t[n + k] = more[k] BY SMTT(30), <1>1, <1>2, <2>2
  <3>2. k \in 1..Len(more) BY <1>1, <2>2 DEF k
  <3> QED BY <3>1, <3>2
 <2> QED BY <2>1, <2>2
<1> QED BY <1>1, <1>9, <1>10, <1>11 DEF OnScreen, t, k

(* A chunk that is written: what is on screen already is left out. *)
LEMMA WrittenRight ==
  ASSUME NEW s, s = [text |-> s.text, last |-> s.last], OnScreen(s.text, s.last),
         NEW c \in Chunks
  PROVE  /\ Written(s, c) = [text |-> Written(s, c).text, last |-> Written(s, c).last]
         /\ OnScreen(Written(s, c).text, Written(s, c).last)
         /\ Written(s, c).last \in Nat /\ Written(s, c).last >= c[Len(c)]
         /\ Gapless(s.text) /\ (s.last \in Nat => Before(c) <= s.last)
              => Gapless(Written(s, c).text)
<1> DEFINE shown == s.text
           last == s.last
           end  == c[Len(c)]
           b    == Before(c)
           n    == Len(c)
           w    == Written(s, c)
           Right(x) == /\ OnScreen(x.text, x.last) /\ x.last \in Nat /\ x.last >= end
                       /\ Gapless(shown) /\ (last \in Nat => b <= last) => Gapless(x.text)
<1>1. /\ n \in Nat \ {0} /\ b \in Nat /\ end \in Nat /\ end = b + n
      /\ \A i \in 1..n : c[i] = b + i
 BY ChunkEnds
<1>2. c \in Seq(Nat) /\ shown \in Seq(Nat) /\ last \in Nat \cup {Fresh} /\ Ordered(shown)
      /\ (shown # <<>> => last = shown[Len(shown)]) /\ Fresh \notin Nat
 BY ScrollbackConstants DEF OnScreen, Chunks
<1>3. ASSUME NEW t, NEW e, w = [text |-> t, last |-> e],
             OnScreen(t, e), e \in Nat, e >= end,
             Gapless(shown) /\ (last \in Nat => b <= last) => Gapless(t)
      PROVE  w = [text |-> w.text, last |-> w.last] /\ Right(w)
 <2>1. w.text = t /\ w.last = e BY <1>3
 <2> HIDE DEF w
 <2> QED BY <1>3, <2>1
<1>4. CASE last # Fresh /\ end <= last
 <2>1. w = s BY <1>4 DEF Written
 <2>2. w = [text |-> shown, last |-> last] BY <2>1
 <2>3. last \in Nat /\ last >= end /\ OnScreen(shown, last) BY <1>1, <1>2, <1>4
 <2> HIDE DEF w, shown, last, end, b
 <2>4. w = [text |-> w.text, last |-> w.last] /\ Right(w) BY <1>3, <2>2, <2>3
 <2> QED BY <2>4 DEF w, shown, last, end, b
<1>5. CASE last # Fresh /\ end > last
 <2> DEFINE k    == end - last
            more == SubSeq(c, n - k + 1, n)
 <2>1. last \in Nat /\ k \in Nat \ {0} /\ last + k = end /\ ~(end <= last)
  BY SMTT(30), <1>1, <1>2, <1>5
 <2>2. CASE k < n
  <3>1. w = [text |-> shown \o more, last |-> end] BY <1>5, <2>1, <2>2 DEF Written
  <3> HIDE DEF w, shown, last, end, b, n
  <3>2. n - k + 1 \in 1..n /\ n \in 1..n /\ n - (n - k + 1) + 1 = k BY <1>1, <2>1, <2>2
  <3>3. more \in Seq(Nat) /\ Len(more) = k /\ \A i \in 1..k : more[i] = c[n - k + i]
   <4>1. Len(c) = n /\ c \in Seq(Nat) BY <1>2 DEF n
   <4> HIDE DEF k
   <4>2. k \in Nat \ {0} /\ n \in Nat /\ k < n BY <1>1, <2>1, <2>2
   <4> DEFINE from == n - k + 1
   <4>3. from \in 1..n /\ n \in 1..n /\ n - from + 1 = k
         /\ \A i \in 1..k : from + i - 1 = n - k + i
    BY <4>2
   <4> HIDE DEF from
   <4>4. SubSeq(c, from, n) = [i \in 1..(n - from + 1) |-> c[from + i - 1]]
    BY ONLY <4>1, <4>2, <4>3
   <4>5. SubSeq(c, from, n) \in Seq(Nat) /\ Len(SubSeq(c, from, n)) = k
    BY <4>1, <4>2, <4>3, SubSeqProperties
   <4>6. \A i \in 1..k : SubSeq(c, from, n)[i] = c[n - k + i] BY ONLY <4>3, <4>4
   <4> QED BY <4>5, <4>6 DEF from
  <3>4. \A i \in 1..Len(more) : more[i] = last + i
   <4> SUFFICES ASSUME NEW i \in 1..k  PROVE more[i] = last + i
    BY <3>3
   <4>1. n - k + i \in 1..n BY <1>1, <2>1, <2>2
   <4>2. c[n - k + i] = b + (n - k + i) BY <1>1, <4>1
   <4> QED BY <1>1, <2>1, <3>3, <4>2
  <3> HIDE DEF more, k
  <3>5. more # <<>> BY <2>1, <3>3
  <3>6. OnScreen(shown \o more, last + Len(more)) /\ (Gapless(shown) => Gapless(shown \o more))
   <4>1. last <= last BY <2>1
   <4> QED BY <1>2, <2>1, <3>3, <3>4, <3>5, <4>1, Extended
  <3>7. OnScreen(shown \o more, end) BY <2>1, <3>3, <3>6
  <3>8. w = [text |-> w.text, last |-> w.last] /\ Right(w) BY <1>1, <1>3, <3>1, <3>6, <3>7
  <3> QED BY <3>8 DEF w, shown, last, end, b
 <2>3. CASE k >= n
  <3>1. ~(k < n) BY <1>1, <2>1, <2>3
  <3>2. w = [text |-> shown \o c, last |-> end] BY <1>5, <2>1, <3>1 DEF Written
  <3> HIDE DEF w, shown, last, end
  <3>3. last <= b BY <1>1, <2>1, <2>3
  <3> HIDE DEF k
  <3>4. \A i \in 1..Len(c) : c[i] = b + i BY <1>1
  <3>5. c # <<>> BY <1>1
  <3> HIDE DEF b
  <3>6. OnScreen(shown \o c, b + Len(c)) /\ (Gapless(shown) /\ b = last => Gapless(shown \o c))
   BY <1>1, <1>2, <2>1, <3>3, <3>4, <3>5, Extended
  <3>7. OnScreen(shown \o c, end) BY <1>1, <3>6
  <3>8. (last \in Nat => b <= last) => b = last BY <1>1, <2>1, <3>3
  <3>9. w = [text |-> w.text, last |-> w.last] /\ Right(w) BY <1>1, <1>3, <3>2, <3>6, <3>7, <3>8
  <3> QED BY <3>9 DEF w, shown, last, end, b
 <2> QED BY <1>1, <2>1, <2>2, <2>3
<1>6. CASE last = Fresh
 <2>1. shown = <<>>
  <3> SUFFICES ASSUME shown # <<>>  PROVE FALSE
   OBVIOUS
  <3>1. Len(shown) \in 1..Len(shown) BY <1>2
  <3>2. shown[Len(shown)] \in Nat BY <1>2, <3>1
  <3> QED BY <1>2, <1>6, <3>2
 <2>2. w = [text |-> c, last |-> end]
  <3>1. w = [text |-> shown \o c, last |-> end] BY <1>6 DEF Written
  <3> HIDE DEF w, shown
  <3> QED BY <1>2, <2>1, <3>1
 <2> HIDE DEF w, shown, last
 <2>3. \A i \in 1..(Len(c) - 1) : c[i + 1] = c[i] + 1
  <3> SUFFICES ASSUME NEW i \in 1..(n - 1)  PROVE c[i + 1] = c[i] + 1
   OBVIOUS
  <3>1. i \in 1..n /\ i + 1 \in 1..n BY <1>1
  <3>2. c[i] = b + i /\ c[i + 1] = b + (i + 1) BY <1>1, <3>1
  <3> HIDE DEF b
  <3> QED BY <1>1, <3>2
 <2>4. Gapless(c) BY <2>3 DEF Gapless
 <2>5. Ordered(c)
  <3> SUFFICES ASSUME NEW i \in 1..(Len(c) - 1)  PROVE c[i + 1] >= c[i] + 1
   BY DEF Ordered
  <3>1. c[i] \in Nat /\ c[i + 1] = c[i] + 1 BY SMTT(30), <1>2, <2>3
  <3> QED BY <3>1
 <2>6. OnScreen(c, end) BY <1>1, <1>2, <2>5 DEF OnScreen
 <2> HIDE DEF end, b
 <2>7. w = [text |-> w.text, last |-> w.last] /\ Right(w) BY <1>1, <1>3, <2>2, <2>4, <2>6
 <2> QED BY <2>7 DEF w, shown, last, end, b
<1> QED BY <1>1, <1>2, <1>4, <1>5, <1>6

EndOf(c) == c[Len(c)]

(* Chunks on their way, each where the one before it ends, up to an offset;   *)
(* and where the first of them begins.                                        *)
JoinsUp(q, end) ==
  /\ q \in Seq(Chunks) /\ end \in Nat
  /\ \A i \in 1..Len(q) : EndOf(q[i]) <= end
  /\ \A i \in 1..Len(q) : EndOf(q[i]) = IF i = Len(q) THEN end ELSE Before(q[i + 1])
Start(q, end) == IF q = <<>> THEN end ELSE Before(q[1])

LEMMA CharsChunk ==
  ASSUME NEW a \in Nat, NEW n \in Nat \ {0}
  PROVE  /\ Chars(a, a + n) \in Chunks /\ Before(Chars(a, a + n)) = a
         /\ EndOf(Chars(a, a + n)) = a + n
<1> DEFINE c == Chars(a, a + n)
<1>1. (a + n) - a = n /\ a + n \in Nat /\ a <= a + n OBVIOUS
<1>2. c \in Seq(Nat) /\ Len(c) = n /\ \A i \in 1..n : c[i] = a + i BY <1>1, CharsAre
<1> HIDE DEF c
<1>3. 1 \in 1..n /\ n \in 1..n OBVIOUS
<1>4. c[1] = a + 1 /\ c[Len(c)] = a + n BY <1>2, <1>3
<1>5. \A i \in 1..Len(c) : c[i] = c[1] + i - 1
 <2> SUFFICES ASSUME NEW i \in 1..n  PROVE c[i] = c[1] + i - 1
  BY <1>2
 <2> QED BY <1>2, <1>4
<1>6. c # <<>> /\ c[1] > 0 BY <1>2, <1>4
<1> QED BY SMTT(30), <1>2, <1>4, <1>5, <1>6 DEF Chunks, Before, EndOf, c

LEMMA ChainStart ==
  ASSUME NEW q, NEW end, JoinsUp(q, end)
  PROVE  Start(q, end) \in Nat /\ Start(q, end) <= end
<1>1. CASE q = <<>> BY <1>1 DEF JoinsUp, Start
<1>2. CASE q # <<>>
 <2>1. 1 \in 1..Len(q) /\ q[1] \in Chunks BY <1>2 DEF JoinsUp
 <2>2. Len(q[1]) \in Nat \ {0} /\ Before(q[1]) \in Nat /\ EndOf(q[1]) = Before(q[1]) + Len(q[1])
  BY <2>1, ChunkEnds DEF EndOf
 <2>3. EndOf(q[1]) <= end /\ end \in Nat BY <2>1 DEF JoinsUp
 <2> QED BY <1>2, <2>2, <2>3 DEF Start
<1> QED BY <1>1, <1>2

(* A chunk is put behind those on their way. *)
LEMMA ChainAppend ==
  ASSUME NEW q, NEW end, JoinsUp(q, end), NEW c \in Chunks, Before(c) = end
  PROVE  JoinsUp(Append(q, c), EndOf(c)) /\ Start(Append(q, c), EndOf(c)) = Start(q, end)
<1> DEFINE p == Append(q, c)
           n == Len(q)
<1>1. /\ q \in Seq(Chunks) /\ end \in Nat /\ n \in Nat /\ p \in Seq(Chunks) /\ Len(p) = n + 1
      /\ p # <<>> /\ \A i \in 1..(n + 1) : p[i] = IF i = n + 1 THEN c ELSE q[i]
 <2>1. q \in Seq(Chunks) /\ end \in Nat /\ n \in Nat BY DEF JoinsUp
 <2>2. p \in Seq(Chunks) /\ Len(p) = n + 1 BY <2>1
 <2>3. \A i \in 1..(n + 1) : p[i] = IF i = n + 1 THEN c ELSE q[i] BY <2>1
 <2>4. p # <<>> BY <2>1, <2>2
 <2> QED BY <2>1, <2>2, <2>3, <2>4
<1>2. EndOf(c) \in Nat /\ end <= EndOf(c)
 <2>1. Len(c) \in Nat \ {0} /\ Before(c) \in Nat /\ EndOf(c) = Before(c) + Len(c)
  BY ChunkEnds DEF EndOf
 <2> QED BY <2>1
<1>3. \A i \in 1..n : EndOf(q[i]) <= end /\ EndOf(q[i]) = IF i = n THEN end ELSE Before(q[i + 1])
 BY DEF JoinsUp
<1>4. \A i \in 1..n : EndOf(q[i]) \in Nat
 <2> SUFFICES ASSUME NEW i \in 1..n  PROVE EndOf(q[i]) \in Nat
  OBVIOUS
 <2>1. q[i] \in Chunks BY <1>1
 <2> QED BY <2>1, ChunkEnds DEF EndOf
<1> HIDE DEF p, n
<1>5. \A i \in 1..(n + 1) : EndOf(p[i]) <= EndOf(c)
 <2> SUFFICES ASSUME NEW i \in 1..(n + 1)  PROVE EndOf(p[i]) <= EndOf(c)
  OBVIOUS
 <2>1. CASE i = n + 1
  <3>1. p[i] = c BY <1>1, <2>1
  <3> QED BY <1>2, <3>1
 <2>2. CASE i # n + 1
  <3>1. i \in 1..n /\ p[i] = q[i] BY <1>1, <2>2
  <3>2. EndOf(p[i]) \in Nat /\ EndOf(p[i]) <= end BY <1>3, <1>4, <3>1
  <3> QED BY <1>1, <1>2, <3>2
 <2> QED BY <2>1, <2>2
<1>6. \A i \in 1..(n + 1) : EndOf(p[i]) = IF i = n + 1 THEN EndOf(c) ELSE Before(p[i + 1])
 <2> SUFFICES ASSUME NEW i \in 1..(n + 1)
              PROVE  EndOf(p[i]) = IF i = n + 1 THEN EndOf(c) ELSE Before(p[i + 1])
  OBVIOUS
 <2>1. CASE i = n + 1
  <3>1. p[i] = c BY <1>1, <2>1
  <3> QED BY <2>1, <3>1
 <2>2. CASE i = n
  <3>1. i \in 1..n /\ i + 1 \in 1..(n + 1) /\ i # n + 1 /\ i + 1 = n + 1 BY <1>1, <2>2
  <3>2. p[i] = q[i] /\ p[i + 1] = c BY <1>1, <3>1
  <3>3. EndOf(p[i]) = end BY <1>3, <2>2, <3>1, <3>2
  <3> QED BY <3>1, <3>2, <3>3
 <2>3. CASE i # n + 1 /\ i # n
  <3>1. i \in 1..n /\ i + 1 \in 1..(n + 1) /\ i + 1 # n + 1 BY <1>1, <2>3
  <3>2. p[i] = q[i] /\ p[i + 1] = q[i + 1] BY <1>1, <2>3, <3>1
  <3>3. EndOf(q[i]) = Before(q[i + 1]) BY <1>3, <2>3, <3>1
  <3> QED BY <2>3, <3>2, <3>3
 <2> QED BY <2>1, <2>2, <2>3
<1>7. Start(p, EndOf(c)) = Start(q, end)
 <2>1. CASE q = <<>>
  <3>1. n = 0 BY <2>1 DEF n
  <3>2. p[1] = c BY <1>1, <3>1
  <3> QED BY <1>1, <2>1, <3>2 DEF Start
 <2>2. CASE q # <<>>
  <3>1. 1 \in 1..n BY <1>1, <2>2 DEF n
  <3>2. 1 \in 1..(n + 1) /\ 1 # n + 1 BY <1>1, <3>1
  <3>3. p[1] = q[1] BY <1>1, <3>2
  <3> QED BY <1>1, <2>2, <3>3 DEF Start
 <2> QED BY <2>1, <2>2
<1>8. JoinsUp(p, EndOf(c)) BY <1>1, <1>2, <1>5, <1>6 DEF JoinsUp
<1> QED BY <1>7, <1>8 DEF p

(* The first chunk is taken. *)
LEMMA ChainTail ==
  ASSUME NEW q, NEW end, JoinsUp(q, end), q # <<>>
  PROVE  /\ Head(q) \in Chunks /\ Start(q, end) = Before(Head(q))
         /\ JoinsUp(Tail(q), end) /\ Start(Tail(q), end) = EndOf(Head(q))
<1> DEFINE p == Tail(q)
           n == Len(q)
<1>1. /\ q \in Seq(Chunks) /\ end \in Nat /\ n \in Nat \ {0} /\ p \in Seq(Chunks) /\ Len(p) = n - 1
      /\ \A i \in 1..(n - 1) : p[i] = q[i + 1]
 BY DEF JoinsUp
<1>2. Head(q) = q[1] /\ q[1] \in Chunks BY <1>1
<1>3. \A i \in 1..n : EndOf(q[i]) <= end /\ EndOf(q[i]) = IF i = n THEN end ELSE Before(q[i + 1])
 BY DEF JoinsUp
<1>4. p = <<>> <=> n = 1
 <2> HIDE DEF p
 <2>1. p = <<>> <=> Len(p) = 0 BY <1>1
 <2> QED BY <1>1, <2>1
<1> HIDE DEF p, n
<1>5. \A i \in 1..(n - 1) : EndOf(p[i]) <= end
 <2> SUFFICES ASSUME NEW i \in 1..(n - 1)  PROVE EndOf(p[i]) <= end
  OBVIOUS
 <2>1. i + 1 \in 1..n /\ p[i] = q[i + 1] BY <1>1
 <2> QED BY <1>3, <2>1
<1>6. \A i \in 1..(n - 1) : EndOf(p[i]) = IF i = n - 1 THEN end ELSE Before(p[i + 1])
 <2> SUFFICES ASSUME NEW i \in 1..(n - 1)
              PROVE  EndOf(p[i]) = IF i = n - 1 THEN end ELSE Before(p[i + 1])
  OBVIOUS
 <2> DEFINE j == i + 1
 <2>1. j \in 1..n /\ p[i] = q[j] /\ (i = n - 1 <=> j = n) BY <1>1
 <2>2. i # n - 1 => p[j] = q[j + 1]
  <3>1. i # n - 1 => j \in 1..(n - 1) BY <1>1
  <3> HIDE DEF j
  <3> QED BY <1>1, <3>1
 <2> HIDE DEF j
 <2>3. EndOf(p[i]) = IF i = n - 1 THEN end ELSE Before(p[j]) BY <1>3, <2>1, <2>2
 <2> QED BY <2>3 DEF j
<1>7. Start(p, end) = EndOf(q[1])
 <2>1. 1 \in 1..n BY <1>1
 <2>2. CASE n = 1 BY <1>3, <1>4, <2>1, <2>2 DEF Start
 <2>3. CASE n # 1
  <3>1. EndOf(q[1]) = Before(q[1 + 1]) BY <1>3, <2>1, <2>3
  <3>2. 1 \in 1..(n - 1) BY <1>1, <2>3
  <3>3. p[1] = q[1 + 1] BY <1>1, <3>2
  <3> QED BY <1>4, <2>3, <3>1, <3>3 DEF Start
 <2> QED BY <2>2, <2>3
<1>8. JoinsUp(p, end) BY <1>1, <1>5, <1>6 DEF JoinsUp
<1> QED BY <1>2, <1>7, <1>8 DEF p, Start

(* flushPending leaves the screen in order, and without a hole up to the end  *)
(* of what was pending.                                                       *)
LEMMA FlushedRight ==
  ASSUME NEW p \in Seq(Chunks), NEW s, s = [text |-> s.text, last |-> s.last],
         OnScreen(s.text, s.last), NEW end
  PROVE  LET w == Flushed(p, s) IN
           /\ OnScreen(w.text, w.last)
           /\ Gapless(s.text) /\ JoinsUp(p, end) /\ (s.last \in Nat => Start(p, end) <= s.last)
                => Gapless(w.text) /\ (w.last \in Nat => end <= w.last)
<1> DEFINE m == Len(p)
           at(k) == IF k = m THEN end ELSE Before(p[k + 1])
           SoundView == Gapless(s.text) /\ JoinsUp(p, end) /\ (s.last \in Nat => Start(p, end) <= s.last)
           Fine(w, k) == /\ w = [text |-> w.text, last |-> w.last] /\ OnScreen(w.text, w.last)
                         /\ SoundView => Gapless(w.text) /\ (w.last \in Nat => at(k) <= w.last)
<1>1. m \in Nat OBVIOUS
<1>2. PICK f : FlushedFrom(f, p, s, m) /\ Flushed(p, s) = f[m] BY <1>1, FlushedSteps
<1>3. \A k \in 0..m : f[k] = IF k = 0 THEN s ELSE Written(f[k - 1], p[k])
 BY <1>2 DEF FlushedFrom
<1>4. \A k \in 1..m : p[k] \in Chunks OBVIOUS
<1>5. SoundView => \A k \in 1..m : EndOf(p[k]) = at(k) BY DEF JoinsUp
<1>6. at(0) = Start(p, end) BY DEF Start
<1> DEFINE Wrong == {k \in 0..m : ~ Fine(f[k], k)}
<1> HIDE DEF m, at
<1>7. Fine(f[0], 0)
 <2>1. f[0] = s BY <1>1, <1>3
 <2> QED BY <1>6, <2>1
<1>8. ASSUME NEW k \in 1..m, Fine(f[k - 1], k - 1)
      PROVE  Fine(f[k], k)
 <2> DEFINE t == f[k - 1]
 <2>1. f[k] = Written(t, p[k]) /\ p[k] \in Chunks BY <1>1, <1>3, <1>4
 <2>2. t = [text |-> t.text, last |-> t.last] /\ OnScreen(t.text, t.last) BY <1>8
 <2>3. SoundView => Gapless(t.text) /\ (t.last \in Nat => at(k - 1) <= t.last) BY <1>8
 <2>4. at(k - 1) = Before(p[k]) BY <1>1 DEF at
 <2> HIDE DEF t, SoundView
 <2>5. /\ f[k] = [text |-> f[k].text, last |-> f[k].last]
       /\ OnScreen(f[k].text, f[k].last)
       /\ f[k].last \in Nat /\ f[k].last >= EndOf(p[k])
       /\ Gapless(t.text) /\ (t.last \in Nat => Before(p[k]) <= t.last) => Gapless(f[k].text)
  BY <2>1, <2>2, WrittenRight DEF EndOf
 <2>6. EndOf(p[k]) \in Nat BY <2>1, ChunkEnds DEF EndOf
 <2>7. SoundView => Gapless(f[k].text) /\ at(k) <= f[k].last
  <3>1. SoundView => Gapless(f[k].text) BY <2>3, <2>4, <2>5
  <3>2. SoundView => at(k) <= f[k].last BY <1>5, <2>5, <2>6
  <3> QED BY <3>1, <3>2
 <2> QED BY <2>5, <2>7
<1>9. Wrong = {}
 <2> SUFFICES ASSUME Wrong # {}  PROVE FALSE
  OBVIOUS
 <2>1. Wrong \in SUBSET Nat BY <1>1
 <2> HIDE DEF Fine
 <2>2. PICK k \in Wrong : \A j \in Wrong : k <= j BY <2>1, LeastNumber
 <2>3. k \in 0..m /\ ~ Fine(f[k], k) BY <2>2
 <2>4. k # 0 BY <1>7, <2>3
 <2>5. k \in 1..m /\ k - 1 \in 0..m /\ ~(k <= k - 1) BY <1>1, <2>3, <2>4
 <2>6. k - 1 \notin Wrong BY <2>2, <2>5
 <2>7. Fine(f[k - 1], k - 1) BY <2>5, <2>6
 <2> QED BY <1>8, <2>3, <2>5, <2>7
<1>10. Fine(f[m], m)
 <2>1. m \in 0..m BY <1>1
 <2> HIDE DEF Fine
 <2> QED BY <1>9, <2>1
<1>11. at(m) = end BY DEF at
<1> QED BY <1>2, <1>10, <1>11

--------------------------------------------------
(* A terminal shows a rising sequence of characters up to what it has applied *)
(* last; the chunks that wait for it, and those on their way to its window,   *)
(* follow each other up to the end of the ring and, as long as the session is *)
(* there, leave no hole between them and what is on the screen.               *)

ViewRec  == [mounted : BOOLEAN, caughtUp : BOOLEAN, pending : Seq(Chunks), last : Nat \cup {Fresh}]
ReplyRec == [data : Seq(Nat), end : Nat, reset : BOOLEAN, there : BOOLEAN]

(* Where the next chunk for a window begins, and where the next of those the  *)
(* terminal kept or is still to get does.                                     *)
NextAt(v) == Start(channel[v], ring.end)
Base(v)  == Start(view[v].pending, NextAt(v))

(* An answer continues the screen, or replaces it. *)
Answers(r, last) ==
  \E from \in Nat : from <= r.end /\ r.data = Chars(from, r.end) /\ (~r.reset => last = from)

ViewRight(v) ==
  /\ OnScreen(screen[v], view[v].last)
  /\ ~(view[v].mounted /\ ~view[v].caughtUp) => view[v].pending = <<>> /\ ~reply[v].there
  /\ reply[v].there => Answers(reply[v], view[v].last)

(* While the session is there, what is on screen, what the answer brings, what*)
(* is pending and what is on its way leave no hole between them.              *)
NoneMissing(v) ==
  /\ Gapless(screen[v]) /\ JoinsUp(channel[v], ring.end) /\ JoinsUp(view[v].pending, NextAt(v))
  /\ view[v].mounted /\ view[v].caughtUp /\ view[v].last \in Nat => NextAt(v) <= view[v].last
  /\ reply[v].there => Base(v) <= reply[v].end

ScrollTypes ==
  /\ ring \in [start : Nat, end : Nat] /\ ring.start <= ring.end /\ dropped \in BOOLEAN
  /\ channel \in [Views -> Seq(Chunks)] /\ reply \in [Views -> ReplyRec]
  /\ view \in [Views -> ViewRec] /\ screen \in [Views -> Seq(Nat)]

ScrollInv == ScrollTypes /\ \A v \in Views : ViewRight(v) /\ (~dropped => NoneMissing(v))

(* One view changes. *)
LEMMA OneView ==
  ASSUME NEW v \in Views, ScrollInv, ring' = ring, dropped' = dropped,
         ScrollTypes', ViewRight(v)', (~dropped => NoneMissing(v))',
         \A w \in Views \ {v} : /\ channel'[w] = channel[w] /\ reply'[w] = reply[w]
                                /\ view'[w] = view[w] /\ screen'[w] = screen[w]
  PROVE  ScrollInv'
<1> SUFFICES ASSUME NEW w \in Views \ {v}
             PROVE  ViewRight(w)' /\ (~dropped => NoneMissing(w))'
 BY DEF ScrollInv
<1>1. ViewRight(w) /\ (~dropped => NoneMissing(w)) BY DEF ScrollInv
<1>2. ViewRight(w)' BY <1>1 DEF ViewRight
<1>3. NextAt(w)' = NextAt(w) /\ Base(w)' = Base(w) BY DEF NextAt, Base
<1>4. (~dropped => NoneMissing(w))' BY <1>1, <1>3 DEF NoneMissing
<1> QED BY <1>2, <1>4

(* A terminal mounts, unmounts, or has caught up; what an answer makes of its *)
(* screen before the chunks that were kept.                                   *)
Anew(r)    == [r EXCEPT !.mounted = TRUE, !.caughtUp = FALSE, !.pending = <<>>]
Left(r)    == [r EXCEPT !.mounted = FALSE, !.caughtUp = FALSE, !.pending = <<>>]
UpTo(r, l) == [r EXCEPT !.caughtUp = TRUE, !.pending = <<>>, !.last = l]
Caught(r, shown, last) ==
  IF SessionGone(r) THEN [text |-> shown, last |-> last]
  ELSE [text |-> (IF r.reset THEN <<>> ELSE shown) \o r.data, last |-> r.end]

LEMMA Entries ==
  ASSUME NEW r \in ViewRec, NEW l \in Nat \cup {Fresh}
  PROVE  /\ /\ Anew(r) \in ViewRec /\ Anew(r).mounted /\ ~Anew(r).caughtUp
            /\ Anew(r).pending = <<>> /\ Anew(r).last = r.last
         /\ /\ Left(r) \in ViewRec /\ ~Left(r).mounted /\ ~Left(r).caughtUp
            /\ Left(r).pending = <<>> /\ Left(r).last = r.last
         /\ /\ UpTo(r, l) \in ViewRec /\ UpTo(r, l).mounted = r.mounted /\ UpTo(r, l).caughtUp
            /\ UpTo(r, l).pending = <<>> /\ UpTo(r, l).last = l
<1>1. r = [mounted |-> r.mounted, caughtUp |-> r.caughtUp, pending |-> r.pending, last |-> r.last]
      /\ r.mounted \in BOOLEAN /\ r.last \in Nat \cup {Fresh}
 BY DEF ViewRec
<1>2. /\ Anew(r) = [mounted |-> TRUE, caughtUp |-> FALSE, pending |-> <<>>, last |-> r.last]
      /\ Left(r) = [mounted |-> FALSE, caughtUp |-> FALSE, pending |-> <<>>, last |-> r.last]
      /\ UpTo(r, l) = [mounted |-> r.mounted, caughtUp |-> TRUE, pending |-> <<>>, last |-> l]
 <2>1. Anew(r) = [mounted |-> TRUE, caughtUp |-> FALSE, pending |-> <<>>, last |-> r.last]
  <3>1. PICK n : n = Anew(r) OBVIOUS
  <3>2. n = [mounted |-> TRUE, caughtUp |-> FALSE, pending |-> <<>>, last |-> r.last]
   BY <1>1, <3>1 DEF Anew
  <3> QED BY <3>1, <3>2
 <2>2. Left(r) = [mounted |-> FALSE, caughtUp |-> FALSE, pending |-> <<>>, last |-> r.last]
  <3>1. PICK n : n = Left(r) OBVIOUS
  <3>2. n = [mounted |-> FALSE, caughtUp |-> FALSE, pending |-> <<>>, last |-> r.last]
   BY <1>1, <3>1 DEF Left
  <3> QED BY <3>1, <3>2
 <2>3. UpTo(r, l) = [mounted |-> r.mounted, caughtUp |-> TRUE, pending |-> <<>>, last |-> l]
  <3>1. PICK n : n = UpTo(r, l) OBVIOUS
  <3>2. n = [mounted |-> r.mounted, caughtUp |-> TRUE, pending |-> <<>>, last |-> l]
   BY <1>1, <3>1 DEF UpTo
  <3> QED BY <3>1, <3>2
 <2> QED BY <2>1, <2>2, <2>3
<1>3. <<>> \in Seq(Chunks) OBVIOUS
<1>4. Anew(r) \in ViewRec /\ Left(r) \in ViewRec BY <1>1, <1>2, <1>3 DEF ViewRec
<1>5. UpTo(r, l) \in ViewRec BY <1>1, <1>2, <1>3 DEF ViewRec
<1>6. /\ Anew(r).mounted /\ ~Anew(r).caughtUp /\ Anew(r).pending = <<>> /\ Anew(r).last = r.last
      /\ ~Left(r).mounted /\ ~Left(r).caughtUp /\ Left(r).pending = <<>> /\ Left(r).last = r.last
 BY <1>2
<1>7. /\ UpTo(r, l).mounted = r.mounted /\ UpTo(r, l).caughtUp
      /\ UpTo(r, l).pending = <<>> /\ UpTo(r, l).last = l
 BY <1>2
<1> QED BY <1>4, <1>5, <1>6, <1>7

LEMMA EmitKeeps == ASSUME ScrollInv, Emit  PROVE ScrollInv'
<1>1. ScrollTypes BY DEF ScrollInv
<1>2. PICK n \in 1..2 :
        /\ \E s \in Trimmed(ring.start, ring.end + n) : ring' = [start |-> s, end |-> ring.end + n]
        /\ channel' = [v \in Views |-> Append(channel[v], Chars(ring.end, ring.end + n))]
 BY DEF Emit
<1> DEFINE c == Chars(ring.end, ring.end + n)
<1>3. ~dropped /\ dropped' = dropped /\ reply' = reply /\ view' = view /\ screen' = screen
 BY DEF Emit
<1>4. ring.end \in Nat /\ ring.start \in Nat /\ ring.start <= ring.end /\ n \in Nat \ {0}
 BY <1>1 DEF ScrollTypes
<1>5. c \in Chunks /\ Before(c) = ring.end /\ EndOf(c) = ring.end + n BY <1>4, CharsChunk
<1>6. ring' \in [start : Nat, end : Nat] /\ ring'.start <= ring'.end /\ ring'.end = ring.end + n
 <2>1. PICK s \in Trimmed(ring.start, ring.end + n) : ring' = [start |-> s, end |-> ring.end + n]
  BY <1>2
 <2>2. s \in Nat /\ s <= ring.end + n /\ ring.end + n \in Nat BY <1>4, <2>1 DEF Trimmed
 <2> QED BY <2>1, <2>2
<1>7. channel' = [v \in Views |-> Append(channel[v], c)] BY <1>2
<1> HIDE DEF c
<1>8. ScrollTypes'
 <2>1. channel' \in [Views -> Seq(Chunks)] BY <1>1, <1>5, <1>7 DEF ScrollTypes
 <2> QED BY <1>1, <1>3, <1>6, <2>1 DEF ScrollTypes
<1>9. ASSUME NEW v \in Views  PROVE ViewRight(v)' /\ NoneMissing(v)'
 <2>1. ViewRight(v) /\ NoneMissing(v) BY <1>3 DEF ScrollInv
 <2>2. ViewRight(v)' BY <1>3, <2>1 DEF ViewRight
 <2>3. JoinsUp(channel[v], ring.end) BY <2>1 DEF NoneMissing
 <2>4. channel'[v] = Append(channel[v], c) BY <1>7
 <2>5. JoinsUp(channel'[v], ring'.end) /\ Start(channel'[v], ring'.end) = Start(channel[v], ring.end)
  BY <1>5, <1>6, <2>3, <2>4, ChainAppend
 <2>6. NextAt(v)' = NextAt(v) BY <2>5 DEF NextAt
 <2>7. Base(v)' = Base(v) BY <1>3, <2>6 DEF Base
 <2>8. NoneMissing(v)' BY <1>3, <2>1, <2>5, <2>6, <2>7 DEF NoneMissing
 <2> QED BY <2>2, <2>8
<1> QED BY <1>8, <1>9 DEF ScrollInv

LEMMA DropKeeps == ASSUME ScrollInv, Drop  PROVE ScrollInv'
<1>1. /\ dropped' = TRUE /\ ring' = [start |-> 0, end |-> 0]
      /\ channel' = channel /\ reply' = reply /\ view' = view /\ screen' = screen
 BY DEF Drop
<1>2. ScrollTypes' BY <1>1 DEF ScrollInv, ScrollTypes
<1>3. \A v \in Views : ViewRight(v)' BY <1>1 DEF ScrollInv, ViewRight
<1> QED BY <1>1, <1>2, <1>3 DEF ScrollInv

LEMMA MountKeeps == ASSUME ScrollInv, NEW v \in Views, Mount(v)  PROVE ScrollInv'
<1>1. ScrollTypes /\ ViewRight(v) /\ (~dropped => NoneMissing(v)) /\ view[v] \in ViewRec
 BY DEF ScrollInv, ScrollTypes
<1> DEFINE n == Anew(view[v])
<1>2. /\ ~view[v].mounted /\ ~reply[v].there /\ view' = [view EXCEPT ![v] = n]
      /\ ring' = ring /\ dropped' = dropped /\ channel' = channel /\ reply' = reply /\ screen' = screen
 BY DEF Mount, Anew
<1>3. 0 \in Nat \cup {Fresh} OBVIOUS
<1>4. n \in ViewRec /\ n.mounted /\ ~n.caughtUp /\ n.pending = <<>> /\ n.last = view[v].last
 BY <1>1, <1>3, Entries
<1> HIDE DEF n
<1>5. view' \in [Views -> ViewRec] /\ view'[v] = n /\ \A w \in Views \ {v} : view'[w] = view[w]
 BY <1>1, <1>2, <1>4 DEF ScrollTypes
<1>6. ScrollTypes' BY <1>1, <1>2, <1>5 DEF ScrollTypes
<1>7. ViewRight(v)' BY <1>1, <1>2, <1>4, <1>5 DEF ViewRight
<1>8. ASSUME ~dropped  PROVE NoneMissing(v)'
 <2>1. NoneMissing(v) /\ view[v].pending = <<>> BY <1>1, <1>2, <1>8 DEF ViewRight
 <2>2. NextAt(v)' = NextAt(v) BY <1>2 DEF NextAt
 <2> QED BY <1>2, <1>4, <1>5, <2>1, <2>2 DEF NoneMissing
<1> QED BY <1>2, <1>5, <1>6, <1>7, <1>8, OneView

LEMMA UnmountKeeps == ASSUME ScrollInv, NEW v \in Views, Unmount(v)  PROVE ScrollInv'
<1>1. ScrollTypes /\ ViewRight(v) /\ (~dropped => NoneMissing(v)) /\ view[v] \in ViewRec
 BY DEF ScrollInv, ScrollTypes
<1> DEFINE n == Left(view[v])
<1>2. /\ view' = [view EXCEPT ![v] = n] /\ reply' = [reply EXCEPT ![v] = NoReply]
      /\ ring' = ring /\ dropped' = dropped /\ channel' = channel /\ screen' = screen
 BY DEF Unmount, Left
<1>3. 0 \in Nat \cup {Fresh} OBVIOUS
<1>4. n \in ViewRec /\ ~n.mounted /\ ~n.caughtUp /\ n.pending = <<>> /\ n.last = view[v].last
 BY <1>1, <1>3, Entries
<1> HIDE DEF n
<1>5. view' \in [Views -> ViewRec] /\ view'[v] = n /\ \A w \in Views \ {v} : view'[w] = view[w]
 BY <1>1, <1>2, <1>4 DEF ScrollTypes
<1>6. /\ reply' \in [Views -> ReplyRec] /\ ~reply'[v].there
      /\ \A w \in Views \ {v} : reply'[w] = reply[w]
 BY <1>1, <1>2 DEF ScrollTypes, ReplyRec, NoReply
<1>7. ScrollTypes' BY <1>1, <1>2, <1>5, <1>6 DEF ScrollTypes
<1>8. ViewRight(v)' BY <1>1, <1>2, <1>4, <1>5, <1>6 DEF ViewRight
<1>9. ASSUME ~dropped  PROVE NoneMissing(v)'
 <2>1. NoneMissing(v) BY <1>1, <1>9
 <2>2. NextAt(v)' = NextAt(v) BY <1>2 DEF NextAt
 <2>3. NextAt(v) \in Nat BY <2>1, ChainStart DEF NoneMissing, NextAt
 <2>4. JoinsUp(<<>>, NextAt(v)) BY <2>3 DEF JoinsUp
 <2> QED BY <1>2, <1>4, <1>5, <1>6, <2>1, <2>2, <2>4 DEF NoneMissing
<1> QED BY <1>2, <1>5, <1>6, <1>7, <1>8, <1>9, OneView

LEMMA AnswerScrollbackKeeps == ASSUME ScrollInv, NEW v \in Views, AnswerScrollback(v)  PROVE ScrollInv'
<1>1. ScrollTypes /\ ViewRight(v) /\ (~dropped => NoneMissing(v)) /\ view[v] \in ViewRec
 BY DEF ScrollInv, ScrollTypes
<1> DEFINE r == ReadScrollback(view[v].last)
<1>2. /\ view[v].mounted /\ ~view[v].caughtUp /\ reply' = [reply EXCEPT ![v] = r]
      /\ ring' = ring /\ dropped' = dropped /\ channel' = channel /\ view' = view /\ screen' = screen
 BY DEF AnswerScrollback
<1>3. ring.start \in Nat /\ ring.end \in Nat /\ ring.start <= ring.end
      /\ view[v].last \in Nat \cup {Fresh}
 BY <1>1 DEF ScrollTypes, ViewRec
<1>4. r \in ReplyRec /\ r.there /\ r.end = ring.end /\ Answers(r, view[v].last)
 <2>1. CASE view[v].last # Fresh /\ view[v].last >= ring.start /\ view[v].last <= ring.end
  <3>1. r = [data |-> Chars(view[v].last, ring.end), end |-> ring.end, reset |-> FALSE, there |-> TRUE]
   BY <2>1 DEF ReadScrollback
  <3>2. view[v].last \in Nat BY <1>3, <2>1
  <3>3. Chars(view[v].last, ring.end) \in Seq(Nat) BY <1>3, <2>1, <3>2, CharsAre
  <3> HIDE DEF r
  <3> QED BY <1>3, <2>1, <3>1, <3>2, <3>3 DEF ReplyRec, Answers
 <2>2. CASE ~(view[v].last # Fresh /\ view[v].last >= ring.start /\ view[v].last <= ring.end)
  <3>1. r = [data |-> Chars(ring.start, ring.end), end |-> ring.end, reset |-> TRUE, there |-> TRUE]
   BY <2>2 DEF ReadScrollback
  <3>2. Chars(ring.start, ring.end) \in Seq(Nat) BY <1>3, CharsAre
  <3> HIDE DEF r
  <3> QED BY <1>3, <3>1, <3>2 DEF ReplyRec, Answers
 <2> QED BY <2>1, <2>2
<1> HIDE DEF r
<1>5. reply' \in [Views -> ReplyRec] /\ reply'[v] = r /\ \A w \in Views \ {v} : reply'[w] = reply[w]
 BY <1>1, <1>2, <1>4 DEF ScrollTypes
<1>6. ScrollTypes' BY <1>1, <1>2, <1>5 DEF ScrollTypes
<1>7. ViewRight(v)' BY <1>1, <1>2, <1>4, <1>5 DEF ViewRight
<1>8. ASSUME ~dropped  PROVE NoneMissing(v)'
 <2>1. NoneMissing(v) BY <1>1, <1>8
 <2>2. NextAt(v)' = NextAt(v) /\ Base(v)' = Base(v) BY <1>2 DEF NextAt, Base
 <2>3. NextAt(v) \in Nat /\ NextAt(v) <= ring.end BY <2>1, ChainStart DEF NoneMissing, NextAt
 <2>4. Base(v) \in Nat /\ Base(v) <= NextAt(v) BY <2>1, ChainStart DEF NoneMissing, Base
 <2>5. Base(v) <= r.end BY <1>3, <1>4, <2>3, <2>4
 <2> QED BY <1>2, <1>5, <2>1, <2>2, <2>5 DEF NoneMissing
<1> QED BY <1>2, <1>5, <1>6, <1>7, <1>8, OneView

LEMMA DeliverKeeps == ASSUME ScrollInv, NEW v \in Views, Deliver(v)  PROVE ScrollInv'
<1>1. /\ ScrollTypes /\ ViewRight(v) /\ (~dropped => NoneMissing(v))
      /\ view[v] \in ViewRec /\ channel[v] \in Seq(Chunks)
 BY DEF ScrollInv, ScrollTypes
<1> DEFINE c == Head(channel[v])
<1>2. /\ channel[v] # <<>> /\ channel' = [channel EXCEPT ![v] = Tail(@)]
      /\ ring' = ring /\ dropped' = dropped /\ reply' = reply
 BY DEF Deliver
<1>3. c \in Chunks /\ Tail(channel[v]) \in Seq(Chunks) BY <1>1, <1>2
<1>4. /\ channel' \in [Views -> Seq(Chunks)] /\ channel'[v] = Tail(channel[v])
      /\ \A w \in Views \ {v} : channel'[w] = channel[w]
 BY <1>1, <1>2, <1>3 DEF ScrollTypes
<1>5. ASSUME ~dropped
      PROVE  /\ NoneMissing(v) /\ NextAt(v) = Before(c) /\ NextAt(v)' = EndOf(c)
             /\ JoinsUp(channel'[v], ring.end)
 <2>1. NoneMissing(v) /\ JoinsUp(channel[v], ring.end) BY <1>1, <1>5 DEF NoneMissing
 <2>2. /\ Start(channel[v], ring.end) = Before(c) /\ JoinsUp(Tail(channel[v]), ring.end)
       /\ Start(Tail(channel[v]), ring.end) = EndOf(c)
  BY <1>2, <2>1, ChainTail
 <2> QED BY <1>2, <1>4, <2>1, <2>2 DEF NextAt
<1> HIDE DEF c
<1>6. CASE ~view[v].mounted
 <2>1. view' = view /\ screen' = screen BY <1>6 DEF Deliver
 <2>2. ScrollTypes' BY <1>1, <1>2, <1>4, <2>1 DEF ScrollTypes
 <2>3. ViewRight(v)' BY <1>1, <1>2, <2>1 DEF ViewRight
 <2>4. ASSUME ~dropped  PROVE NoneMissing(v)'
  <3>1. view[v].pending = <<>> /\ ~reply[v].there BY <1>1, <1>6 DEF ViewRight
  <3>2. EndOf(c) \in Nat BY <1>3, ChunkEnds DEF EndOf
  <3>3. JoinsUp(<<>>, EndOf(c)) BY <3>2 DEF JoinsUp
  <3> QED BY <1>2, <1>5, <1>6, <2>1, <2>4, <3>1, <3>3 DEF NoneMissing
 <2> QED BY <1>2, <1>4, <2>1, <2>2, <2>3, <2>4, OneView
<1>7. CASE view[v].mounted /\ view[v].caughtUp
 <2> DEFINE t == [text |-> screen[v], last |-> view[v].last]
            s == Written(t, c)
            n == [view[v] EXCEPT !.last = s.last]
 <2>1. screen' = [screen EXCEPT ![v] = s.text] /\ view' = [view EXCEPT ![v].last = s.last]
  BY <1>7 DEF Deliver, c
 <2>2. OnScreen(screen[v], view[v].last) BY <1>1 DEF ViewRight
 <2>3. t = [text |-> t.text, last |-> t.last] /\ t.text = screen[v] /\ t.last = view[v].last
  OBVIOUS
 <2> HIDE DEF t
 <2>4. /\ OnScreen(s.text, s.last) /\ s.last \in Nat /\ s.last >= EndOf(c)
       /\ Gapless(screen[v]) /\ (view[v].last \in Nat => Before(c) <= view[v].last) => Gapless(s.text)
  BY <1>3, <2>2, <2>3, WrittenRight DEF EndOf
 <2> HIDE DEF s
 <2>5. /\ n \in ViewRec /\ n.mounted /\ n.caughtUp /\ n.last = s.last
       /\ n.pending = view[v].pending
  BY <1>1, <1>7, <2>4 DEF ViewRec
 <2>6. view' = [view EXCEPT ![v] = n] BY <1>1, <2>1 DEF ScrollTypes
 <2> HIDE DEF n
 <2>7. view' \in [Views -> ViewRec] /\ view'[v] = n /\ \A w \in Views \ {v} : view'[w] = view[w]
  BY <1>1, <2>5, <2>6 DEF ScrollTypes
 <2>8. /\ screen' \in [Views -> Seq(Nat)] /\ screen'[v] = s.text
       /\ \A w \in Views \ {v} : screen'[w] = screen[w]
  BY <1>1, <2>1, <2>4 DEF ScrollTypes, OnScreen
 <2>9. ScrollTypes' BY <1>1, <1>2, <1>4, <2>7, <2>8 DEF ScrollTypes
 <2>10. view[v].pending = <<>> /\ ~reply[v].there BY <1>1, <1>7 DEF ViewRight
 <2>11. ViewRight(v)' BY <1>2, <2>4, <2>5, <2>7, <2>8, <2>10 DEF ViewRight
 <2>12. ASSUME ~dropped  PROVE NoneMissing(v)'
  <3>1. EndOf(c) \in Nat BY <1>3, ChunkEnds DEF EndOf
  <3>2. JoinsUp(<<>>, EndOf(c)) BY <3>1 DEF JoinsUp
  <3>3. Gapless(screen[v]) /\ (view[v].last \in Nat => Before(c) <= view[v].last)
   BY <1>5, <1>7, <2>12 DEF NoneMissing
  <3>4. Gapless(s.text) BY <2>4, <3>3
  <3>5. NextAt(v)' <= s.last BY <1>5, <2>4, <2>12, <3>1
  <3>6. view'[v].pending = <<>> /\ ~reply'[v].there /\ view'[v].last = s.last
   BY <1>2, <2>5, <2>7, <2>10
  <3>7. JoinsUp(view'[v].pending, NextAt(v)') BY <1>5, <2>12, <3>2, <3>6
  <3>8. JoinsUp(channel'[v], ring'.end) BY <1>2, <1>5, <2>12
  <3> QED BY <2>8, <3>4, <3>5, <3>6, <3>7, <3>8 DEF NoneMissing
 <2> QED BY <1>2, <1>4, <2>7, <2>8, <2>9, <2>11, <2>12, OneView
<1>8. CASE view[v].mounted /\ ~view[v].caughtUp
 <2> DEFINE p == Append(view[v].pending, c)
            n == [view[v] EXCEPT !.pending = p]
 <2>1. screen' = screen /\ view' = [view EXCEPT ![v].pending = p]
  BY <1>1, <1>8 DEF Deliver, c, ScrollTypes
 <2>2. p \in Seq(Chunks) BY <1>1, <1>3 DEF ViewRec
 <2> HIDE DEF p
 <2>3. /\ n \in ViewRec /\ n.mounted /\ ~n.caughtUp /\ n.last = view[v].last /\ n.pending = p
  BY <1>1, <1>8, <2>2 DEF ViewRec
 <2>4. view' = [view EXCEPT ![v] = n] BY <1>1, <2>1 DEF ScrollTypes
 <2> HIDE DEF n
 <2>5. view' \in [Views -> ViewRec] /\ view'[v] = n /\ \A w \in Views \ {v} : view'[w] = view[w]
  BY <1>1, <2>3, <2>4 DEF ScrollTypes
 <2>6. ScrollTypes' BY <1>1, <1>2, <1>4, <2>1, <2>5 DEF ScrollTypes
 <2>7. ViewRight(v)' BY <1>1, <1>2, <1>8, <2>1, <2>3, <2>5 DEF ViewRight
 <2>8. ASSUME ~dropped  PROVE NoneMissing(v)'
  <3>1. JoinsUp(view[v].pending, Before(c)) BY <1>5, <2>8 DEF NoneMissing
  <3>2. JoinsUp(p, EndOf(c)) /\ Start(p, EndOf(c)) = Start(view[v].pending, Before(c))
   BY <1>3, <3>1, ChainAppend DEF p
  <3>3. Base(v)' = Base(v) BY <1>5, <2>3, <2>5, <2>8, <3>2 DEF Base
  <3>4. JoinsUp(view'[v].pending, NextAt(v)') BY <1>5, <2>3, <2>5, <2>8, <3>2
  <3>5. JoinsUp(channel'[v], ring'.end) BY <1>2, <1>5, <2>8
  <3> QED BY <1>2, <1>5, <2>1, <2>3, <2>5, <2>8, <3>3, <3>4, <3>5 DEF NoneMissing
 <2> QED BY <1>2, <1>4, <2>1, <2>5, <2>6, <2>7, <2>8, OneView
<1> QED BY <1>6, <1>7, <1>8

(* What the answer makes of the screen, before the chunks that were kept. *)
LEMMA CaughtRight ==
  ASSUME NEW shown, NEW last, OnScreen(shown, last), NEW r \in ReplyRec, Answers(r, last)
  PROVE  LET s == Caught(r, shown, last) IN
           /\ s = [text |-> s.text, last |-> s.last] /\ OnScreen(s.text, s.last)
           /\ Gapless(shown) => Gapless(s.text)
           /\ s.last \in Nat => r.end <= s.last
<1> DEFINE s == Caught(r, shown, last)
<1>1. r.data \in Seq(Nat) /\ r.end \in Nat /\ shown \in Seq(Nat) /\ Ordered(shown)
      /\ last \in Nat \cup {Fresh} /\ (shown # <<>> => last = shown[Len(shown)])
 BY DEF ReplyRec, OnScreen
<1>2. PICK from \in Nat : from <= r.end /\ r.data = Chars(from, r.end) /\ (~r.reset => last = from)
 BY DEF Answers
<1>3. Len(r.data) = r.end - from /\ \A i \in 1..Len(r.data) : r.data[i] = from + i
 <2>1. Len(Chars(from, r.end)) = r.end - from
       /\ \A i \in 1..(r.end - from) : Chars(from, r.end)[i] = from + i
  BY <1>1, <1>2, CharsAre
 <2> QED BY <1>2, <2>1
<1>4. from + Len(r.data) = r.end BY <1>1, <1>2, <1>3
<1>5. CASE SessionGone(r)
 <2>1. s = [text |-> shown, last |-> last] /\ r.end = 0 BY <1>5 DEF SessionGone, Caught
 <2> HIDE DEF s
 <2>2. s.text = shown /\ s.last = last BY <2>1
 <2>3. s.last \in Nat => r.end <= s.last BY <2>1
 <2> QED BY <2>1, <2>2, <2>3 DEF s
<1>6. CASE ~SessionGone(r) /\ ~r.reset
 <2>1. s = [text |-> shown \o r.data, last |-> r.end] BY <1>6 DEF Caught
 <2> HIDE DEF s
 <2>2. s.text = shown \o r.data /\ s.last = r.end BY <2>1
 <2>3. last = from /\ from <= from BY <1>2, <1>6
 <2>4. OnScreen(shown \o r.data, from + Len(r.data)) /\ (Gapless(shown) => Gapless(shown \o r.data))
  BY <1>1, <1>3, <2>3, Extended
 <2>5. s.last \in Nat => r.end <= s.last BY <1>1, <2>2
 <2> QED BY <1>4, <2>1, <2>2, <2>4, <2>5 DEF s
<1>7. CASE ~SessionGone(r) /\ r.reset
 <2> DEFINE none == <<>>
 <2>1. s = [text |-> none \o r.data, last |-> r.end] BY <1>7 DEF Caught
 <2> HIDE DEF s
 <2>2. s.text = none \o r.data /\ s.last = r.end BY <2>1
 <2>3. none \in Seq(Nat) /\ none = <<>> /\ Ordered(none) /\ Gapless(none) /\ from <= from
  BY DEF Ordered, Gapless
 <2> HIDE DEF none
 <2>4. OnScreen(none \o r.data, from + Len(r.data)) /\ (Gapless(none) => Gapless(none \o r.data))
  BY <1>1, <1>3, <2>3, Extended
 <2>5. s.last \in Nat => r.end <= s.last BY <1>1, <2>2
 <2> QED BY <1>4, <2>1, <2>2, <2>3, <2>4, <2>5 DEF s
<1> QED BY <1>5, <1>6, <1>7

LEMMA CatchUpKeeps == ASSUME ScrollInv, NEW v \in Views, CatchUp(v)  PROVE ScrollInv'
<1>1. /\ ScrollTypes /\ ViewRight(v) /\ (~dropped => NoneMissing(v))
      /\ view[v] \in ViewRec /\ reply[v] \in ReplyRec /\ view[v].pending \in Seq(Chunks)
 BY DEF ScrollInv, ScrollTypes, ViewRec
<1> DEFINE r == reply[v]
           caught == Caught(r, screen[v], view[v].last)
           s == Flushed(view[v].pending, caught)
           n == UpTo(view[v], s.last)
<1>2. /\ view[v].mounted /\ ~view[v].caughtUp /\ reply[v].there
      /\ screen' = [screen EXCEPT ![v] = s.text] /\ view' = [view EXCEPT ![v] = n]
      /\ reply' = [reply EXCEPT ![v] = NoReply]
      /\ ring' = ring /\ dropped' = dropped /\ channel' = channel
 BY DEF CatchUp, UpTo, Caught
<1>3. OnScreen(screen[v], view[v].last) /\ Answers(r, view[v].last) BY <1>1, <1>2 DEF ViewRight
<1>4. /\ caught = [text |-> caught.text, last |-> caught.last] /\ OnScreen(caught.text, caught.last)
      /\ Gapless(screen[v]) => Gapless(caught.text)
      /\ caught.last \in Nat => r.end <= caught.last
 <2> HIDE DEF r
 <2>1. r \in ReplyRec BY <1>1 DEF r
 <2> QED BY <1>3, <2>1, CaughtRight
<1> HIDE DEF caught
<1>5. /\ OnScreen(s.text, s.last)
      /\ /\ Gapless(caught.text) /\ JoinsUp(view[v].pending, NextAt(v))
         /\ caught.last \in Nat => Start(view[v].pending, NextAt(v)) <= caught.last
         => Gapless(s.text) /\ (s.last \in Nat => NextAt(v) <= s.last)
 BY <1>1, <1>4, FlushedRight
<1> HIDE DEF s
<1>6. n \in ViewRec /\ n.mounted /\ n.caughtUp /\ n.pending = <<>> /\ n.last = s.last
 <2>1. s.last \in Nat \cup {Fresh} BY <1>5 DEF OnScreen
 <2> QED BY ZenonT(60), <1>1, <1>2, <2>1, Entries
<1> HIDE DEF n
<1>7. view' \in [Views -> ViewRec] /\ view'[v] = n /\ \A w \in Views \ {v} : view'[w] = view[w]
 BY <1>1, <1>2, <1>6 DEF ScrollTypes
<1>8. /\ screen' \in [Views -> Seq(Nat)] /\ screen'[v] = s.text
      /\ \A w \in Views \ {v} : screen'[w] = screen[w]
 BY <1>1, <1>2, <1>5 DEF ScrollTypes, OnScreen
<1>9. /\ reply' \in [Views -> ReplyRec] /\ ~reply'[v].there
      /\ \A w \in Views \ {v} : reply'[w] = reply[w]
 BY <1>1, <1>2 DEF ScrollTypes, ReplyRec, NoReply
<1>10. ScrollTypes' BY <1>1, <1>2, <1>7, <1>8, <1>9 DEF ScrollTypes
<1>11. ViewRight(v)' BY <1>5, <1>6, <1>7, <1>8, <1>9 DEF ViewRight
<1>12. ASSUME ~dropped  PROVE NoneMissing(v)'
 <2>1. /\ Gapless(screen[v]) /\ JoinsUp(channel[v], ring.end)
       /\ JoinsUp(view[v].pending, NextAt(v)) /\ Base(v) <= r.end
  BY <1>1, <1>2, <1>12 DEF NoneMissing
 <2>2. Base(v) \in Nat /\ NextAt(v) \in Nat BY <2>1, ChainStart DEF Base, NextAt
 <2>3. r.end \in Nat BY <1>1 DEF ReplyRec
 <2>4. caught.last \in Nat => Base(v) <= caught.last
  <3> HIDE DEF r
  <3> QED BY <1>4, <2>1, <2>2, <2>3
 <2>5. Gapless(s.text) /\ (s.last \in Nat => NextAt(v) <= s.last)
  <3>1. Base(v) = Start(view[v].pending, NextAt(v)) BY DEF Base
  <3> QED BY <1>4, <1>5, <2>1, <2>4, <3>1
 <2>6. NextAt(v)' = NextAt(v) BY <1>2 DEF NextAt
 <2>7. JoinsUp(<<>>, NextAt(v)) BY <2>2 DEF JoinsUp
 <2> QED BY <1>2, <1>6, <1>7, <1>8, <1>9, <2>1, <2>5, <2>6, <2>7 DEF NoneMissing
<1> QED BY <1>2, <1>7, <1>8, <1>9, <1>10, <1>11, <1>12, OneView

LEMMA ScrollStart == ScrollbackInit => ScrollInv
<1> SUFFICES ASSUME ScrollbackInit  PROVE ScrollInv
 OBVIOUS
<1>1. <<>> \in Seq(Chunks) /\ <<>> \in Seq(Nat) OBVIOUS
<1>2. ScrollTypes
 <2>1. ring \in [start : Nat, end : Nat] /\ ring.start <= ring.end /\ dropped \in BOOLEAN
  <3>1. ring = [start |-> 0, end |-> 0] /\ dropped = FALSE BY DEF ScrollbackInit
  <3>2. ring \in [start : Nat, end : Nat] /\ ring.start <= ring.end BY <3>1
  <3> QED BY <3>1, <3>2
 <2>2. NoReply \in ReplyRec BY <1>1 DEF NoReply, ReplyRec
 <2>3. [mounted |-> FALSE, caughtUp |-> FALSE, pending |-> <<>>, last |-> Fresh] \in ViewRec
  BY <1>1 DEF ViewRec
 <2>4. channel \in [Views -> Seq(Chunks)] /\ screen \in [Views -> Seq(Nat)]
  BY <1>1 DEF ScrollbackInit
 <2>5. reply \in [Views -> ReplyRec] BY <2>2 DEF ScrollbackInit
 <2>6. view \in [Views -> ViewRec] BY <2>3 DEF ScrollbackInit
 <2> QED BY <2>1, <2>4, <2>5, <2>6 DEF ScrollTypes
<1>3. ASSUME NEW v \in Views  PROVE ViewRight(v) /\ NoneMissing(v)
 <2>1. /\ channel[v] = <<>> /\ screen[v] = <<>> /\ ~reply[v].there
       /\ ~view[v].mounted /\ view[v].pending = <<>> /\ view[v].last = Fresh /\ ring.end = 0
  BY DEF ScrollbackInit, NoReply
 <2>2. Ordered(<<>>) /\ Gapless(<<>>) /\ JoinsUp(<<>>, 0) /\ Start(<<>>, 0) = 0
  BY DEF Ordered, Gapless, JoinsUp, Start
 <2>3. OnScreen(<<>>, Fresh) BY <2>2 DEF OnScreen
 <2>4. NextAt(v) = 0 BY <2>1, <2>2 DEF NextAt
 <2> QED BY <2>1, <2>2, <2>3, <2>4 DEF ViewRight, NoneMissing
<1> QED BY <1>2, <1>3 DEF ScrollInv

LEMMA ScrollStep == ASSUME ScrollInv, [ScrollbackNext]_scrollback  PROVE ScrollInv'
<1>1. CASE ScrollbackNext
 BY <1>1, EmitKeeps, DropKeeps, MountKeeps, AnswerScrollbackKeeps, DeliverKeeps, CatchUpKeeps, UnmountKeeps
    DEF ScrollbackNext
<1>2. CASE UNCHANGED scrollback
 BY <1>2 DEF scrollback, ScrollInv, ScrollTypes, ViewRight, NoneMissing, NextAt, Base
<1> QED BY <1>1, <1>2

LEMMA ScrollLossless == ScrollInv => Lossless
<1> SUFFICES ASSUME ScrollInv, NEW v \in Views
             PROVE  /\ \A i \in 1..(Len(screen[v]) - 1) :
                         /\ screen[v][i + 1] >= screen[v][i] + 1
                         /\ ~dropped => screen[v][i + 1] = screen[v][i] + 1
                    /\ screen[v] # <<>> => view[v].last = screen[v][Len(screen[v])]
 BY DEF Lossless
<1>1. OnScreen(screen[v], view[v].last) /\ (~dropped => Gapless(screen[v]))
 BY DEF ScrollInv, ViewRight, NoneMissing
<1> QED BY <1>1 DEF OnScreen, Ordered, Gapless

--------------------------------------------------
(* Telnet.  What the client understands of a word is what it understands of   *)
(* its beginning and then of the rest, so that it does not matter where the   *)
(* packets are cut: the server's messages, one after the other, complete what *)
(* is carried over, and what the client then knows as text is what was sent.  *)

Commands == {"DO", "DONT", "WILL", "WONT"}
Symbols  == {"a", "IAC", "SB", "SEND", "SE", "NOP"} \cup Commands \cup Options
Agreed   == [Options -> {Unset, "on", "off"}]
Counts   == [Options -> 0..MaxRefusals]
Sayings  == (Commands \cup {"SB"}) \X Symbols

(* The state the client works on, and what of it the text depends on. *)
State ==
  [text : Seq(Symbols), local : Agreed, remote : Agreed,
   refusals : [ours : Counts, theirs : Counts], out : Seq(Sayings), rest : Seq(Symbols)]
Same(t, s) == t \in State /\ t.text = s.text /\ t.rest = s.rest

LEMMA StateIs ==
  ASSUME NEW s \in State
  PROVE  /\ s = [text |-> s.text, local |-> s.local, remote |-> s.remote,
                 refusals |-> s.refusals, out |-> s.out, rest |-> s.rest]
         /\ s.text \in Seq(Symbols) /\ s.local \in Agreed /\ s.remote \in Agreed
         /\ s.refusals \in [ours : Counts, theirs : Counts]
         /\ s.out \in Seq(Sayings) /\ s.rest \in Seq(Symbols)
BY DEF State

LEMMA SaysKeeps ==
  ASSUME NEW s \in State, NEW cmd \in Commands \cup {"SB"}, NEW o \in Symbols
  PROVE  Same(Says(s, cmd, o), s)
<1>1. <<cmd, o>> \in Sayings BY DEF Sayings
<1> DEFINE more == Append(s.out, <<cmd, o>>)
<1>2. more \in Seq(Sayings) BY <1>1, StateIs
<1>3. Says(s, cmd, o) = [s EXCEPT !.out = more] BY DEF Says
<1> HIDE DEF more
<1>4. PICK t : t = Says(s, cmd, o) OBVIOUS
<1>5. t = [text |-> s.text, local |-> s.local, remote |-> s.remote,
           refusals |-> s.refusals, out |-> more, rest |-> s.rest]
 BY <1>3, <1>4, StateIs
<1>6. t \in State /\ t.text = s.text /\ t.rest = s.rest BY <1>2, <1>5, StateIs DEF State
<1> QED BY <1>4, <1>6 DEF Same

(* One option of one side is set. *)
LEMMA SetKeeps ==
  ASSUME NEW s \in State, NEW o, NEW value \in {Unset, "on", "off"},
         NEW side \in {"local", "remote"}
  PROVE  Same([s EXCEPT ![side][o] = value], s)
<1>1. PICK t : t = [s EXCEPT ![side][o] = value] OBVIOUS
<1>2. \A f \in Agreed : [f EXCEPT ![o] = value] \in Agreed BY DEF Agreed
<1>3. CASE side = "local"
 <2> DEFINE l == [s.local EXCEPT ![o] = value]
 <2>1. l \in Agreed BY <1>2, StateIs
 <2>2. t = [s EXCEPT !.local = l] BY <1>1, <1>3, StateIs
 <2> HIDE DEF l
 <2>3. t = [text |-> s.text, local |-> l, remote |-> s.remote,
            refusals |-> s.refusals, out |-> s.out, rest |-> s.rest]
  BY <2>2, StateIs
 <2>4. t \in State /\ t.text = s.text /\ t.rest = s.rest BY <2>1, <2>3, StateIs DEF State
 <2> QED BY <1>1, <2>4 DEF Same
<1>4. CASE side = "remote"
 <2> DEFINE l == [s.remote EXCEPT ![o] = value]
 <2>1. l \in Agreed BY <1>2, StateIs
 <2>2. t = [s EXCEPT !.remote = l] BY <1>1, <1>4, StateIs
 <2> HIDE DEF l
 <2>3. t = [text |-> s.text, local |-> s.local, remote |-> l,
            refusals |-> s.refusals, out |-> s.out, rest |-> s.rest]
  BY <2>2, StateIs
 <2>4. t \in State /\ t.text = s.text /\ t.rest = s.rest BY <2>1, <2>3, StateIs DEF State
 <2> QED BY <1>1, <2>4 DEF Same
<1> QED BY <1>3, <1>4

LEMMA AgreeKeeps ==
  ASSUME NEW s \in State, NEW o \in Symbols, NEW value \in {"on", "off"},
         NEW side \in {"local", "remote"}, NEW cmd \in Commands
  PROVE  Same(Agree(s, side, o, value, cmd), s)
<1> DEFINE t == [s EXCEPT ![side][o] = value]
<1>1. Same(t, s) BY SetKeeps
<1>2. Agree(s, side, o, value, cmd) = IF s[side][o] = value THEN s ELSE Says(t, cmd, o)
 BY DEF Agree
<1> HIDE DEF t
<1>3. Same(Says(t, cmd, o), t) BY <1>1, SaysKeeps DEF Same
<1> QED BY <1>1, <1>2, <1>3 DEF Same

LEMMA DisableKeeps ==
  ASSUME NEW s \in State, NEW o \in Symbols, NEW side \in {"local", "remote"}, NEW cmd \in Commands
  PROVE  Same(Disable(s, side, o, cmd), s)
<1> DEFINE t == [s EXCEPT ![side][o] = "off"]
<1>1. Same(t, s) BY SetKeeps
<1>2. Same(Agree(s, side, o, "off", cmd), s) BY AgreeKeeps
<1>3. Disable(s, side, o, cmd) = IF s[side][o] = "on" THEN Agree(s, side, o, "off", cmd) ELSE t
 BY DEF Disable
<1> QED BY <1>1, <1>2, <1>3

LEMMA RefuseKeeps ==
  ASSUME NEW s \in State, NEW o \in Symbols, NEW side \in {"local", "remote"},
         NEW count \in {"ours", "theirs"}, NEW cmd \in Commands
  PROVE  Same(Refuse(s, side, count, o, cmd), s)
<1> DEFINE off == [s EXCEPT ![side][o] = "off"]
           t   == [off EXCEPT !.refusals[count][o] = @ + 1]
<1>1. Same(off, s) BY SetKeeps
<1>2. Refuse(s, side, count, o, cmd)
        = IF s.refusals[count][o] >= MaxRefusals THEN off ELSE Says(t, cmd, o)
 BY DEF Refuse
<1> HIDE DEF off, t
<1>3. ASSUME ~(s.refusals[count][o] >= MaxRefusals)
      PROVE  Same(t, off)
 <2>1. off \in State /\ off.refusals = s.refusals BY <1>1, StateIs DEF Same, off
 <2> DEFINE c == off.refusals[count]
            d == [c EXCEPT ![o] = @ + 1]
            r == [off.refusals EXCEPT ![count] = d]
 <2>2. c \in Counts /\ off.refusals \in [ours : Counts, theirs : Counts] BY <2>1, StateIs
 <2>3. d \in Counts
  <3>1. CASE o \in Options
   <4>1. c[o] \in 0..MaxRefusals /\ ~(c[o] >= MaxRefusals) BY <1>3, <2>1, <2>2, <3>1 DEF Counts
   <4> HIDE DEF c
   <4>2. c[o] + 1 \in 0..MaxRefusals BY <4>1 DEF MaxRefusals
   <4> QED BY <2>2, <4>2 DEF Counts
  <3>2. CASE o \notin Options
   <4> HIDE DEF c
   <4>1. d = c BY <2>2, <3>2 DEF Counts
   <4> QED BY <2>2, <4>1
  <3> QED BY <3>1, <3>2
 <2>4. t = [off EXCEPT !.refusals = r] BY <2>1, StateIs DEF t
 <2> HIDE DEF c, d
 <2>5. r \in [ours : Counts, theirs : Counts] BY <2>2, <2>3
 <2> HIDE DEF r
 <2>6. PICK x : x = t OBVIOUS
 <2>7. x = [text |-> off.text, local |-> off.local, remote |-> off.remote,
            refusals |-> r, out |-> off.out, rest |-> off.rest]
  BY <2>1, <2>4, <2>6, StateIs
 <2>8. x \in State /\ x.text = off.text /\ x.rest = off.rest
  BY <2>1, <2>5, <2>7, StateIs DEF State
 <2> QED BY <2>6, <2>8 DEF Same
<1>4. Same(off, s) => off \in State BY DEF Same
<1>5. ~(s.refusals[count][o] >= MaxRefusals) => Same(Says(t, cmd, o), t)
 BY <1>3, SaysKeeps DEF Same
<1> QED BY <1>1, <1>2, <1>3, <1>5 DEF Same

LEMMA NegotiateKeeps ==
  ASSUME NEW s \in State, NEW cmd \in Commands, NEW o \in Symbols
  PROVE  Same(Negotiate(s, cmd, o), s)
<1>1. Same(s, s) BY DEF Same
<1>2. ASSUME NEW t \in State  PROVE Same(TerminalType(t), t)
 <2>1. TerminalType(t) = Says(t, "SB", "TERMINAL") BY DEF TerminalType, Says
 <2> QED BY <2>1, SaysKeeps DEF Symbols, Options
<1>3. CASE cmd = "DO" /\ o = "TERMINAL"
 <2>1. Negotiate(s, cmd, o)
         = IF s.local[o] = "on" THEN s ELSE TerminalType(Agree(s, "local", o, "on", "WILL"))
  BY <1>3 DEF Negotiate, Ours
 <2>2. Same(Agree(s, "local", o, "on", "WILL"), s) BY AgreeKeeps DEF Commands
 <2> QED BY <1>1, <1>2, <2>1, <2>2 DEF Same
<1>4. CASE cmd = "DO" /\ o = "SGA"
 <2>1. Negotiate(s, cmd, o) = Agree(s, "local", o, "on", "WILL") BY <1>4 DEF Negotiate, Ours
 <2> QED BY <2>1, AgreeKeeps DEF Commands
<1>5. CASE cmd = "DO" /\ o \notin Ours
 <2>1. Negotiate(s, cmd, o) = Refuse(s, "local", "ours", o, "WONT") BY <1>5 DEF Negotiate, Ours
 <2> QED BY <2>1, RefuseKeeps DEF Commands
<1>6. CASE cmd = "DONT"
 <2>1. Negotiate(s, cmd, o) = Disable(s, "local", o, "WONT") BY <1>6 DEF Negotiate
 <2> QED BY <2>1, DisableKeeps DEF Commands
<1>7. CASE cmd = "WILL" /\ o = "ECHO"
 <2>1. Negotiate(s, cmd, o) = Agree(s, "remote", o, "on", "DO") BY <1>7 DEF Negotiate
 <2> QED BY <2>1, AgreeKeeps DEF Commands
<1>8. CASE cmd = "WILL" /\ o # "ECHO"
 <2>1. Negotiate(s, cmd, o) = Refuse(s, "remote", "theirs", o, "DONT") BY <1>8 DEF Negotiate
 <2> QED BY <2>1, RefuseKeeps DEF Commands
<1>9. CASE cmd = "WONT"
 <2>1. Negotiate(s, cmd, o) = Disable(s, "remote", o, "DONT") BY <1>9 DEF Negotiate
 <2> QED BY <2>1, DisableKeeps DEF Commands
<1> QED BY <1>3, <1>4, <1>5, <1>6, <1>7, <1>8, <1>9 DEF Commands, Ours

(* The text and what is carried over, after one more byte. *)
Heard(words, seq) ==
  IF seq[1] # "IAC" THEN Append(words, seq[1])
  ELSE IF seq[2] = "IAC" THEN Append(words, "IAC") ELSE words
Step(p, b) ==
  LET seq == Append(p.rest, b) IN
    IF Ends(seq) THEN [text |-> Heard(p.text, seq), rest |-> <<>>] ELSE [text |-> p.text, rest |-> seq]

TextOf(s) == [text |-> s.text, rest |-> s.rest]

LEMMA UnderstoodKeeps ==
  ASSUME NEW s \in State, NEW seq \in Seq(Symbols), seq # <<>>, Ends(seq)
  PROVE  /\ Understood(seq, s) \in State /\ Understood(seq, s).rest = s.rest
         /\ Understood(seq, s).text = Heard(s.text, seq)
<1>1. seq[1] \in Symbols /\ Len(seq) \in Nat \ {0} OBVIOUS
<1>2. ASSUME NEW b \in Symbols, Understood(seq, s) = [s EXCEPT !.text = Append(@, b)]
      PROVE  /\ Understood(seq, s) \in State /\ Understood(seq, s).rest = s.rest
             /\ Understood(seq, s).text = Append(s.text, b)
 <2> DEFINE more == Append(s.text, b)
 <2>1. more \in Seq(Symbols) BY StateIs
 <2>2. PICK t : t = Understood(seq, s) OBVIOUS
 <2>3. t = [s EXCEPT !.text = more] BY <1>2, <2>2, StateIs
 <2> HIDE DEF more
 <2>4. t = [text |-> more, local |-> s.local, remote |-> s.remote,
            refusals |-> s.refusals, out |-> s.out, rest |-> s.rest]
  BY <2>3, StateIs
 <2>5. t \in State /\ t.text = more /\ t.rest = s.rest BY <2>1, <2>4, StateIs DEF State
 <2> QED BY <2>2, <2>5 DEF more
<1>3. CASE seq[1] # "IAC"
 <2>1. Understood(seq, s) = [s EXCEPT !.text = Append(@, seq[1])] BY <1>3 DEF Understood
 <2> QED BY <1>1, <1>2, <1>3, <2>1 DEF Heard
<1>4. CASE seq[1] = "IAC" /\ seq[2] = "IAC"
 <2>1. Understood(seq, s) = [s EXCEPT !.text = Append(@, "IAC")] BY <1>4 DEF Understood
 <2>2. "IAC" \in Symbols BY DEF Symbols
 <2> QED BY <1>2, <1>4, <2>1, <2>2 DEF Heard
<1>5. CASE seq[1] = "IAC" /\ seq[2] \in Commands
 <2>1. Understood(seq, s) = Negotiate(s, seq[2], seq[3]) BY <1>5 DEF Understood, Commands
 <2>2. Len(seq) = 3 BY <1>1, <1>5 DEF Ends, Commands
 <2>3. seq[3] \in Symbols
  <3>1. 3 \in 1..Len(seq) BY <2>2
  <3> QED BY <3>1
 <2>4. Same(Understood(seq, s), s) BY <1>5, <2>1, <2>3, NegotiateKeeps
 <2>5. Heard(s.text, seq) = s.text BY <1>5 DEF Heard, Commands
 <2> QED BY <2>4, <2>5 DEF Same
<1>6. CASE seq[1] = "IAC" /\ seq[2] = "SB"
 <2>1. \/ Understood(seq, s) = TerminalType(s)
       \/ Understood(seq, s) = s
  BY <1>6 DEF Understood
 <2>2. Same(TerminalType(s), s)
  <3>1. TerminalType(s) = Says(s, "SB", "TERMINAL") BY DEF TerminalType, Says
  <3> QED BY <3>1, SaysKeeps DEF Symbols, Options
 <2>3. Heard(s.text, seq) = s.text BY <1>6 DEF Heard
 <2> QED BY <2>1, <2>2, <2>3 DEF Same
<1>7. CASE seq[1] = "IAC" /\ seq[2] \notin Commands \cup {"IAC", "SB"}
 <2>1. Understood(seq, s) = s BY <1>7 DEF Understood, Commands
 <2>2. Heard(s.text, seq) = s.text BY <1>7 DEF Heard
 <2> QED BY <2>1, <2>2
<1> QED BY <1>3, <1>4, <1>5, <1>6, <1>7

LEMMA ByteStep ==
  ASSUME NEW s \in State, NEW b \in Symbols
  PROVE  Byte(s, b) \in State /\ TextOf(Byte(s, b)) = Step(TextOf(s), b)
<1> DEFINE seq == Append(s.rest, b)
<1>1. seq \in Seq(Symbols) /\ seq # <<>>
 <2>1. seq \in Seq(Symbols) /\ Len(seq) = Len(s.rest) + 1 /\ Len(s.rest) \in Nat BY StateIs
 <2> QED BY <2>1
<1>2. Byte(s, b) = IF Ends(seq) THEN Understood(seq, [s EXCEPT !.rest = <<>>])
                   ELSE [s EXCEPT !.rest = seq]
 BY DEF Byte
<1>3. TextOf(s).text = s.text /\ TextOf(s).rest = s.rest BY DEF TextOf
<1>4. Step(TextOf(s), b) = IF Ends(seq) THEN [text |-> Heard(s.text, seq), rest |-> <<>>]
                           ELSE [text |-> s.text, rest |-> seq]
 BY <1>3 DEF Step
<1>5. ASSUME NEW r \in Seq(Symbols)
      PROVE  /\ [s EXCEPT !.rest = r] \in State /\ [s EXCEPT !.rest = r].text = s.text
             /\ [s EXCEPT !.rest = r].rest = r
 <2>1. PICK t : t = [s EXCEPT !.rest = r] OBVIOUS
 <2>2. t = [text |-> s.text, local |-> s.local, remote |-> s.remote,
            refusals |-> s.refusals, out |-> s.out, rest |-> r]
  BY <2>1, StateIs
 <2>3. t \in State /\ t.text = s.text /\ t.rest = r BY <2>2, StateIs DEF State
 <2> QED BY <2>1, <2>3
<1> HIDE DEF seq
<1>6. CASE Ends(seq)
 <2> DEFINE t == [s EXCEPT !.rest = <<>>]
 <2>1. <<>> \in Seq(Symbols) OBVIOUS
 <2>2. t \in State /\ t.text = s.text /\ t.rest = <<>> BY <1>5, <2>1
 <2>3. Byte(s, b) = Understood(seq, t) BY <1>2, <1>6
 <2> HIDE DEF t
 <2>4. /\ Byte(s, b) \in State /\ Byte(s, b).rest = <<>>
       /\ Byte(s, b).text = Heard(s.text, seq)
  BY <1>1, <1>6, <2>2, <2>3, UnderstoodKeeps
 <2> QED BY <1>4, <1>6, <2>4 DEF TextOf
<1>7. CASE ~Ends(seq)
 <2>1. Byte(s, b) = [s EXCEPT !.rest = seq] BY <1>2, <1>7
 <2>2. Byte(s, b) \in State /\ Byte(s, b).rest = seq /\ Byte(s, b).text = s.text
  BY <1>1, <1>5, <2>1
 <2> QED BY <1>4, <1>7, <2>2 DEF TextOf
<1> QED BY <1>6, <1>7

(* The bytes of a packet are taken one by one. *)
TakenFrom(f, packet, s, m) ==
  f = [n \in 0..m |-> IF n = 0 THEN s ELSE Byte(f[n - 1], packet[n])]

LEMMA TakenSteps ==
  ASSUME NEW packet, NEW s, Len(packet) \in Nat
  PROVE  \E f : TakenFrom(f, packet, s, Len(packet)) /\ Taken(packet, s) = f[Len(packet)]
<1> DEFINE Missing == {m \in Nat : ~ \E f : TakenFrom(f, packet, s, m)}
<1>1. Missing = {}
 <2> SUFFICES ASSUME Missing # {}  PROVE FALSE
  OBVIOUS
 <2>1. PICK m \in Missing : \A k \in Missing : m <= k BY LeastNumber
 <2>2. CASE m = 0
  <3> DEFINE f == [n \in 0..0 |-> s]
  <3>1. f = [n \in 0..0 |-> IF n = 0 THEN s ELSE Byte(f[n - 1], packet[n])] OBVIOUS
  <3> QED BY <2>1, <2>2, <3>1 DEF TakenFrom
 <2>3. CASE m # 0
  <3>1. m - 1 \in Nat /\ m - 1 \notin Missing /\ m \in Nat BY <2>1, <2>3
  <3>2. PICK f : TakenFrom(f, packet, s, m - 1) BY <3>1
  <3> DEFINE g == [n \in 0..m |-> IF n = m THEN Byte(f[m - 1], packet[m]) ELSE f[n]]
  <3>3. \A n \in 0..(m - 1) : f[n] = IF n = 0 THEN s ELSE Byte(f[n - 1], packet[n])
   BY <3>1, <3>2 DEF TakenFrom
  <3>4. \A n \in 0..(m - 1) : g[n] = f[n] BY <3>1
  <3>5. \A n \in 0..m : g[n] = IF n = 0 THEN s ELSE Byte(g[n - 1], packet[n])
   <4> SUFFICES ASSUME NEW n \in 0..m
                PROVE  g[n] = IF n = 0 THEN s ELSE Byte(g[n - 1], packet[n])
    OBVIOUS
   <4>1. CASE n = m
    <5>1. m - 1 \in 0..(m - 1) /\ g[m] = Byte(f[m - 1], packet[m]) BY <3>1
    <5> QED BY <2>3, <3>4, <4>1, <5>1
   <4>2. CASE n # m /\ n = 0 BY <3>1, <3>3, <3>4, <4>2
   <4>3. CASE n # m /\ n # 0
    <5>1. n \in 0..(m - 1) /\ n - 1 \in 0..(m - 1) BY <3>1, <4>3
    <5> QED BY <3>3, <3>4, <4>3, <5>1
   <4> QED BY <4>1, <4>2, <4>3
  <3>6. g = [n \in 0..m |-> g[n]] OBVIOUS
  <3> HIDE DEF g
  <3>7. TakenFrom(g, packet, s, m) BY <3>5, <3>6 DEF TakenFrom
  <3> QED BY <2>1, <3>7
 <2> QED BY <2>2, <2>3
<1> DEFINE h == CHOOSE f : TakenFrom(f, packet, s, Len(packet))
<1>2. TakenFrom(h, packet, s, Len(packet)) BY <1>1
<1>3. Taken(packet, s) = h[Len(packet)] BY DEF Taken, TakenFrom
<1> QED BY <1>2, <1>3

(* What the text comes to, byte for byte, when w is taken. *)
Run(f, p, w) == f = [n \in 0..Len(w) |-> IF n = 0 THEN p ELSE Step(f[n - 1], w[n])]

LEMMA RunIs ==
  ASSUME NEW f, NEW p, NEW w, Run(f, p, w), Len(w) \in Nat
  PROVE  f[0] = p /\ \A n \in 1..Len(w) : f[n] = Step(f[n - 1], w[n])
<1>1. \A n \in 0..Len(w) : f[n] = IF n = 0 THEN p ELSE Step(f[n - 1], w[n]) BY DEF Run
<1>2. f[0] = p BY <1>1
<1>3. \A n \in 1..Len(w) : n \in 0..Len(w) /\ n # 0 OBVIOUS
<1> QED BY <1>1, <1>2, <1>3

(* A packet from the front of w. *)
LEMMA TakenRight ==
  ASSUME NEW s \in State, NEW w \in Seq(Symbols), NEW k \in 1..Len(w),
         NEW f, Run(f, TextOf(s), w)
  PROVE  /\ Taken(SubSeq(w, 1, k), s) \in State
         /\ TextOf(Taken(SubSeq(w, 1, k), s)) = f[k]
<1> DEFINE packet == SubSeq(w, 1, k)
<1>1. Len(packet) = k /\ k \in Nat \ {0} /\ \A i \in 1..k : packet[i] = w[i] /\ w[i] \in Symbols
 OBVIOUS
<1> HIDE DEF packet
<1>2. PICK g : TakenFrom(g, packet, s, k) /\ Taken(packet, s) = g[k] BY <1>1, TakenSteps
<1>3. \A n \in 0..k : g[n] = IF n = 0 THEN s ELSE Byte(g[n - 1], packet[n])
 BY <1>2 DEF TakenFrom
<1>4. f[0] = TextOf(s) /\ \A n \in 1..k : f[n] = Step(f[n - 1], w[n])
 <2>1. Len(w) \in Nat /\ \A n \in 1..k : n \in 1..Len(w) OBVIOUS
 <2> QED BY <2>1, RunIs
<1> DEFINE Fine(n) == g[n] \in State /\ TextOf(g[n]) = f[n]
           Wrong   == {n \in 0..k : ~ Fine(n)}
<1>5. Fine(0) BY <1>1, <1>3, <1>4
<1>6. ASSUME NEW n \in 1..k, Fine(n - 1)  PROVE Fine(n)
 <2>1. n \in 0..k /\ n # 0 /\ packet[n] = w[n] /\ w[n] \in Symbols BY <1>1
 <2>2. g[n] = Byte(g[n - 1], w[n]) BY <1>3, <2>1
 <2>3. g[n] \in State /\ TextOf(g[n]) = Step(TextOf(g[n - 1]), w[n])
  BY <1>6, <2>1, <2>2, ByteStep
 <2> QED BY <1>4, <1>6, <2>3
<1>7. Wrong = {}
 <2> SUFFICES ASSUME Wrong # {}  PROVE FALSE
  OBVIOUS
 <2>1. Wrong \in SUBSET Nat BY <1>1
 <2> HIDE DEF Fine
 <2>2. PICK n \in Wrong : \A j \in Wrong : n <= j BY <2>1, LeastNumber
 <2>3. n \in 0..k /\ ~ Fine(n) BY <2>2
 <2>4. n # 0 BY <1>5, <2>3
 <2>5. n \in 1..k /\ n - 1 \in 0..k /\ ~(n <= n - 1) BY <1>1, <2>3, <2>4
 <2>6. Fine(n - 1) BY <2>2, <2>5
 <2> QED BY <1>6, <2>3, <2>5, <2>6
<1>8. Fine(k)
 <2>1. k \in 0..k BY <1>1
 <2> HIDE DEF Fine
 <2> QED BY <1>7, <2>1
<1> QED BY <1>2, <1>8 DEF packet

(* The rest of w, after its first k bytes. *)
LEMMA RunRest ==
  ASSUME NEW f, NEW p, NEW w \in Seq(Symbols), NEW k \in 1..Len(w), Run(f, p, w)
  PROVE  LET rest == SubSeq(w, k + 1, Len(w))
             g    == [n \in 0..Len(rest) |-> f[k + n]] IN
           /\ rest \in Seq(Symbols) /\ k + Len(rest) = Len(w)
           /\ Run(g, f[k], rest)
<1> DEFINE rest == SubSeq(w, k + 1, Len(w))
           g    == [n \in 0..Len(rest) |-> f[k + n]]
<1>1. Len(w) \in Nat /\ k \in Nat \ {0} /\ k <= Len(w) OBVIOUS
<1>2. /\ rest \in Seq(Symbols) /\ Len(rest) = Len(w) - k
      /\ \A i \in 1..(Len(w) - k) : rest[i] = w[k + i]
 <2>1. k + 1 \in Int /\ Len(w) \in Int /\ \A i \in (k + 1)..Len(w) : w[i] \in Symbols OBVIOUS
 <2>2. /\ rest \in Seq(Symbols)
       /\ Len(rest) = IF k + 1 <= Len(w) THEN Len(w) - (k + 1) + 1 ELSE 0
       /\ \A i \in 1..(Len(w) - (k + 1) + 1) : rest[i] = w[(k + 1) + i - 1]
  BY <2>1, SubSeqProperties
 <2>3. Len(rest) = Len(w) - k
  <3> DEFINE n == Len(w)
  <3>1. n \in Nat /\ k \in Nat \ {0} /\ k <= n BY <1>1
  <3>2. Len(rest) = IF k + 1 <= n THEN n - (k + 1) + 1 ELSE 0 BY <2>2
  <3> HIDE DEF n, rest
  <3>3. Len(rest) = n - k BY <3>1, <3>2
  <3> QED BY <3>3 DEF n
 <2>4. \A i \in 1..(Len(w) - k) : rest[i] = w[k + i]
  <3> SUFFICES ASSUME NEW i \in 1..(Len(w) - k)  PROVE rest[i] = w[k + i]
   OBVIOUS
  <3>1. i \in 1..(Len(w) - (k + 1) + 1) /\ (k + 1) + i - 1 = k + i BY <1>1
  <3> QED BY <2>2, <3>1
 <2> QED BY <2>2, <2>3, <2>4
<1>3. f[0] = p /\ \A n \in 1..Len(w) : f[n] = Step(f[n - 1], w[n]) BY <1>1, RunIs
<1> HIDE DEF rest
<1>4. \A n \in 0..Len(rest) : g[n] = IF n = 0 THEN f[k] ELSE Step(g[n - 1], rest[n])
 <2> SUFFICES ASSUME NEW n \in 0..Len(rest)
              PROVE  g[n] = IF n = 0 THEN f[k] ELSE Step(g[n - 1], rest[n])
  OBVIOUS
 <2>1. CASE n = 0
  <3>1. k + 0 = k /\ g[0] = f[k + 0] BY <1>1, <1>2
  <3> QED BY <2>1, <3>1
 <2>2. CASE n # 0
  <3>1. k + n \in 1..Len(w) /\ (k + n) - 1 = k + (n - 1) /\ n - 1 \in 0..Len(rest)
        /\ n \in 1..(Len(w) - k)
   BY <1>1, <1>2, <2>2
  <3>2. f[k + n] = Step(f[(k + n) - 1], w[k + n]) BY <1>3, <3>1
  <3>3. g[n] = f[k + n] /\ g[n - 1] = f[k + (n - 1)] /\ rest[n] = w[k + n] BY <1>2, <3>1
  <3> QED BY <2>2, <3>1, <3>2, <3>3
 <2> QED BY <2>1, <2>2
<1>5. g = [n \in 0..Len(rest) |-> g[n]] OBVIOUS
<1>6. k + Len(rest) = Len(w) BY <1>1, <1>2
<1> HIDE DEF g
<1>7. Run(g, f[k], rest) BY <1>4, <1>5 DEF Run
<1> QED BY <1>2, <1>6, <1>7 DEF rest, g

(* More bytes behind w. *)
LEMMA RunMore ==
  ASSUME NEW f, NEW p, NEW w \in Seq(Symbols), Run(f, p, w),
         NEW h, NEW bytes \in Seq(Symbols), Run(h, f[Len(w)], bytes)
  PROVE  \E g : /\ Run(g, p, w \o bytes)
                /\ \A n \in 0..Len(w) : g[n] = f[n]
                /\ \A n \in 1..Len(bytes) : g[Len(w) + n] = h[n]
<1> DEFINE m == Len(w)
           k == Len(bytes)
           v == w \o bytes
           g == [n \in 0..(m + k) |-> IF n <= m THEN f[n] ELSE h[n - m]]
<1>1. m \in Nat /\ k \in Nat /\ v \in Seq(Symbols) /\ Len(v) = m + k
      /\ \A n \in 1..(m + k) : v[n] = IF n <= m THEN w[n] ELSE bytes[n - m]
 OBVIOUS
<1>2. f[0] = p /\ \A n \in 1..m : f[n] = Step(f[n - 1], w[n]) BY RunIs
<1>3. h[0] = f[m] /\ \A n \in 1..k : h[n] = Step(h[n - 1], bytes[n]) BY RunIs
<1> HIDE DEF m, k, v
<1>4. \A n \in 0..m : g[n] = f[n] BY <1>1
<1>5. \A n \in 0..k : g[m + n] = h[n]
 <2> SUFFICES ASSUME NEW n \in 0..k  PROVE g[m + n] = h[n]
  OBVIOUS
 <2>1. CASE n = 0
  <3>1. m + n = m /\ m \in 0..m BY <1>1, <2>1
  <3> QED BY <1>3, <1>4, <2>1, <3>1
 <2>2. CASE n # 0
  <3>1. m + n \in 0..(m + k) /\ ~(m + n <= m) /\ (m + n) - m = n BY <1>1, <2>2
  <3> QED BY <3>1
 <2> QED BY <2>1, <2>2
<1>6. \A n \in 0..(m + k) : g[n] = IF n = 0 THEN p ELSE Step(g[n - 1], v[n])
 <2> SUFFICES ASSUME NEW n \in 0..(m + k)
              PROVE  g[n] = IF n = 0 THEN p ELSE Step(g[n - 1], v[n])
  OBVIOUS
 <2> HIDE DEF g
 <2>1. CASE n = 0 BY <1>1, <1>2, <1>4, <2>1
 <2>2. CASE n # 0 /\ n <= m
  <3>1. n \in 0..m /\ n - 1 \in 0..m /\ n \in 1..m /\ n \in 1..(m + k) BY <1>1, <2>2
  <3>2. g[n] = f[n] /\ g[n - 1] = f[n - 1] /\ v[n] = w[n] BY <1>1, <1>4, <2>2, <3>1
  <3> QED BY <1>2, <2>2, <3>1, <3>2
 <2>3. CASE ~(n <= m)
  <3> DEFINE j == n - m
  <3>1. j \in 0..k /\ j - 1 \in 0..k /\ j \in 1..k /\ n \in 1..(m + k) /\ n # 0
        /\ m + j = n /\ m + (j - 1) = n - 1
   BY <1>1, <2>3
  <3>2. v[n] = bytes[j] BY <1>1, <2>3, <3>1
  <3> HIDE DEF j
  <3>3. g[m + j] = h[j] /\ g[m + (j - 1)] = h[j - 1] BY <1>5, <3>1
  <3> QED BY <1>3, <3>1, <3>2, <3>3
 <2> QED BY <2>1, <2>2, <2>3
<1>7. g = [n \in 0..(m + k) |-> g[n]] OBVIOUS
<1> HIDE DEF g
<1>8. Run(g, p, v) BY <1>1, <1>6, <1>7 DEF Run
<1>9. \A n \in 1..k : n \in 0..k BY <1>1
<1> QED BY <1>4, <1>5, <1>8, <1>9 DEF m, k, v

(* One message of the server, from its first byte to its last. *)
LEMMA MessageRun ==
  ASSUME NEW words, NEW bytes \in Seq(Symbols), bytes # <<>>, Ends(bytes),
         \A i \in 1..(Len(bytes) - 1) : ~Ends(SubSeq(bytes, 1, i))
  PROVE  \E h : /\ Run(h, [text |-> words, rest |-> <<>>], bytes)
                /\ \A i \in 1..(Len(bytes) - 1) : h[i].text = words
                /\ h[Len(bytes)] = [text |-> Heard(words, bytes), rest |-> <<>>]
<1> DEFINE k == Len(bytes)
           cut(i) == SubSeq(bytes, 1, i)
           h == [i \in 0..k |-> IF i < k THEN [text |-> words, rest |-> cut(i)]
                                ELSE [text |-> Heard(words, bytes), rest |-> <<>>]]
<1>1. k \in Nat \ {0} OBVIOUS
<1>2. cut(0) = <<>> /\ cut(k) = bytes OBVIOUS
<1>3. \A i \in 1..k : Append(cut(i - 1), bytes[i]) = cut(i) OBVIOUS
<1>4. \A i \in 1..(k - 1) : ~Ends(cut(i)) OBVIOUS
<1> HIDE DEF k, cut
<1>5. \A i \in 0..k : h[i] = IF i = 0 THEN [text |-> words, rest |-> <<>>] ELSE Step(h[i - 1], bytes[i])
 <2> SUFFICES ASSUME NEW i \in 0..k
              PROVE  h[i] = IF i = 0 THEN [text |-> words, rest |-> <<>>] ELSE Step(h[i - 1], bytes[i])
  OBVIOUS
 <2>1. CASE i = 0
  <3>1. h[0] = [text |-> words, rest |-> cut(0)] BY <1>1
  <3> QED BY <1>2, <2>1, <3>1
 <2>2. CASE i # 0
  <3>1. i \in 1..k /\ i - 1 \in 0..k /\ i - 1 < k BY <1>1, <2>2
  <3>2. h[i - 1] = [text |-> words, rest |-> cut(i - 1)] BY <3>1
  <3>3. h[i] = IF i < k THEN [text |-> words, rest |-> cut(i)]
               ELSE [text |-> Heard(words, bytes), rest |-> <<>>]
   BY <3>1
  <3> HIDE DEF h
  <3>4. h[i - 1].text = words /\ h[i - 1].rest = cut(i - 1) BY <3>2
  <3>5. Append(h[i - 1].rest, bytes[i]) = cut(i) BY <1>3, <3>1, <3>4
  <3>6. Step(h[i - 1], bytes[i]) = IF Ends(cut(i)) THEN [text |-> Heard(words, cut(i)), rest |-> <<>>]
                                   ELSE [text |-> words, rest |-> cut(i)]
   BY <3>4, <3>5 DEF Step
  <3>7. CASE i < k
   <4>1. i \in 1..(k - 1) BY <1>1, <3>1, <3>7
   <4>2. ~Ends(cut(i)) BY <1>4, <4>1
   <4> QED BY <2>2, <3>3, <3>6, <3>7, <4>2
  <3>8. CASE ~(i < k)
   <4>1. i = k BY <1>1, <3>1, <3>8
   <4>2. cut(i) = bytes BY <1>2, <4>1
   <4> QED BY <2>2, <3>3, <3>6, <3>8, <4>2
  <3> QED BY <3>7, <3>8
 <2> QED BY <2>1, <2>2
<1>6. h = [i \in 0..k |-> h[i]] OBVIOUS
<1>7. \A i \in 1..(k - 1) : h[i].text = words
 <2> SUFFICES ASSUME NEW i \in 1..(k - 1)  PROVE h[i].text = words
  OBVIOUS
 <2>1. i \in 0..k /\ i < k BY <1>1
 <2>2. h[i] = [text |-> words, rest |-> cut(i)] BY <2>1
 <2> HIDE DEF h
 <2> QED BY <2>2
<1>8. h[k] = [text |-> Heard(words, bytes), rest |-> <<>>]
 <2>1. k \in 0..k /\ ~(k < k) BY <1>1
 <2> QED BY <2>1
<1> HIDE DEF h
<1>9. Run(h, [text |-> words, rest |-> <<>>], bytes) BY <1>5, <1>6 DEF Run, k
<1> QED BY <1>7, <1>8, <1>9 DEF k

LEMMA PrefixIs ==
  ASSUME NEW s \in Seq(Symbols), NEW t \in Seq(Symbols), NEW c \in Symbols
  PROVE  /\ IsPrefix(s, s)
         /\ IsPrefix(s, t) => IsPrefix(s, Append(t, c))
<1>1. IsPrefix(s, s) BY DEF IsPrefix
<1>2. ASSUME IsPrefix(s, t)  PROVE IsPrefix(s, Append(t, c))
 <2>1. Len(s) <= Len(t) /\ SubSeq(s, 1, Len(s)) = SubSeq(t, 1, Len(s)) BY <1>2 DEF IsPrefix
 <2>2. Len(s) \in Nat /\ Len(t) \in Nat /\ Len(Append(t, c)) = Len(t) + 1
       /\ \A i \in 1..Len(t) : Append(t, c)[i] = t[i]
  OBVIOUS
 <2>3. SubSeq(Append(t, c), 1, Len(s)) = SubSeq(t, 1, Len(s))
  <3> DEFINE u == Append(t, c)
  <3> HIDE DEF u
  <3>1. SubSeq(u, 1, Len(s)) = [i \in 1..Len(s) |-> u[i]] OBVIOUS
  <3>2. SubSeq(t, 1, Len(s)) = [i \in 1..Len(s) |-> t[i]] OBVIOUS
  <3>3. \A i \in 1..Len(s) : u[i] = t[i] BY <2>1, <2>2 DEF u
  <3> QED BY <3>1, <3>2, <3>3 DEF u
 <2> QED BY <2>1, <2>2, <2>3 DEF IsPrefix
<1> QED BY <1>1, <1>2

(* Taken to its end, w completes the text to words, and nothing that is not   *)
(* in them comes up in between.                                               *)
Completes(f, p, w, words) ==
  /\ Run(f, p, w) /\ w \in Seq(Symbols) /\ words \in Seq(Symbols)
  /\ \A n \in 0..Len(w) : f[n].text \in Seq(Symbols) /\ IsPrefix(f[n].text, words)
  /\ f[Len(w)] = [text |-> words, rest |-> <<>>]

(* The server sends one message more. *)
LEMMA MessageCompletes ==
  ASSUME NEW f, NEW p, NEW w, NEW words, Completes(f, p, w, words),
         NEW bytes \in Seq(Symbols), bytes # <<>>, Ends(bytes),
         \A i \in 1..(Len(bytes) - 1) : ~Ends(SubSeq(bytes, 1, i))
  PROVE  \E g : Completes(g, p, w \o bytes, Heard(words, bytes))
<1> DEFINE new == Heard(words, bytes)
           m == Len(w)
           k == Len(bytes)
<1>1. w \in Seq(Symbols) /\ words \in Seq(Symbols) BY DEF Completes
<1>2. /\ new \in Seq(Symbols) /\ IsPrefix(new, new)
      /\ \A s \in Seq(Symbols) : IsPrefix(s, words) => IsPrefix(s, new)
 <2>1. \E c \in Symbols : new = words \/ new = Append(words, c)
  <3>1. bytes[1] \in Symbols /\ "IAC" \in Symbols BY DEF Symbols
  <3> QED BY <3>1 DEF Heard
 <2>2. PICK c \in Symbols : new = words \/ new = Append(words, c) BY <2>1
 <2> HIDE DEF new
 <2>3. new \in Seq(Symbols) BY SMTT(30), <1>1, <2>2
 <2> QED BY <1>1, <2>2, <2>3, PrefixIs
<1>3. PICK h : /\ Run(h, [text |-> words, rest |-> <<>>], bytes)
               /\ \A i \in 1..(k - 1) : h[i].text = words
               /\ h[k] = [text |-> new, rest |-> <<>>]
 BY MessageRun
<1>4. Run(f, p, w) /\ Run(h, f[m], bytes) BY <1>3 DEF Completes
<1>5. PICK g : /\ Run(g, p, w \o bytes)
               /\ \A n \in 0..m : g[n] = f[n]
               /\ \A n \in 1..k : g[m + n] = h[n]
 <2>1. w \in Seq(Symbols) /\ bytes \in Seq(Symbols) BY <1>1
 <2> HIDE DEF k
 <2> QED BY ONLY <1>4, <2>1, RunMore DEF m, k
<1>6. m \in Nat /\ k \in Nat \ {0} /\ w \o bytes \in Seq(Symbols) /\ Len(w \o bytes) = m + k
 BY <1>1
<1>7. \A n \in 0..m : f[n].text \in Seq(Symbols) /\ IsPrefix(f[n].text, words) BY DEF Completes
<1>8. IsPrefix(words, words) BY <1>1, PrefixIs DEF Symbols
<1> HIDE DEF m, k, new
<1>9. \A n \in 0..(m + k) : g[n].text \in Seq(Symbols) /\ IsPrefix(g[n].text, new)
 <2> SUFFICES ASSUME NEW n \in 0..(m + k)
              PROVE  g[n].text \in Seq(Symbols) /\ IsPrefix(g[n].text, new)
  OBVIOUS
 <2>1. CASE n <= m
  <3>1. n \in 0..m BY <1>6, <2>1
  <3>2. g[n].text \in Seq(Symbols) /\ IsPrefix(g[n].text, words) BY <1>5, <1>7, <3>1
  <3> QED BY <1>2, <3>2
 <2>2. CASE m < n /\ n < m + k
  <3>1. n - m \in 1..(k - 1) /\ n - m \in 1..k /\ m + (n - m) = n BY <1>6, <2>2
  <3>2. g[m + (n - m)] = h[n - m] /\ h[n - m].text = words BY <1>3, <1>5, <3>1
  <3>3. g[n].text = words BY <3>1, <3>2
  <3> QED BY <1>1, <1>2, <1>8, <3>3
 <2>3. CASE n = m + k
  <3>1. k \in 1..k BY <1>6
  <3>2. g[n] = [text |-> new, rest |-> <<>>] BY <1>3, <1>5, <2>3, <3>1
  <3>3. g[n].text = new BY <3>2
  <3> QED BY <1>2, <3>3
 <2> QED BY <1>6, <2>1, <2>2, <2>3
<1>10. g[m + k] = [text |-> new, rest |-> <<>>]
 <2>1. k \in 1..k BY <1>6
 <2> QED BY <1>3, <1>5, <2>1
<1> QED BY <1>2, <1>5, <1>6, <1>9, <1>10 DEF Completes, new

(* The messages of the server. *)
LEMMA ByteCompletes ==
  ASSUME NEW f, NEW p, NEW w, NEW words, Completes(f, p, w, words)
  PROVE  \E g : Completes(g, p, w \o <<"a">>, Append(words, "a"))
<1> DEFINE b == <<"a">>
<1>1. b \in Seq(Symbols) /\ b # <<>> /\ Len(b) = 1 /\ b[1] = "a" BY DEF Symbols
<1> HIDE DEF b
<1>2. Ends(b) /\ Heard(words, b) = Append(words, "a") BY <1>1 DEF Ends, Heard
<1>3. \A i \in 1..(Len(b) - 1) : ~Ends(SubSeq(b, 1, i)) BY <1>1
<1> QED BY <1>1, <1>2, <1>3, MessageCompletes DEF b

LEMMA MarkCompletes ==
  ASSUME NEW f, NEW p, NEW w, NEW words, Completes(f, p, w, words)
  PROVE  /\ \E g : Completes(g, p, w \o <<"IAC", "IAC">>, Append(words, "IAC"))
         /\ \E g : Completes(g, p, w \o <<"IAC", "NOP">>, words)
<1>1. ASSUME NEW x \in {"IAC", "NOP"}
      PROVE  \E g : Completes(g, p, w \o <<"IAC", x>>, IF x = "IAC" THEN Append(words, "IAC") ELSE words)
 <2> DEFINE b == <<"IAC", x>>
 <2>1. b \in Seq(Symbols) /\ b # <<>> /\ Len(b) = 2 /\ b[1] = "IAC" /\ b[2] = x BY DEF Symbols
 <2> HIDE DEF b
 <2>2. Ends(b) BY <2>1 DEF Ends
 <2>3. Heard(words, b) = IF x = "IAC" THEN Append(words, "IAC") ELSE words BY <2>1 DEF Heard
 <2>4. \A i \in 1..(Len(b) - 1) : ~Ends(SubSeq(b, 1, i))
  <3>1. Len(SubSeq(b, 1, 1)) = 1 /\ SubSeq(b, 1, 1)[1] = "IAC" BY <2>1
  <3>2. ~Ends(SubSeq(b, 1, 1)) BY <3>1 DEF Ends
  <3> QED BY <2>1, <3>2
 <2>5. \E g : Completes(g, p, w \o b, Heard(words, b)) BY <2>1, <2>2, <2>4, MessageCompletes
 <2> QED BY <2>3, <2>5 DEF b
<1>2. \E g : Completes(g, p, w \o <<"IAC", "IAC">>, Append(words, "IAC")) BY <1>1
<1>3. \E g : Completes(g, p, w \o <<"IAC", "NOP">>, words) BY <1>1
<1> QED BY <1>2, <1>3

LEMMA AskCompletes ==
  ASSUME NEW f, NEW p, NEW w, NEW words, Completes(f, p, w, words),
         NEW cmd \in Commands, NEW o \in Symbols
  PROVE  \E g : Completes(g, p, w \o <<"IAC", cmd, o>>, words)
<1> DEFINE b == <<"IAC", cmd, o>>
<1>1. "IAC" \in Symbols /\ cmd \in Symbols /\ cmd # "IAC" BY DEF Symbols, Commands
<1>2. b \in Seq(Symbols) /\ b # <<>> /\ Len(b) = 3 /\ b[1] = "IAC" /\ b[2] = cmd /\ b[3] = o
 BY <1>1
<1> HIDE DEF b
<1>3. Ends(b) BY <1>2 DEF Ends, Commands
<1>4. Heard(words, b) = words BY <1>1, <1>2 DEF Heard
<1>5. ~Ends(SubSeq(b, 1, 1))
 <2>1. Len(SubSeq(b, 1, 1)) = 1 /\ SubSeq(b, 1, 1)[1] = "IAC" BY <1>2
 <2> QED BY <2>1 DEF Ends
<1>6. ~Ends(SubSeq(b, 1, 2))
 <2>1. /\ Len(SubSeq(b, 1, 2)) = 2 /\ SubSeq(b, 1, 2)[1] = "IAC" /\ SubSeq(b, 1, 2)[2] = cmd
  BY <1>2
 <2> QED BY <2>1 DEF Ends, Commands
<1>7. \A i \in 1..(Len(b) - 1) : ~Ends(SubSeq(b, 1, i))
 <2>1. \A i \in 1..(Len(b) - 1) : i = 1 \/ i = 2 BY <1>2
 <2> QED BY <1>5, <1>6, <2>1
<1>8. \E g : Completes(g, p, w \o b, Heard(words, b)) BY <1>2, <1>3, <1>7, MessageCompletes
<1> QED BY <1>4, <1>8 DEF b

LEMMA TypeCompletes ==
  ASSUME NEW f, NEW p, NEW w, NEW words, Completes(f, p, w, words)
  PROVE  \E g : Completes(g, p, w \o <<"IAC", "SB", "TERMINAL", "SEND", "IAC", "SE">>, words)
<1> DEFINE b == <<"IAC", "SB", "TERMINAL", "SEND", "IAC", "SE">>
<1>1. /\ b \in Seq(Symbols) /\ b # <<>> /\ Len(b) = 6
      /\ b[1] = "IAC" /\ b[2] = "SB" /\ b[3] = "TERMINAL" /\ b[4] = "SEND" /\ b[5] = "IAC" /\ b[6] = "SE"
 BY DEF Symbols, Options
<1> HIDE DEF b
<1>2. Ends(b) BY <1>1 DEF Ends
<1>3. Heard(words, b) = words BY <1>1 DEF Heard
<1>4. \A i \in 1..(Len(b) - 1) : ~Ends(SubSeq(b, 1, i))
 <2> SUFFICES ASSUME NEW i \in 1..5  PROVE ~Ends(SubSeq(b, 1, i))
  BY <1>1
 <2> DEFINE s == SubSeq(b, 1, i)
 <2>1. Len(s) = i /\ \A j \in 1..i : s[j] = b[j] BY <1>1
 <2> HIDE DEF s
 <2>2. s[1] = "IAC" BY <1>1, <2>1
 <2>3. CASE i = 1 BY <2>1, <2>2, <2>3 DEF Ends, s
 <2>4. CASE i = 2
  <3>1. s[2] = "SB" BY <1>1, <2>1, <2>4
  <3> QED BY <2>1, <2>2, <2>4, <3>1 DEF Ends, s
 <2>5. CASE i = 3
  <3>1. s[2] = "SB" BY <1>1, <2>1, <2>5
  <3> QED BY <2>1, <2>2, <2>5, <3>1 DEF Ends, s
 <2>6. CASE i = 4
  <3>1. s[3] = "TERMINAL" BY <1>1, <2>1, <2>6
  <3> QED BY <2>1, <2>2, <2>6, <3>1 DEF Ends, s
 <2>7. CASE i = 5
  <3>1. s[4] = "SEND" BY <1>1, <2>1, <2>7
  <3> QED BY <2>1, <2>2, <2>7, <3>1 DEF Ends, s
 <2> QED BY <2>3, <2>4, <2>5, <2>6, <2>7
<1>5. \E g : Completes(g, p, w \o b, Heard(words, b)) BY <1>1, <1>2, <1>4, MessageCompletes
<1> QED BY <1>3, <1>5 DEF b

--------------------------------------------------
(* The bytes on their way, taken after what the client holds, make its text   *)
(* the whole of what the server printed.                                      *)

Client == [text |-> text, local |-> local, remote |-> remote, refusals |-> refusals,
           out |-> answers, rest |-> carry]

TelnetInv ==
  /\ kind \in {"silent", "acks", "insists"} /\ sends \in 0..MaxSends /\ Client \in State
  /\ \E f : Completes(f, TextOf(Client), wire, printed)

LEMMA ReceiveKeeps == ASSUME TelnetInv, Receive  PROVE TelnetInv'
<1>1. PICK f : Completes(f, TextOf(Client), wire, printed) BY DEF TelnetInv
<1>2. wire \in Seq(Symbols) /\ Client \in State /\ Run(f, TextOf(Client), wire)
 BY <1>1 DEF TelnetInv, Completes
<1>3. PICK k \in 1..(IF Len(wire) < MaxPacket THEN Len(wire) ELSE MaxPacket) :
        LET s == Parse(SubSeq(wire, 1, k), Client) IN
          /\ text' = s.text /\ local' = s.local /\ remote' = s.remote /\ refusals' = s.refusals
          /\ answers' = s.out /\ carry' = s.rest
          /\ wire' = SubSeq(wire, k + 1, Len(wire))
 BY DEF Receive, Client
<1>4. kind' = kind /\ sends' = sends /\ printed' = printed BY DEF Receive
<1>5. k \in 1..Len(wire) /\ Len(wire) \in Nat BY <1>2, TelnetConstants
<1> DEFINE s == Taken(SubSeq(wire, 1, k), Client)
<1>6. s \in State /\ TextOf(s) = f[k] BY <1>2, <1>5, TakenRight
<1>7. Client' = [text |-> s.text, local |-> s.local, remote |-> s.remote,
                 refusals |-> s.refusals, out |-> s.out, rest |-> s.rest]
 BY <1>3 DEF Client, Parse
<1> HIDE DEF s
<1>8. Client' = s BY <1>6, <1>7, StateIs
<1> DEFINE v == SubSeq(wire, k + 1, Len(wire))
           g == [n \in 0..Len(v) |-> f[k + n]]
<1>9. v \in Seq(Symbols) /\ k + Len(v) = Len(wire) /\ Run(g, f[k], v) BY <1>2, <1>5, RunRest
<1> HIDE DEF v
<1>10. Len(v) \in Nat BY <1>9
<1>11. \A n \in 0..Len(v) : g[n] = f[k + n] /\ k + n \in 0..Len(wire) BY <1>5, <1>9, <1>10
<1> HIDE DEF g
<1>12. \A n \in 0..Len(v) : g[n].text \in Seq(Symbols) /\ IsPrefix(g[n].text, printed)
 BY <1>1, <1>11 DEF Completes
<1>13. g[Len(v)] = [text |-> printed, rest |-> <<>>] /\ printed \in Seq(Symbols)
 <2>1. Len(v) \in 0..Len(v) BY <1>10
 <2> QED BY <1>1, <1>9, <1>11, <2>1 DEF Completes
<1>14. Completes(g, TextOf(s), v, printed) BY <1>6, <1>9, <1>12, <1>13 DEF Completes
<1>15. TextOf(Client)' = TextOf(s) /\ wire' = v BY <1>3, <1>8 DEF TextOf, v
<1>16. \E h : Completes(h, TextOf(Client)', wire', printed') BY <1>4, <1>14, <1>15
<1> QED BY <1>4, <1>6, <1>8, <1>16 DEF TelnetInv

LEMMA SpeaksKeeps == ASSUME TelnetInv, ServerSpeaks  PROVE TelnetInv'
<1>1. PICK f : Completes(f, TextOf(Client), wire, printed) BY DEF TelnetInv
<1>2. /\ sends < MaxSends /\ sends' = sends + 1 /\ kind' = kind /\ Client' = Client
      /\ TextOf(Client)' = TextOf(Client)
 BY DEF ServerSpeaks, Client, TextOf
<1>3. \E g : Completes(g, TextOf(Client), wire', printed')
 <2>1. CASE Prints
  <3>1. PICK c \in {"a", "IAC"} :
          printed' = Append(printed, c) /\ wire' = wire \o (IF c = "IAC" THEN <<"IAC", "IAC">> ELSE <<c>>)
   BY <2>1 DEF Prints, Sends
  <3> QED BY <1>1, <3>1, ByteCompletes, MarkCompletes
 <2>2. CASE Asks
  <3>1. printed' = printed BY <2>2 DEF Asks
  <3>2. \/ \E cmd \in Commands, o \in Options : wire' = wire \o <<"IAC", cmd, o>>
        \/ wire' = wire \o <<"IAC", "SB", "TERMINAL", "SEND", "IAC", "SE">>
        \/ wire' = wire \o <<"IAC", "NOP">>
   BY <2>2 DEF Asks, Sends, Commands
  <3>3. CASE \E cmd \in Commands, o \in Options : wire' = wire \o <<"IAC", cmd, o>>
   <4>1. PICK cmd \in Commands, o \in Options : wire' = wire \o <<"IAC", cmd, o>> BY <3>3
   <4>2. o \in Symbols BY DEF Symbols
   <4> QED BY <1>1, <3>1, <4>1, <4>2, AskCompletes
  <3> QED BY <1>1, <3>1, <3>2, <3>3, MarkCompletes, TypeCompletes
 <2> QED BY <2>1, <2>2 DEF ServerSpeaks
<1>4. sends' \in 0..MaxSends BY <1>2, TelnetConstants DEF TelnetInv
<1>5. \E g : Completes(g, TextOf(Client)', wire', printed') BY <1>2, <1>3
<1>6. Client' \in State /\ kind' \in {"silent", "acks", "insists"} BY <1>2 DEF TelnetInv
<1> QED BY <1>4, <1>5, <1>6 DEF TelnetInv

LEMMA HearsKeeps == ASSUME TelnetInv, ServerHears  PROVE TelnetInv'
<1>1. PICK f : Completes(f, TextOf(Client), wire, printed) BY DEF TelnetInv
<1>2. /\ answers # <<>> /\ answers' = Tail(answers) /\ kind' = kind /\ sends' = sends
      /\ printed' = printed /\ text' = text /\ carry' = carry
      /\ local' = local /\ remote' = remote /\ refusals' = refusals
 BY DEF ServerHears
<1>3. Client \in State /\ answers = Client.out /\ text = Client.text /\ local = Client.local
      /\ remote = Client.remote /\ refusals = Client.refusals /\ carry = Client.rest
 BY DEF TelnetInv, Client
<1>4. answers \in Seq(Sayings) BY <1>3, StateIs
<1>5. answers' \in Seq(Sayings) BY <1>2, <1>4
<1>6. Client' \in State
 <2>1. Client' = [text |-> text, local |-> local, remote |-> remote, refusals |-> refusals,
                  out |-> answers', rest |-> carry]
  BY <1>2 DEF Client
 <2>2. /\ text \in Seq(Symbols) /\ local \in Agreed /\ remote \in Agreed
       /\ refusals \in [ours : Counts, theirs : Counts] /\ carry \in Seq(Symbols)
  BY <1>3, StateIs
 <2> QED BY <1>5, <2>1, <2>2 DEF State
<1>7. TextOf(Client)' = TextOf(Client) BY <1>2 DEF TextOf, Client
<1>8. answers[1] \in Sayings BY <1>2, <1>4
<1>9. answers[1][1] \in Commands \cup {"SB"} /\ answers[1][2] \in Symbols BY <1>8 DEF Sayings
<1>10. \/ wire' = wire
       \/ \E r \in Commands : wire' = wire \o <<"IAC", r, answers[1][2]>>
 <2>1. CASE answers[1][1] = "SB" \/ Reaction(answers[1][1]) = {} BY <2>1 DEF ServerHears
 <2>2. CASE ~(answers[1][1] = "SB" \/ Reaction(answers[1][1]) = {})
  <3>1. PICK r \in Reaction(answers[1][1]) : wire' = wire \o <<"IAC", r, answers[1][2]>>
   BY <2>2 DEF ServerHears, Sends
  <3>2. answers[1][1] \in Commands /\ kind \in {"acks", "insists"}
   BY <1>9, <2>2 DEF TelnetInv, Reaction
  <3>3. r \in Commands BY <3>1, <3>2 DEF Reaction, Commands
  <3> QED BY <3>1, <3>3
 <2> QED BY <2>1, <2>2
<1>11. \E g : Completes(g, TextOf(Client), wire', printed)
 <2>1. CASE wire' = wire BY <1>1, <2>1
 <2>2. CASE \E r \in Commands : wire' = wire \o <<"IAC", r, answers[1][2]>>
  BY <1>1, <1>9, <2>2, AskCompletes
 <2> QED BY <1>10, <2>1, <2>2
<1>12. \E g : Completes(g, TextOf(Client)', wire', printed') BY <1>2, <1>7, <1>11
<1>13. kind' \in {"silent", "acks", "insists"} /\ sends' \in 0..MaxSends BY <1>2 DEF TelnetInv
<1> QED BY <1>6, <1>12, <1>13 DEF TelnetInv

LEMMA TelnetStep == ASSUME TelnetInv, [TelnetNext]_telnet  PROVE TelnetInv'
<1>1. CASE Receive BY <1>1, ReceiveKeeps
<1>2. CASE ServerSpeaks BY <1>2, SpeaksKeeps
<1>3. CASE ServerHears BY <1>3, HearsKeeps
<1>4. CASE UNCHANGED telnet
 <2>1. /\ kind' = kind /\ sends' = sends /\ wire' = wire /\ printed' = printed /\ Client' = Client
       /\ TextOf(Client)' = TextOf(Client)
  BY <1>4 DEF telnet, Client, TextOf
 <2> QED BY <2>1 DEF TelnetInv
<1> QED BY <1>1, <1>2, <1>3, <1>4 DEF TelnetNext

(* A connection with nothing on the wire. *)
LEMMA QuietWire ==
  ASSUME kind \in {"silent", "acks", "insists"}, sends = 0, wire = <<>>, printed = <<>>,
         text = <<>>, carry = <<>>, local \in Agreed, remote \in Agreed,
         refusals = [ours |-> NoSides, theirs |-> NoSides], answers \in Seq(Sayings)
  PROVE  TelnetInv
<1>1. <<>> \in Seq(Symbols) /\ IsPrefix(<<>>, <<>>)
 <2>1. <<>> \in Seq(Symbols) OBVIOUS
 <2> QED BY <2>1, PrefixIs DEF Symbols
<1>2. NoSides \in Counts BY DEF NoSides, Counts, MaxRefusals
<1>3. Client \in State BY <1>1, <1>2 DEF Client, State
<1> DEFINE p == [text |-> <<>>, rest |-> <<>>]
           none == <<>>
           f == [n \in 0..Len(none) |-> p]
<1>4. TextOf(Client) = p BY DEF TextOf, Client
<1>5. Len(none) = 0 /\ none \in Seq(Symbols) /\ IsPrefix(none, none) /\ p.text = none /\ p.rest = <<>>
 BY <1>1
<1> HIDE DEF p
<1>6. f[0] = p /\ \A n \in 0..Len(none) : n = 0 BY <1>5
<1>7. f = [n \in 0..Len(none) |-> IF n = 0 THEN p ELSE Step(f[n - 1], none[n])] BY <1>5
<1> HIDE DEF f
<1>8. p = [text |-> none, rest |-> <<>>] BY DEF p
<1> HIDE DEF none
<1>9. Completes(f, p, none, none) BY <1>5, <1>6, <1>7, <1>8 DEF Completes, Run
<1>10. 0 \in 0..MaxSends BY TelnetConstants
<1>11. \E g : Completes(g, TextOf(Client), wire, printed) BY <1>4, <1>9 DEF none
<1> QED BY <1>3, <1>10, <1>11 DEF TelnetInv

LEMMA TelnetStart == TelnetInit => TelnetInv
<1> SUFFICES ASSUME TelnetInit  PROVE TelnetInv
 OBVIOUS
<1>1. local \in Agreed /\ remote \in Agreed BY DEF TelnetInit, Agreed, Unset
<1>2. answers \in Seq(Sayings)
 <2>1. <<"WILL", "SGA">> \in Sayings BY DEF Sayings, Commands, Symbols, Options
 <2>2. answers = << <<"WILL", "SGA">> >> BY DEF TelnetInit
 <2> QED BY <2>1, <2>2
<1> QED BY <1>1, <1>2, QuietWire DEF TelnetInit

LEMMA TelnetIntact == TelnetInv => TextIntact
<1> SUFFICES ASSUME TelnetInv  PROVE TextIntact
 OBVIOUS
<1>1. PICK f : Completes(f, TextOf(Client), wire, printed) BY DEF TelnetInv
<1>2. wire \in Seq(Symbols) /\ Len(wire) \in Nat /\ Run(f, TextOf(Client), wire)
 BY <1>1 DEF Completes
<1>3. f[0] = TextOf(Client) /\ 0 \in 0..Len(wire) BY <1>2, RunIs
<1>4. f[0].text = text /\ f[0].rest = carry BY <1>3 DEF TextOf, Client
<1>5. IsPrefix(text, printed) BY <1>1, <1>3, <1>4 DEF Completes
<1>6. ASSUME wire = <<>>  PROVE text = printed /\ carry = <<>>
 <2>1. Len(wire) = 0 BY <1>6
 <2>2. f[0] = [text |-> printed, rest |-> <<>>] BY <1>1, <2>1 DEF Completes
 <2>3. f[0].text = printed /\ f[0].rest = <<>> BY <2>2
 <2> QED BY <1>4, <2>3
<1> QED BY <1>5, <1>6 DEF TextIntact

--------------------------------------------------
(* Torn-off windows.  How far a request has got does not matter: each is      *)
(* about a tab there is or was, and only what the user closed, or a restore   *)
(* found docked, is closed.                                                   *)

TabRec == [panes : SUBSET Panes, torn : BOOLEAN, origin : Tabs \cup {NoTab}, made : BOOLEAN]

(* What there is was made, and no tab comes from itself. *)
TabRight(r, t) == (~r.made => r.panes = {}) /\ (r.origin # NoTab => r.origin # t)

LayoutRight ==
  /\ layout \in [Tabs -> TabRec] /\ \A t \in Tabs : TabRight(layout[t], t)
  /\ OnePlace /\ NothingLost

(* A request is about a tab there is or was, and a tab is closed only for the *)
(* user or where a restore found it docked.                                   *)
CallRight(c) ==
  /\ c.do = "tearIn" => c.window \in Windows /\ window[c.window].tab \in Tabs
  /\ c.do \in {"restore", "abandon", "close"} => c.tab \in Tabs
  /\ c.do \in {"abandon", "close"} => c.meant
  /\ c.do = "open" => c.snapshot.tab \in Tabs

WindowRec(S) ==
  [life : {"none", "open", "closing", "closed"}, tab : Tabs \cup {NoTab}, snapshot : S, released : BOOLEAN]

(* A window there is or was has a tab, and keeps it. *)
WindowRight(r) == r.life \in {"open", "closing"} => r.tab \in Tabs

WindowsRight ==
  /\ \E S : window \in [Windows -> WindowRec(S)]
  /\ \A w \in Windows : WindowRight(window[w])

TabsStay == \A w \in Windows : window[w].tab \in Tabs => window'[w].tab \in Tabs

WindowsInv == LayoutRight /\ WindowsRight /\ \A c \in calls : CallRight(c)

LEMMA TabIs ==
  ASSUME LayoutRight, NEW t \in Tabs
  PROVE  /\ layout[t] \in TabRec
         /\ layout[t].panes \in SUBSET Panes /\ layout[t].torn \in BOOLEAN
         /\ layout[t].origin \in Tabs \cup {NoTab} /\ layout[t].made \in BOOLEAN
         /\ Unmade \in TabRec /\ Removed \in TabRec
BY DEF LayoutRight, TabRec, Unmade, Removed

LEMMA TabWith ==
  ASSUME NEW r \in TabRec, NEW ps
  PROVE  [r EXCEPT !.panes = ps]
           = [panes |-> ps, torn |-> r.torn, origin |-> r.origin, made |-> r.made]
BY DEF TabRec

LEMMA TabMarked ==
  ASSUME NEW r \in TabRec, NEW b \in BOOLEAN, NEW n, n = [r EXCEPT !.torn = b, !.origin = NoTab]
  PROVE  n \in TabRec /\ n.panes = r.panes /\ n.origin = NoTab /\ n.made = r.made
<1>1. n \in TabRec BY DEF TabRec
<1>2. n.panes = r.panes BY DEF TabRec
<1>3. n.origin = NoTab BY DEF TabRec
<1>4. n.made = r.made BY DEF TabRec
<1> QED BY <1>1, <1>2, <1>3, <1>4

LEMMA TearsInKeeps ==
  ASSUME LayoutRight, NEW t \in Tabs, NEW target \in Tabs, TearsIn(t, target), kept' = kept
  PROVE  LayoutRight'
<1>1. CASE target = t /\ Emits([layout EXCEPT ![t].torn = FALSE, ![t].origin = NoTab], <<t>>)
 <2>1. layout' = [layout EXCEPT ![t] = [layout[t] EXCEPT !.torn = FALSE, !.origin = NoTab]]
  BY <1>1 DEF Emits, LayoutRight
 <2>2. PICK n : n = [layout[t] EXCEPT !.torn = FALSE, !.origin = NoTab] OBVIOUS
 <2>3. n \in TabRec /\ n.panes = layout[t].panes /\ n.origin = NoTab /\ n.made = layout[t].made
  BY <2>2, TabIs, TabMarked
 <2>4. layout' = [layout EXCEPT ![t] = n] BY <2>1, <2>2
 <2>5. /\ layout' \in [Tabs -> TabRec]
       /\ \A u \in Tabs : layout'[u].panes = layout[u].panes
       /\ \A u \in Tabs : u # t => layout'[u] = layout[u]
       /\ layout'[t].origin = NoTab /\ layout'[t].made = layout[t].made
  BY <2>3, <2>4 DEF LayoutRight
 <2>6. \A u \in Tabs : TabRight(layout'[u], u) BY <2>5 DEF LayoutRight, TabRight
 <2> QED BY <2>5, <2>6 DEF LayoutRight, OnePlace, NothingLost
<1>2. CASE /\ target = layout[t].origin /\ target # NoTab
           /\ Emits([layout EXCEPT ![target].panes = @ \cup layout[t].panes, ![t] = Removed],
                    <<target, t>>)
 <2>1. target # t BY <1>2 DEF LayoutRight, TabRight
 <2>2. layout' = [layout EXCEPT ![target] = [layout[target] EXCEPT !.panes = @ \cup layout[t].panes],
                                ![t] = Removed]
  BY <1>2, <2>1 DEF Emits, LayoutRight
 <2>3. [layout[target] EXCEPT !.panes = @ \cup layout[t].panes]
         = [panes |-> layout[target].panes \cup layout[t].panes, torn |-> layout[target].torn,
            origin |-> layout[target].origin, made |-> layout[target].made]
  BY TabIs, TabWith
 <2>4. /\ layout' \in [Tabs -> TabRec]
       /\ \A u \in Tabs : u # t /\ u # target => layout'[u] = layout[u]
       /\ layout'[t] = Removed /\ Removed.panes = {} /\ Removed.made /\ Removed.origin = NoTab
       /\ layout'[target].panes = layout[target].panes \cup layout[t].panes
       /\ layout'[target].origin = layout[target].origin
       /\ layout'[target].made = layout[target].made
  BY <2>1, <2>2, <2>3, TabIs DEF LayoutRight, TabRec, Removed, Unmade
 <2>5. Exists(target) BY <1>1, <1>2, <2>1 DEF TearsIn
 <2>6. \A u \in Tabs : TabRight(layout'[u], u) BY <2>4, <2>5 DEF LayoutRight, TabRight, Exists
 <2> QED BY <2>1, <2>4, <2>6 DEF LayoutRight, OnePlace, NothingLost
<1> QED BY <1>1, <1>2 DEF TearsIn

LEMMA ClosesTabKeeps ==
  ASSUME LayoutRight, NEW t \in Tabs, ClosesTab(t), kept' = kept \ layout[t].panes
  PROVE  LayoutRight'
<1>1. CASE layout' = layout BY <1>1 DEF LayoutRight, OnePlace, NothingLost
<1>2. CASE layout' = [layout EXCEPT ![t] = Removed]
 <2>1. /\ layout' \in [Tabs -> TabRec]
       /\ \A u \in Tabs : u # t => layout'[u] = layout[u]
       /\ layout'[t] = Removed /\ Removed.panes = {} /\ Removed.made /\ Removed.origin = NoTab
  BY <1>2, TabIs DEF LayoutRight, Removed, Unmade
 <2> QED BY <2>1 DEF LayoutRight, TabRight, OnePlace, NothingLost
<1> QED BY <1>1, <1>2 DEF ClosesTab, Emits, Refuses

LEMMA TearsOffKeeps ==
  ASSUME LayoutRight, NEW t \in Tabs, NEW new \in Tabs, NEW panes, kept' = kept,
         panes \subseteq layout[t].panes, panes # layout[t].panes, ~layout[new].made,
         layout' = [layout EXCEPT
                      ![t].panes = @ \ panes,
                      ![new] = [panes |-> panes, torn |-> TRUE, origin |-> t, made |-> TRUE]]
  PROVE  LayoutRight'
<1>1. layout[t].made /\ t # new BY DEF LayoutRight, TabRight
<1>2. layout' = [layout EXCEPT
                   ![t] = [layout[t] EXCEPT !.panes = @ \ panes],
                   ![new] = [panes |-> panes, torn |-> TRUE, origin |-> t, made |-> TRUE]]
 BY <1>1 DEF LayoutRight
<1>3. [layout[t] EXCEPT !.panes = @ \ panes]
        = [panes |-> layout[t].panes \ panes, torn |-> layout[t].torn,
           origin |-> layout[t].origin, made |-> layout[t].made]
 BY TabIs, TabWith
<1>4. /\ layout' \in [Tabs -> TabRec]
      /\ \A u \in Tabs : u # t /\ u # new => layout'[u] = layout[u]
      /\ layout'[t].panes = layout[t].panes \ panes
      /\ layout'[t].origin = layout[t].origin /\ layout'[t].made
      /\ layout'[new].panes = panes /\ layout'[new].origin = t /\ layout'[new].made
 BY SMTT(30), <1>1, <1>2, <1>3, TabIs DEF LayoutRight, TabRec
<1>5. layout[new].panes = {} BY DEF LayoutRight, TabRight
<1>6. \A u \in Tabs : TabRight(layout'[u], u) BY <1>1, <1>4 DEF LayoutRight, TabRight
<1>7. \A p : (\E u \in Tabs : p \in layout[u].panes) => \E u \in Tabs : p \in layout'[u].panes
 BY <1>1, <1>4, <1>5
<1>8. NothingLost' BY <1>7 DEF LayoutRight, NothingLost
<1>9. OnePlace' BY <1>1, <1>4, <1>5 DEF LayoutRight, OnePlace
<1> QED BY <1>4, <1>6, <1>8, <1>9 DEF LayoutRight

LEMMA WholeTabKeeps ==
  ASSUME LayoutRight, NEW t \in Tabs, kept' = kept,
         layout' = [layout EXCEPT ![t].torn = TRUE, ![t].origin = NoTab]
  PROVE  LayoutRight'
<1>1. layout' = [layout EXCEPT ![t] = [layout[t] EXCEPT !.torn = TRUE, !.origin = NoTab]]
 BY DEF LayoutRight
<1>2. PICK n : n = [layout[t] EXCEPT !.torn = TRUE, !.origin = NoTab] OBVIOUS
<1>3. n \in TabRec /\ n.panes = layout[t].panes /\ n.origin = NoTab /\ n.made = layout[t].made
 BY <1>2, TabIs, TabMarked
<1>4. layout' = [layout EXCEPT ![t] = n] BY <1>1, <1>2
<1>5. /\ layout' \in [Tabs -> TabRec]
      /\ \A u \in Tabs : layout'[u].panes = layout[u].panes
      /\ \A u \in Tabs : u # t => layout'[u] = layout[u]
      /\ layout'[t].origin = NoTab /\ layout'[t].made = layout[t].made
 BY <1>3, <1>4 DEF LayoutRight
<1>6. \A u \in Tabs : TabRight(layout'[u], u) BY <1>5 DEF LayoutRight, TabRight
<1> QED BY <1>5, <1>6 DEF LayoutRight, OnePlace, NothingLost

LEMMA SplitKeeps ==
  ASSUME LayoutRight, NEW t \in Tabs, NEW p \in Panes, Split(t, p)
  PROVE  LayoutRight'
<1>1. layout[t].panes # {} /\ layout[t].made BY DEF Split, LayoutRight, TabRight
<1>2. layout' = [layout EXCEPT ![t] = [layout[t] EXCEPT !.panes = @ \cup {p}]]
 BY DEF Split, Emits, LayoutRight
<1>3. [layout[t] EXCEPT !.panes = @ \cup {p}]
        = [panes |-> layout[t].panes \cup {p}, torn |-> layout[t].torn,
           origin |-> layout[t].origin, made |-> layout[t].made]
 BY TabIs, TabWith
<1>4. /\ layout' \in [Tabs -> TabRec]
      /\ \A u \in Tabs : u # t => layout'[u] = layout[u]
      /\ layout'[t].panes = layout[t].panes \cup {p}
      /\ layout'[t].origin = layout[t].origin /\ layout'[t].made
 BY <1>1, <1>2, <1>3, TabIs DEF LayoutRight, TabRec
<1>5. \A u \in Tabs : TabRight(layout'[u], u) BY <1>4 DEF LayoutRight, TabRight
<1>6. kept' = kept /\ \A u \in Tabs : p \notin layout[u].panes BY DEF Split
<1> QED BY <1>4, <1>5, <1>6 DEF LayoutRight, OnePlace, NothingLost

LEMMA CloseLeafKeeps ==
  ASSUME LayoutRight, NEW t \in Tabs, NEW p \in Panes, CloseLeaf(t, p)
  PROVE  LayoutRight'
<1> DEFINE left == layout[t].panes \ {p}
<1>1. kept' = kept \ {p} /\ layout[t].made BY DEF CloseLeaf, LayoutRight, TabRight
<1>2. CASE left = {}
 <2>1. layout' = [layout EXCEPT ![t] = Removed] BY <1>2 DEF CloseLeaf, Emits, LayoutRight
 <2>2. /\ layout' \in [Tabs -> TabRec]
       /\ \A u \in Tabs : u # t => layout'[u] = layout[u]
       /\ layout'[t] = Removed /\ Removed.panes = {} /\ Removed.made /\ Removed.origin = NoTab
  BY <2>1, TabIs DEF LayoutRight, Removed, Unmade
 <2> QED BY <1>1, <1>2, <2>2 DEF LayoutRight, TabRight, OnePlace, NothingLost
<1>3. CASE left # {}
 <2>1. layout' = [layout EXCEPT ![t] = [layout[t] EXCEPT !.panes = left]]
  BY <1>3 DEF CloseLeaf, Emits, LayoutRight
 <2>2. [layout[t] EXCEPT !.panes = left]
         = [panes |-> left, torn |-> layout[t].torn,
            origin |-> layout[t].origin, made |-> layout[t].made]
  BY TabIs, TabWith
 <2>3. /\ layout' \in [Tabs -> TabRec]
       /\ \A u \in Tabs : u # t => layout'[u] = layout[u]
       /\ layout'[t].panes = left
       /\ layout'[t].origin = layout[t].origin /\ layout'[t].made
  BY <1>1, <2>1, <2>2, TabIs DEF LayoutRight, TabRec
 <2> QED BY <1>1, <2>3 DEF LayoutRight, TabRight, OnePlace, NothingLost
<1> QED BY <1>2, <1>3


LEMMA LayoutAtRest ==
  ASSUME LayoutRight, layout' = layout, kept' = kept
  PROVE  LayoutRight'
BY DEF LayoutRight, OnePlace, NothingLost

LEMMA WindowsAtRest ==
  ASSUME WindowsRight, window' = window
  PROVE  WindowsRight' /\ TabsStay
BY DEF WindowsRight, TabsStay

LEMMA CallsAtRest ==
  ASSUME \A c \in calls : CallRight(c), TabsStay, calls' \subseteq calls
  PROVE  \A c \in calls' : CallRight(c)'
BY DEF CallRight, TabsStay

LEMMA OneMore ==
  ASSUME \A c \in calls : CallRight(c), TabsStay, NEW new, calls' \subseteq calls \cup {new}, CallRight(new)'
  PROVE  \A c \in calls' : CallRight(c)'
BY DEF CallRight, TabsStay

LEMMA WindowChanges ==
  ASSUME WindowsRight, NEW S, window \in [Windows -> WindowRec(S)], NEW w, NEW r,
         window' = [window EXCEPT ![w] = r],
         w \in Windows => /\ r \in WindowRec(S) /\ WindowRight(r)
                          /\ window[w].tab \in Tabs => r.tab \in Tabs
  PROVE  WindowsRight' /\ TabsStay
<1>1. window' \in [Windows -> WindowRec(S)] OBVIOUS
<1>2. \A u \in Windows : u # w => window'[u] = window[u] OBVIOUS
<1>3. w \in Windows => window'[w] = r OBVIOUS
<1> QED BY <1>1, <1>2, <1>3 DEF WindowsRight, TabsStay

LetGo(r) == [r EXCEPT !.released = TRUE, !.life = IF @ = "open" THEN "closing" ELSE @]

LEMMA Released ==
  ASSUME NEW S, NEW r \in WindowRec(S), NEW n, n = LetGo(r)
  PROVE  n \in WindowRec(S) /\ n.tab = r.tab /\ (WindowRight(r) => WindowRight(n))
<1> DEFINE l == IF r.life = "open" THEN "closing" ELSE r.life
<1>1. l \in {"none", "open", "closing", "closed"} /\ (l \in {"open", "closing"} => r.life \in {"open", "closing"})
 BY DEF WindowRec
<1>2. n = [r EXCEPT !.released = TRUE, !.life = l] BY DEF LetGo
<1> HIDE DEF l
<1>3. n \in WindowRec(S) BY <1>1, <1>2 DEF WindowRec
<1>4. n.tab = r.tab BY <1>2 DEF WindowRec
<1>5. n.life = l BY <1>2 DEF WindowRec
<1> QED BY <1>1, <1>3, <1>4, <1>5 DEF WindowRight

LEMMA ReleaseKeeps ==
  ASSUME WindowsRight, NEW w, Release(w)
  PROVE  WindowsRight' /\ TabsStay
<1>1. PICK S : window \in [Windows -> WindowRec(S)] BY DEF WindowsRight
<1>2. PICK n : n = Releasing(w) OBVIOUS
<1>3. w \in Windows => /\ n \in WindowRec(S) /\ WindowRight(n)
                       /\ window[w].tab \in Tabs => n.tab \in Tabs
 <2> SUFFICES ASSUME w \in Windows
              PROVE  n \in WindowRec(S) /\ n.tab = window[w].tab /\ WindowRight(n)
  OBVIOUS
 <2>1. window[w] \in WindowRec(S) BY <1>1
 <2>2. n = LetGo(window[w]) BY <1>2 DEF Releasing, LetGo
 <2>3. WindowRight(window[w]) BY DEF WindowsRight
 <2> QED BY <2>1, <2>2, <2>3, Released
<1>4. window' = [window EXCEPT ![w] = n] BY <1>2 DEF Release
<1> QED BY <1>1, <1>3, <1>4, WindowChanges

LEMMA LifeKeeps ==
  ASSUME WindowsRight, NEW w, NEW l \in {"closing", "closed"},
         window' = [window EXCEPT ![w].life = l],
         l = "closing" => window[w].life = "open"
  PROVE  WindowsRight' /\ TabsStay
<1>1. PICK S : window \in [Windows -> WindowRec(S)] BY DEF WindowsRight
<1>2. PICK n : n = [window[w] EXCEPT !.life = l] OBVIOUS
<1>3. w \in Windows => /\ n \in WindowRec(S) /\ WindowRight(n)
                       /\ window[w].tab \in Tabs => n.tab \in Tabs
 <2> SUFFICES ASSUME w \in Windows
              PROVE  n \in WindowRec(S) /\ n.tab = window[w].tab /\ WindowRight(n)
  OBVIOUS
 <2>1. window[w] \in WindowRec(S) BY <1>1
 <2>2. n \in WindowRec(S) BY <1>2, <2>1 DEF WindowRec
 <2>3. n.tab = window[w].tab /\ n.life = l BY <1>2, <2>1 DEF WindowRec
 <2>4. WindowRight(window[w]) BY DEF WindowsRight
 <2> QED BY <2>2, <2>3, <2>4 DEF WindowRight
<1>4. window' = [window EXCEPT ![w] = n] BY <1>2
<1> QED BY <1>1, <1>3, <1>4, WindowChanges

LEMMA SnapshotKeeps ==
  ASSUME WindowsRight, NEW w, NEW p, window' = [window EXCEPT ![w].snapshot = p]
  PROVE  WindowsRight' /\ TabsStay
<1>1. PICK S : window \in [Windows -> WindowRec(S)] BY DEF WindowsRight
<1> DEFINE More == S \cup {p}
<1>2. window \in [Windows -> WindowRec(More)] BY <1>1 DEF WindowRec
<1>3. p \in More OBVIOUS
<1> HIDE DEF More
<1>4. PICK n : n = [window[w] EXCEPT !.snapshot = p] OBVIOUS
<1>5. w \in Windows => /\ n \in WindowRec(More) /\ WindowRight(n)
                       /\ window[w].tab \in Tabs => n.tab \in Tabs
 <2> SUFFICES ASSUME w \in Windows
              PROVE  n \in WindowRec(More) /\ n.tab = window[w].tab /\ WindowRight(n)
  OBVIOUS
 <2>1. window[w] \in WindowRec(More) BY <1>2
 <2>2. n \in WindowRec(More) BY <1>3, <1>4, <2>1 DEF WindowRec
 <2>3. n.tab = window[w].tab /\ n.life = window[w].life BY <1>4, <2>1 DEF WindowRec
 <2>4. WindowRight(window[w]) BY DEF WindowsRight
 <2> QED BY <2>2, <2>3, <2>4 DEF WindowRight
<1>6. window' = [window EXCEPT ![w] = n] BY <1>4
<1> QED BY <1>2, <1>5, <1>6, WindowChanges

LEMMA OpensKeeps ==
  ASSUME WindowsRight, NEW w, NEW t \in Tabs, NEW p,
         window' = [window EXCEPT ![w] = [life |-> "open", tab |-> t, snapshot |-> p, released |-> FALSE]]
  PROVE  WindowsRight' /\ TabsStay
<1>1. PICK S : window \in [Windows -> WindowRec(S)] BY DEF WindowsRight
<1> DEFINE More == S \cup {p}
           n    == [life |-> "open", tab |-> t, snapshot |-> p, released |-> FALSE]
<1>2. window \in [Windows -> WindowRec(More)] BY <1>1 DEF WindowRec
<1>3. n \in WindowRec(More) /\ WindowRight(n) /\ n.tab \in Tabs BY DEF WindowRec, WindowRight
<1> HIDE DEF More, n
<1>4. window' = [window EXCEPT ![w] = n] BY DEF n
<1> QED BY <1>2, <1>3, <1>4, WindowChanges

(* The steps. *)

LEMMA TearOffKeeps ==
  ASSUME WindowsInv, NEW call \in calls, TearOff(call)
  PROVE  WindowsInv'
<1>1. LayoutRight /\ WindowsRight /\ (\A c \in calls : CallRight(c)) /\ kept' = kept /\ window' = window
 BY DEF WindowsInv, TearOff
<1>2. WindowsRight' /\ TabsStay BY <1>1, WindowsAtRest
<1>3. CASE Refuses /\ Reply(call, {})
 BY <1>1, <1>2, <1>3, LayoutAtRest, CallsAtRest DEF Refuses, Reply, WindowsInv
<1>4. ASSUME NEW t \in Tabs, NEW l, NEW tabs, Torn(call, t, l, tabs), LayoutRight'
      PROVE  WindowsInv'
 <2>4. PICK new : new = [do |-> "open", snapshot |-> Payload(l, t, rev + Len(tabs))] OBVIOUS
 <2>1. calls' \subseteq calls \cup {new} BY <1>4, <2>4 DEF Torn, Reply
 <2>2. CallRight(new)' BY <2>4 DEF CallRight, Payload
 <2>3. \A c \in calls' : CallRight(c)' BY <1>1, <1>2, <2>1, <2>2, OneMore
 <2> QED BY <1>2, <1>4, <2>3 DEF WindowsInv
<1>5. ASSUME NEW t \in Tabs, layout[t].panes = call.panes,
             Torn(call, t, [layout EXCEPT ![t].torn = TRUE, ![t].origin = NoTab], <<t>>)
      PROVE  WindowsInv'
 <2>1. LayoutRight' BY <1>1, <1>5, WholeTabKeeps DEF Torn, Emits
 <2> QED BY <1>4, <1>5, <2>1
<1>6. ASSUME NEW t \in Tabs, NEW new \in Tabs,
             call.panes \subseteq layout[t].panes, call.panes # layout[t].panes, ~layout[new].made,
             Torn(call, new, [layout EXCEPT
                      ![t].panes = @ \ call.panes,
                      ![new] = [panes |-> call.panes, torn |-> TRUE, origin |-> t, made |-> TRUE]],
                   <<t, new>>)
      PROVE  WindowsInv'
 <2>1. LayoutRight' BY <1>1, <1>6, TearsOffKeeps DEF Torn, Emits
 <2> QED BY <1>4, <1>6, <2>1
<1> QED BY <1>3, <1>5, <1>6 DEF TearOff

LEMMA TearInKeeps ==
  ASSUME WindowsInv, NEW call \in calls, TearIn(call)
  PROVE  WindowsInv'
<1>1. LayoutRight /\ WindowsRight /\ (\A c \in calls : CallRight(c)) /\ kept' = kept /\ window' = window
 BY DEF WindowsInv, TearIn
<1>2. WindowsRight' /\ TabsStay BY <1>1, WindowsAtRest
<1>3. window[call.window].tab \in Tabs BY <1>1 DEF TearIn, CallRight
<1>4. CASE Refuses /\ Reply(call, {})
 BY <1>1, <1>2, <1>4, LayoutAtRest, CallsAtRest DEF Refuses, Reply, WindowsInv
<1>5. ASSUME NEW target \in Tabs, TearsIn(window[call.window].tab, target),
             Reply(call, {[do |-> "tornIn", window |-> call.window, tab |-> target]})
      PROVE  WindowsInv'
 <2> DEFINE new == [do |-> "tornIn", window |-> call.window, tab |-> target]
 <2>1. LayoutRight' BY <1>1, <1>3, <1>5, TearsInKeeps
 <2>2. calls' \subseteq calls \cup {new} BY <1>5 DEF Reply
 <2>3. CallRight(new)' BY DEF CallRight
 <2> HIDE DEF new
 <2> QED BY <1>1, <1>2, <2>1, <2>2, <2>3, OneMore DEF WindowsInv
<1> QED BY <1>4, <1>5 DEF TearIn

LEMMA RestoreKeeps ==
  ASSUME WindowsInv, NEW call \in calls, Restore(call)
  PROVE  WindowsInv'
<1>1. LayoutRight /\ WindowsRight /\ (\A c \in calls : CallRight(c)) /\ kept' = kept /\ window' = window
 BY DEF WindowsInv, Restore
<1>2. WindowsRight' /\ TabsStay BY <1>1, WindowsAtRest
<1>3. call.tab \in Tabs BY <1>1 DEF Restore, CallRight
<1>4. ASSUME ~layout[call.tab].torn, Refuses,
             Reply(call, {[do |-> "abandon", tab |-> call.tab, window |-> call.window,
                           meant |-> ~layout[call.tab].torn]})
      PROVE  WindowsInv'
 <2>6. PICK new : new = [do |-> "abandon", tab |-> call.tab, window |-> call.window,
                         meant |-> ~layout[call.tab].torn]
  OBVIOUS
 <2>1. calls' \subseteq calls \cup {new} BY <1>4, <2>6 DEF Reply
 <2>4. new.do = "abandon" /\ new.tab \in Tabs BY <1>3, <2>6
 <2>5. new.meant BY <1>4, <2>6, Zenon
 <2>3. LayoutRight' BY <1>1, <1>4, LayoutAtRest DEF Refuses
 <2>2. CallRight(new)' BY <2>4, <2>5 DEF CallRight
 <2> QED BY <1>1, <1>2, <2>1, <2>2, <2>3, OneMore DEF WindowsInv
<1>5. ASSUME NEW target \in Tabs, TearsIn(call.tab, target),
             Reply(call, {[do |-> "restored", window |-> call.window]})
      PROVE  WindowsInv'
 <2> DEFINE new == [do |-> "restored", window |-> call.window]
 <2>1. LayoutRight' BY <1>1, <1>3, <1>5, TearsInKeeps
 <2>2. calls' \subseteq calls \cup {new} BY <1>5 DEF Reply
 <2>3. CallRight(new)' BY DEF CallRight
 <2> HIDE DEF new
 <2> QED BY <1>1, <1>2, <2>1, <2>2, <2>3, OneMore DEF WindowsInv
<1> QED BY <1>4, <1>5 DEF Restore

LEMMA AbandonKeeps ==
  ASSUME WindowsInv, NEW call \in calls, Abandon(call)
  PROVE  WindowsInv'
<1>1. LayoutRight /\ WindowsRight /\ (\A c \in calls : CallRight(c)) /\ window' = window
 BY DEF WindowsInv, Abandon
<1>2. WindowsRight' /\ TabsStay BY <1>1, WindowsAtRest
<1>3. call.tab \in Tabs /\ call.meant BY <1>1 DEF Abandon, CallRight
<1>4. LayoutRight' BY <1>1, <1>3, ClosesTabKeeps DEF Abandon, GivenUp
<1> DEFINE new == [do |-> "restored", window |-> call.window]
<1>5. calls' \subseteq calls \cup {new} BY DEF Abandon, Reply
<1>6. CallRight(new)' BY DEF CallRight
<1> HIDE DEF new
<1> QED BY <1>1, <1>2, <1>4, <1>5, <1>6, OneMore DEF WindowsInv

LEMMA CloseTabKeeps ==
  ASSUME WindowsInv, NEW call \in calls, CloseTab(call)
  PROVE  WindowsInv'
<1>1. LayoutRight /\ WindowsRight /\ (\A c \in calls : CallRight(c)) /\ window' = window
 BY DEF WindowsInv, CloseTab
<1>2. WindowsRight' /\ TabsStay BY <1>1, WindowsAtRest
<1>3. call.tab \in Tabs /\ call.meant BY <1>1 DEF CloseTab, CallRight
<1>4. LayoutRight' BY <1>1, <1>3, ClosesTabKeeps DEF CloseTab, GivenUp
<1>5. calls' \subseteq calls BY DEF CloseTab, Reply
<1> QED BY <1>1, <1>2, <1>4, <1>5, CallsAtRest DEF WindowsInv

LEMMA TakeSnapshotKeeps ==
  ASSUME WindowsInv, NEW call \in calls, TakeSnapshot(call)
  PROVE  WindowsInv'
<1>1. /\ LayoutRight /\ WindowsRight /\ (\A c \in calls : CallRight(c))
      /\ layout' = layout /\ kept' = kept /\ window' = window
 BY DEF WindowsInv, TakeSnapshot
<1>2. LayoutRight' /\ WindowsRight' /\ TabsStay BY <1>1, LayoutAtRest, WindowsAtRest
<1>3. PICK new : new.do \in {"identified", "pulled"} /\ Reply(call, {new})
 <2>1. ASSUME NEW s, Reply(call, {[do |-> "identified", window |-> call.window, snapshot |-> s]})
       PROVE  \E new : new.do \in {"identified", "pulled"} /\ Reply(call, {new})
  <3>1. PICK new : new = [do |-> "identified", window |-> call.window, snapshot |-> s] OBVIOUS
  <3>2. new.do \in {"identified", "pulled"} BY <3>1
  <3> QED BY <2>1, <3>1, <3>2
 <2>2. ASSUME NEW s, Reply(call, {[do |-> "pulled", snapshot |-> s]})
       PROVE  \E new : new.do \in {"identified", "pulled"} /\ Reply(call, {new})
  <3>1. PICK new : new = [do |-> "pulled", snapshot |-> s] OBVIOUS
  <3>2. new.do \in {"identified", "pulled"} BY <3>1
  <3> QED BY <2>2, <3>1, <3>2
 <2> QED BY <2>1, <2>2 DEF TakeSnapshot
<1>4. calls' \subseteq calls \cup {new} /\ CallRight(new)' BY <1>3 DEF Reply, CallRight
<1> QED BY <1>1, <1>2, <1>4, OneMore DEF WindowsInv

(* What leaves the layout alone and asks Rust for nothing that changes it. *)
LEMMA Elsewhere ==
  ASSUME WindowsInv, layout' = layout, kept' = kept, WindowsRight', TabsStay,
         \E new : calls' \subseteq calls \cup {new} /\ CallRight(new)'
  PROVE  WindowsInv'
<1>1. LayoutRight' /\ \A c \in calls : CallRight(c) BY LayoutAtRest DEF WindowsInv
<1> QED BY <1>1, OneMore DEF WindowsInv

LEMMA BroadcastKeeps ==
  ASSUME WindowsInv, Broadcast
  PROVE  WindowsInv'
<1>1. layout' = layout /\ kept' = kept /\ calls' = calls /\ WindowsRight
 BY DEF Broadcast, WindowsInv
<1>2. WindowsRight' /\ TabsStay
 <2> DEFINE p == Head(syncs)
            w == tabWindow[p.tab]
 <2>1. \/ window' = window
       \/ Release(w)
       \/ window' = [window EXCEPT ![w].snapshot = p]
  BY DEF Broadcast, Follow
 <2> HIDE DEF p, w
 <2>2. PICK v, q : v = w /\ q = p OBVIOUS
 <2> QED BY <1>1, <2>1, <2>2, WindowsAtRest, ReleaseKeeps, SnapshotKeeps
<1>3. LayoutRight' BY <1>1, LayoutAtRest DEF WindowsInv
<1>4. \A c \in calls' : CallRight(c)' BY <1>1, <1>2, CallsAtRest DEF WindowsInv
<1> QED BY <1>2, <1>3, <1>4 DEF WindowsInv

LEMMA OpenWindowKeeps ==
  ASSUME WindowsInv, NEW call \in calls, OpenWindow(call)
  PROVE  WindowsInv'
<1>1. /\ layout' = layout /\ kept' = kept /\ WindowsRight
      /\ call.do = "open" /\ call.snapshot.tab \in Tabs
 BY DEF OpenWindow, WindowsInv, CallRight
<1>2. ASSUME NEW w \in Windows, Reply(call, {}),
             window' = [window EXCEPT ![w] =
               [life |-> "open", tab |-> call.snapshot.tab, snapshot |-> call.snapshot, released |-> FALSE]]
      PROVE  WindowsInv'
 <2>1. WindowsRight' /\ TabsStay BY <1>1, <1>2, OpensKeeps
 <2>2. \A c \in calls' : CallRight(c)' BY <1>2, <2>1, CallsAtRest DEF WindowsInv, Reply
 <2>3. LayoutRight' BY <1>1, LayoutAtRest DEF WindowsInv
 <2> QED BY <2>1, <2>2, <2>3 DEF WindowsInv
<1>3. ASSUME Reply(call, {[do |-> "restore", tab |-> call.snapshot.tab, window |-> NoWindow]}), window' = window
      PROVE  WindowsInv'
 <2>1. WindowsRight' /\ TabsStay BY <1>1, <1>3, WindowsAtRest
 <2>2. PICK new : new = [do |-> "restore", tab |-> call.snapshot.tab, window |-> NoWindow]
  OBVIOUS
 <2>3. calls' \subseteq calls \cup {new} /\ CallRight(new)'
  BY <1>1, <1>3, <2>2 DEF Reply, CallRight
 <2> QED BY <1>1, <2>1, <2>3, Elsewhere
<1> QED BY <1>2, <1>3 DEF OpenWindow

LEMMA IdentifyKeeps ==
  ASSUME WindowsInv, NEW call \in calls, Identify(call)
  PROVE  WindowsInv'
<1>1. layout' = layout /\ kept' = kept /\ WindowsRight BY DEF Identify, WindowsInv
<1>2. CASE Reply(call, {}) /\ (window' = window \/ Release(call.window))
 <2>1. WindowsRight' /\ TabsStay BY <1>1, <1>2, WindowsAtRest, ReleaseKeeps
 <2>2. \A c \in calls' : CallRight(c)' BY <1>2, <2>1, CallsAtRest DEF WindowsInv, Reply
 <2>3. LayoutRight' BY <1>1, LayoutAtRest DEF WindowsInv
 <2> QED BY <2>1, <2>2, <2>3 DEF WindowsInv
<1>3. ASSUME NEW newer, window' = [window EXCEPT ![call.window].snapshot = newer],
             Reply(call, {[do |-> "identity known", window |-> call.window, snapshot |-> newer]})
      PROVE  WindowsInv'
 <2>1. WindowsRight' /\ TabsStay BY <1>1, <1>3, SnapshotKeeps
 <2>2. PICK new : new = [do |-> "identity known", window |-> call.window, snapshot |-> newer]
  OBVIOUS
 <2>3. calls' \subseteq calls \cup {new} /\ CallRight(new)' BY <1>3, <2>2 DEF Reply, CallRight
 <2> QED BY <1>1, <2>1, <2>3, Elsewhere
<1> QED BY <1>2, <1>3 DEF Identify

LEMMA TornInKeeps ==
  ASSUME WindowsInv, NEW call \in calls, TornIn(call)
  PROVE  WindowsInv'
<1>1. layout' = layout /\ kept' = kept BY DEF TornIn
<1>2. WindowsRight' /\ TabsStay BY ReleaseKeeps DEF TornIn, WindowsInv
<1>3. PICK new : new = [do |-> "pull", tab |-> call.tab] OBVIOUS
<1>4. calls' \subseteq calls \cup {new} /\ CallRight(new)' BY <1>3 DEF TornIn, Reply, CallRight
<1> QED BY <1>1, <1>2, <1>4, Elsewhere

LEMMA RestoredKeeps ==
  ASSUME WindowsInv, NEW call \in calls, Restored(call)
  PROVE  WindowsInv'
<1>1. layout' = layout /\ kept' = kept /\ calls' \subseteq calls /\ WindowsRight
 BY DEF Restored, Reply, WindowsInv
<1>2. WindowsRight' /\ TabsStay
 <2>1. window' = window \/ window' = [window EXCEPT ![call.window].life = "closed"]
  BY DEF Restored
 <2>2. PICK l : l = "closed" OBVIOUS
 <2> QED BY <1>1, <2>1, <2>2, WindowsAtRest, LifeKeeps
<1>3. \A c \in calls' : CallRight(c)' BY <1>1, <1>2, CallsAtRest DEF WindowsInv
<1>4. LayoutRight' BY <1>1, LayoutAtRest DEF WindowsInv
<1> QED BY <1>2, <1>3, <1>4 DEF WindowsInv

LEMMA ClosedKeeps ==
  ASSUME WindowsInv, NEW w \in Windows, Closed(w)
  PROVE  WindowsInv'
<1>1. layout' = layout /\ kept' = kept /\ WindowsRight BY DEF Closed, WindowsInv
<1>2. WindowsRight' /\ TabsStay
 <2>1. PICK l : l = "closed" OBVIOUS
 <2> QED BY <1>1, <2>1, LifeKeeps DEF Closed
<1>3. window[w].tab \in Tabs BY <1>1 DEF Closed, WindowsRight, WindowRight
<1>4. CASE ClosesWithIt(w)
 <2>1. PICK new : new = [do |-> "close", tab |-> window[w].tab, meant |-> ~window[w].released]
  OBVIOUS
 <2>2. new.do = "close" /\ new.tab \in Tabs BY <1>3, <2>1
 <2>3. new.meant BY <1>4, <2>1, Zenon DEF ClosesWithIt
 <2>4. calls' \subseteq calls \cup {new} /\ CallRight(new)'
  BY <1>4, <2>1, <2>2, <2>3 DEF Closed, CallRight
 <2> QED BY <1>1, <1>2, <2>4, Elsewhere
<1>5. CASE ~ClosesWithIt(w)
 <2>1. \A c \in calls' : CallRight(c)' BY <1>2, <1>5, CallsAtRest DEF WindowsInv, Closed
 <2>2. LayoutRight' BY <1>1, LayoutAtRest DEF WindowsInv
 <2> QED BY <1>2, <2>1, <2>2 DEF WindowsInv
<1> QED BY <1>4, <1>5

(* What changes neither the layout nor what the main process knows of a       *)
(* window.                                                                    *)
LEMMA ShowingKeeps ==
  ASSUME WindowsInv, layout' = layout, kept' = kept, window' = window,
         \/ calls' \subseteq calls
         \/ \E new : calls' \subseteq calls \cup {new} /\ CallRight(new)'
  PROVE  WindowsInv'
<1>1. WindowsRight' /\ TabsStay BY WindowsAtRest DEF WindowsInv
<1>2. LayoutRight' BY LayoutAtRest DEF WindowsInv
<1>3. CASE calls' \subseteq calls BY <1>1, <1>2, <1>3, CallsAtRest DEF WindowsInv
<1> QED BY <1>1, <1>3, Elsewhere

LEMMA RenderersKeep ==
  ASSUME WindowsInv, Renderers
  PROVE  WindowsInv'
<1>1. layout' = layout /\ kept' = kept /\ window' = window
 BY DEF Renderers, ReadMail, Pulled, LearnIdentity, Load, ReadTornMail
<1>2. ASSUME NEW w \in Windows, Load(w)
      PROVE  \E new : calls' \subseteq calls \cup {new} /\ CallRight(new)'
 <2>1. PICK new : new = [do |-> "identity", window |-> w] OBVIOUS
 <2>2. calls' \subseteq calls \cup {new} /\ CallRight(new)' BY <1>2, <2>1 DEF Load, CallRight
 <2> QED BY <2>2
<1>3. \/ calls' \subseteq calls
      \/ \E w \in Windows : Load(w)
 BY DEF Renderers, ReadMail, Pulled, LearnIdentity, ReadTornMail, Reply
<1> QED BY <1>1, <1>2, <1>3, ShowingKeeps

LEMMA AsksKeep ==
  ASSUME WindowsInv, NEW w \in Windows, AskTearIn(w) \/ RendererGone(w)
  PROVE  WindowsInv'
<1>1. layout' = layout /\ kept' = kept /\ WindowsRight /\ window[w].life = "open"
 BY DEF AskTearIn, RendererGone, WindowsInv
<1>2. window[w].tab \in Tabs BY <1>1 DEF WindowsRight, WindowRight
<1>3. CASE AskTearIn(w)
 <2>1. window' = window BY <1>3 DEF AskTearIn
 <2>2. PICK new : new = [do |-> "tearIn", window |-> w] OBVIOUS
 <2>3. calls' \subseteq calls \cup {new} BY <1>3, <2>2 DEF AskTearIn, Ask
 <2>4. CallRight(new)' BY <1>2, <2>1, <2>2 DEF CallRight
 <2> QED BY <1>1, <2>1, <2>3, <2>4, ShowingKeeps
<1>4. CASE RendererGone(w)
 <2>1. WindowsRight' /\ TabsStay
  <3>1. PICK S : window \in [Windows -> WindowRec(S)] BY <1>1 DEF WindowsRight
  <3>2. PICK n : n = [window[w] EXCEPT !.released = TRUE] OBVIOUS
  <3>3. window[w] \in WindowRec(S) BY <3>1
  <3>4. n \in WindowRec(S) BY <3>2, <3>3 DEF WindowRec
  <3>5. n.tab = window[w].tab BY <3>2, <3>3 DEF WindowRec
  <3>6. WindowRight(n) BY <1>2, <3>5 DEF WindowRight
  <3>7. window' = [window EXCEPT ![w] = n] BY <1>4, <3>2 DEF RendererGone
  <3> QED BY <1>1, <1>2, <3>1, <3>4, <3>5, <3>6, <3>7, WindowChanges
 <2>2. PICK new : new = [do |-> "restore", tab |-> window[w].tab, window |-> w] OBVIOUS
 <2>3. calls' \subseteq calls \cup {new} BY <1>4, <2>2 DEF RendererGone, Ask
 <2>4. CallRight(new)' BY <1>2, <2>2 DEF CallRight
 <2> QED BY <1>1, <2>1, <2>3, <2>4, Elsewhere
<1> QED BY <1>3, <1>4

LEMMA WorldKeeps ==
  ASSUME WindowsInv, World
  PROVE  WindowsInv'
<1>1. ASSUME NEW t \in Tabs, AskTearOff(t)  PROVE WindowsInv'
 <2>1. PICK ps : calls' = calls \cup {[do |-> "tearOff", panes |-> ps]}
  BY <1>1 DEF AskTearOff, Ask
 <2>2. PICK new : new = [do |-> "tearOff", panes |-> ps] OBVIOUS
 <2>3. calls' \subseteq calls \cup {new} /\ CallRight(new)' BY <2>1, <2>2 DEF CallRight
 <2> QED BY <1>1, <2>3, ShowingKeeps DEF AskTearOff
<1>2. ASSUME NEW t \in Tabs, CloseMainTab(t)  PROVE WindowsInv'
 <2>1. PICK new : new = [do |-> "close", tab |-> t, meant |-> TRUE] OBVIOUS
 <2>2. calls' \subseteq calls \cup {new} /\ CallRight(new)'
  BY <1>2, <2>1 DEF CloseMainTab, Ask, CallRight
 <2> QED BY <1>2, <2>2, ShowingKeeps DEF CloseMainTab
<1>3. ASSUME NEW t \in Tabs, NEW p \in Panes, Split(t, p) \/ CloseLeaf(t, p)  PROVE WindowsInv'
 <2>1. LayoutRight' BY <1>3, SplitKeeps, CloseLeafKeeps DEF WindowsInv
 <2>2. WindowsRight' /\ TabsStay BY <1>3, WindowsAtRest DEF WindowsInv, Split, CloseLeaf
 <2>3. CASE Split(t, p)
  <3>1. PICK new : new = [do |-> "pull", tab |-> t] OBVIOUS
  <3>2. calls' \subseteq calls \cup {new} /\ CallRight(new)'
   BY <2>3, <3>1 DEF Split, Ask, CallRight
  <3>3. \A c \in calls' : CallRight(c)' BY <2>2, <3>2, OneMore DEF WindowsInv
  <3> QED BY <2>1, <2>2, <3>3 DEF WindowsInv
 <2>4. CASE CloseLeaf(t, p)
  <3>1. \A c \in calls' : CallRight(c)' BY <2>2, <2>4, CallsAtRest DEF CloseLeaf, WindowsInv
  <3> QED BY <2>1, <2>2, <3>1 DEF WindowsInv
 <2> QED BY <1>3, <2>3, <2>4
<1>4. ASSUME NEW w \in Windows, CloseWindow(w)  PROVE WindowsInv'
 <2>1. PICK l : l = "closing" OBVIOUS
 <2>2. WindowsRight' /\ TabsStay BY <1>4, <2>1, LifeKeeps DEF CloseWindow, WindowsInv
 <2>3. LayoutRight' BY <1>4, LayoutAtRest DEF CloseWindow, WindowsInv
 <2>4. \A c \in calls' : CallRight(c)' BY <1>4, <2>2, CallsAtRest DEF CloseWindow, WindowsInv
 <2> QED BY <2>2, <2>3, <2>4 DEF WindowsInv
<1>5. ASSUME NEW w \in Windows, Reload(w)  PROVE WindowsInv'
 BY <1>5, ShowingKeeps DEF Reload
<1> QED BY <1>1, <1>2, <1>3, <1>4, <1>5, AsksKeep DEF World

LEMMA WindowsStep ==
  ASSUME WindowsInv, [WindowsNext]_tornWindows
  PROVE  WindowsInv'
<1>1. CASE UNCHANGED tornWindows BY <1>1, ShowingKeeps DEF tornWindows
<1>2. CASE Rust
 BY <1>2, TearOffKeeps, TearInKeeps, RestoreKeeps, AbandonKeeps, CloseTabKeeps, TakeSnapshotKeeps DEF Rust
<1>3. CASE MainProcess
 BY <1>3, BroadcastKeeps, OpenWindowKeeps, IdentifyKeeps, TornInKeeps, RestoredKeeps, ClosedKeeps DEF MainProcess
<1> QED BY <1>1, <1>2, <1>3, RenderersKeep, WorldKeeps DEF WindowsNext

LEMMA WindowsStart == WindowsInit => WindowsInv
<1> SUFFICES ASSUME WindowsInit  PROVE WindowsInv
 OBVIOUS
<1>1. PICK torn \in BOOLEAN :
        /\ layout = [t \in Tabs |-> IF t = Home
              THEN [panes |-> HomePanes, torn |-> torn, origin |-> NoTab, made |-> TRUE] ELSE Unmade]
        /\ window = [w \in Windows |-> HomeWindow(w, torn)]
 BY DEF WindowsInit
<1>2. calls = {} /\ kept = Panes BY DEF WindowsInit
<1>3. layout \in [Tabs -> TabRec] BY <1>1, WindowsConstants DEF TabRec, Unmade
<1>4. /\ \A t \in Tabs : layout[t].panes = IF t = Home THEN HomePanes ELSE {}
      /\ \A t \in Tabs : TabRight(layout[t], t)
 BY <1>1, WindowsConstants DEF Unmade, TabRight
<1>5. OnePlace /\ NothingLost BY <1>4, WindowsConstants DEF OnePlace, NothingLost
<1>6. WindowsRight
 <2> DEFINE S == {HomePayload(TRUE), NoPayload}
 <2>1. \A w \in Windows : HomeWindow(w, torn) \in WindowRec(S) /\ WindowRight(HomeWindow(w, torn))
  BY WindowsConstants DEF HomeWindow, NoneYet, WindowRec, WindowRight
 <2> HIDE DEF S
 <2>2. window \in [Windows -> WindowRec(S)] /\ \A w \in Windows : WindowRight(window[w])
  BY <1>1, <2>1
 <2> QED BY <2>2 DEF WindowsRight
<1> QED BY <1>2, <1>3, <1>4, <1>5, <1>6 DEF WindowsInv, LayoutRight

LEMMA WindowsPlaces == WindowsInv => OnePlace /\ NothingLost
BY DEF WindowsInv, LayoutRight

--------------------------------------------------
(* What is on its way between Rust, the main process and the windows, and     *)
(* what they show: payloads of tabs and panes there are, none newer than r.   *)

PayloadRec(r) == [tab : Tabs \cup {NoTab}, rev : 0..r, panes : SUBSET Panes, torn : BOOLEAN]
MainRec(r)    == [rev : 0..r, panes : SUBSET Panes, torn : BOOLEAN]
ScreenRec(r)  == [own : Tabs \cup {NoTab}, rev : 0..r, panes : SUBSET Panes,
                  early : Seq(PayloadRec(r)), listening : BOOLEAN]

(* What a request or a reply carries, and which window and tab it is about. *)
Carries(c, r) ==
  /\ c.do \in {"open", "identified", "pulled", "identity known"} => c.snapshot \in PayloadRec(r)
  /\ c.do \in {"identity", "identified", "identity known"} => c.window \in Windows
  /\ c.do = "identity" => window[c.window].tab \in Tabs
  /\ c.do \in {"pull", "tornIn"} => c.tab \in Tabs

KnownTo(r) ==
  /\ main \in [Tabs -> MainRec(r)] /\ tornScreen \in [Windows -> ScreenRec(r)]
  /\ tabWindow \in [Tabs -> Windows \cup {NoWindow}]
  /\ \A w \in Windows : window[w].snapshot \in PayloadRec(r)

OnTheWay(r) ==
  /\ syncs \in Seq(PayloadRec(r))
  /\ mail \in [Windows \cup {"main"} -> Seq(PayloadRec(r))]
  /\ \A c \in calls : Carries(c, r)

PayloadsInv ==
  /\ WindowsInv /\ rev \in Nat /\ KnownTo(rev) /\ OnTheWay(rev)
  /\ kept \subseteq Panes /\ moves \in 0..MaxMoves

LEMMA MoreSeqs ==
  ASSUME NEW S, NEW T, S \subseteq T
  PROVE  Seq(S) \subseteq Seq(T)
<1> SUFFICES ASSUME NEW s \in Seq(S) PROVE s \in Seq(T)
 OBVIOUS
<1>1. s \in [1..Len(s) -> S] /\ Len(s) \in Nat OBVIOUS
<1>2. s \in [1..Len(s) -> T] BY <1>1
<1> QED BY <1>1, <1>2, SeqDef

LEMMA LaterPayloads ==
  ASSUME NEW r \in Nat, NEW q \in Nat, r <= q
  PROVE  /\ PayloadRec(r) \subseteq PayloadRec(q) /\ Seq(PayloadRec(r)) \subseteq Seq(PayloadRec(q))
         /\ MainRec(r) \subseteq MainRec(q) /\ ScreenRec(r) \subseteq ScreenRec(q)
<1>1. 0..r \subseteq 0..q OBVIOUS
<1>2. PayloadRec(r) \subseteq PayloadRec(q) /\ MainRec(r) \subseteq MainRec(q)
 BY <1>1 DEF PayloadRec, MainRec
<1>3. Seq(PayloadRec(r)) \subseteq Seq(PayloadRec(q)) BY <1>2, MoreSeqs
<1>4. ScreenRec(r) \subseteq ScreenRec(q) BY <1>1, <1>3 DEF ScreenRec
<1> QED BY <1>2, <1>3, <1>4

(* A newer payload leaves what there is as it was. *)
LEMMA LaterKnown ==
  ASSUME PayloadsInv, rev' \in Nat, rev <= rev', UNCHANGED <<main, tornScreen, tabWindow, window>>
  PROVE  KnownTo(rev)'
<1>1. KnownTo(rev) /\ rev \in Nat BY DEF PayloadsInv
<1>2. PayloadRec(rev) \subseteq PayloadRec(rev') /\ MainRec(rev) \subseteq MainRec(rev') /\ ScreenRec(rev) \subseteq ScreenRec(rev')
 BY <1>1, LaterPayloads
<1>3. main' \in [Tabs -> MainRec(rev')] BY <1>1, <1>2 DEF KnownTo
<1>4. tornScreen' \in [Windows -> ScreenRec(rev')] BY <1>1, <1>2 DEF KnownTo
<1> QED BY <1>1, <1>2, <1>3, <1>4 DEF KnownTo

LEMMA LaterMail ==
  ASSUME PayloadsInv, rev' \in Nat, rev <= rev', mail' = mail
  PROVE  mail' \in [Windows \cup {"main"} -> Seq(PayloadRec(rev'))]
<1>1. mail \in [Windows \cup {"main"} -> Seq(PayloadRec(rev))] /\ rev \in Nat
 BY DEF PayloadsInv, OnTheWay
<1>2. Seq(PayloadRec(rev)) \subseteq Seq(PayloadRec(rev')) BY <1>1, LaterPayloads
<1> QED BY <1>1, <1>2

(* The calls but one stay; those that wait stay right, windows keep their tabs. *)
LEMMA CallsCarry ==
  ASSUME PayloadsInv, rev' \in Nat, rev <= rev', TabsStay, calls' \subseteq calls
  PROVE  \A c \in calls' : Carries(c, rev)'
<1> SUFFICES ASSUME NEW c \in calls PROVE Carries(c, rev)'
 OBVIOUS
<1>1. Carries(c, rev) /\ rev \in Nat BY DEF PayloadsInv, OnTheWay
<1>2. PayloadRec(rev) \subseteq PayloadRec(rev') BY <1>1, LaterPayloads
<1> QED BY <1>1, <1>2 DEF Carries, TabsStay

LEMMA OneMoreCarries ==
  ASSUME PayloadsInv, rev' \in Nat, rev <= rev', TabsStay,
         NEW new, calls' \subseteq calls \cup {new}, Carries(new, rev)'
  PROVE  \A c \in calls' : Carries(c, rev)'
<1> SUFFICES ASSUME NEW c \in calls PROVE Carries(c, rev)'
 OBVIOUS
<1>1. Carries(c, rev) /\ rev \in Nat BY DEF PayloadsInv, OnTheWay
<1>2. PayloadRec(rev) \subseteq PayloadRec(rev') BY <1>1, LaterPayloads
<1> QED BY <1>1, <1>2 DEF Carries, TabsStay

--------------------------------------------------
(* Rust *)

Published == rev' \in Nat /\ rev <= rev' /\ syncs' \in Seq(PayloadRec(rev'))

LEMMA PayloadIs ==
  ASSUME NEW l \in [Tabs -> TabRec], NEW t \in Tabs, NEW r \in Nat, NEW q \in 0..r
  PROVE  Payload(l, t, q) \in PayloadRec(r) /\ Payload(l, t, q).tab = t
<1>1. l[t].panes \in SUBSET Panes /\ l[t].torn \in BOOLEAN BY DEF TabRec
<1> QED BY <1>1 DEF Payload, PayloadRec

LEMMA EmitsPublished ==
  ASSUME PayloadsInv, LayoutRight', NEW l, NEW tabs \in Seq(Tabs), Emits(l, tabs)
  PROVE  Published
<1>1. rev \in Nat /\ syncs \in Seq(PayloadRec(rev)) /\ Len(tabs) \in Nat /\ rev' = rev + Len(tabs)
 BY DEF PayloadsInv, OnTheWay, Emits
<1>2. l \in [Tabs -> TabRec] BY DEF Emits, LayoutRight
<1>3. rev' \in Nat /\ rev <= rev' BY <1>1
<1>4. syncs \in Seq(PayloadRec(rev')) BY <1>1, <1>3, LaterPayloads
<1> DEFINE more == [i \in 1..Len(tabs) |-> Payload(l, tabs[i], rev + i)]
<1>5. \A i \in 1..Len(tabs) : Payload(l, tabs[i], rev + i) \in PayloadRec(rev')
 BY <1>1, <1>2, <1>3, PayloadIs
<1>6. more \in [1..Len(tabs) -> PayloadRec(rev')] BY <1>5
<1>7. more \in Seq(PayloadRec(rev')) BY <1>1, <1>6, SeqDef
<1>8. syncs' = syncs \o more BY DEF Emits
<1> HIDE DEF more
<1>9. syncs \o more \in Seq(PayloadRec(rev')) BY <1>4, <1>7
<1> QED BY <1>3, <1>8, <1>9 DEF Published

LEMMA RefusesPublished ==
  ASSUME PayloadsInv, Refuses
  PROVE  Published
BY DEF PayloadsInv, OnTheWay, Refuses, Published

LEMMA RustCarries ==
  ASSUME PayloadsInv, WindowsInv', Published, UNCHANGED <<window, tabWindow, mail, main, tornScreen>>,
         kept' \subseteq kept, moves' \in 0..MaxMoves, NEW new,
         calls' \subseteq calls \cup {new}, new \in calls \/ Carries(new, rev)'
  PROVE  PayloadsInv'
<1>1. KnownTo(rev)' BY LaterKnown DEF Published
<1>2. TabsStay BY DEF TabsStay
<1>3. \A c \in calls' : Carries(c, rev)'
 <2>1. CASE new \in calls
  <3>1. calls' \subseteq calls BY <2>1
  <3> QED BY <1>2, <3>1, CallsCarry DEF Published
 <2>2. CASE Carries(new, rev)' BY <1>2, <2>2, OneMoreCarries DEF Published
 <2> QED BY <2>1, <2>2
<1>4. mail' \in [Windows \cup {"main"} -> Seq(PayloadRec(rev'))] BY LaterMail DEF Published
<1>5. kept' \subseteq Panes BY DEF PayloadsInv
<1> QED BY <1>1, <1>3, <1>4, <1>5 DEF PayloadsInv, OnTheWay, Published

LEMMA TearsInPublished ==
  ASSUME PayloadsInv, LayoutRight', NEW t \in Tabs, NEW target \in Tabs, TearsIn(t, target)
  PROVE  Published
<1>1. <<t>> \in Seq(Tabs) /\ <<target, t>> \in Seq(Tabs) OBVIOUS
<1>2. \E l, tabs : tabs \in {<<t>>, <<target, t>>} /\ Emits(l, tabs) BY DEF TearsIn
<1>3. PICK l, tabs : tabs \in Seq(Tabs) /\ Emits(l, tabs) BY <1>1, <1>2
<1> QED BY <1>3, EmitsPublished

LEMMA ClosesTabPublished ==
  ASSUME PayloadsInv, LayoutRight', NEW t \in Tabs, ClosesTab(t)
  PROVE  Published
<1>1. <<t>> \in Seq(Tabs) OBVIOUS
<1>2. Refuses \/ \E l : Emits(l, <<t>>) BY DEF ClosesTab
<1> QED BY <1>1, <1>2, EmitsPublished, RefusesPublished

LEMMA TornCarries ==
  ASSUME PayloadsInv, WindowsInv', UNCHANGED <<window, tabWindow, mail, main, tornScreen, moves, kept>>,
         NEW call \in calls, NEW t \in Tabs, NEW l, NEW tabs \in Seq(Tabs), Torn(call, t, l, tabs)
  PROVE  PayloadsInv'
<1>1. Published BY EmitsPublished DEF Torn, WindowsInv
<1>2. l \in [Tabs -> TabRec] /\ rev' = rev + Len(tabs)
 BY DEF Torn, Emits, WindowsInv, LayoutRight
<1>3. Payload(l, t, rev + Len(tabs)) \in PayloadRec(rev')
 <2>1. rev' \in 0..rev' /\ rev' \in Nat BY <1>1 DEF Published
 <2> QED BY <1>2, <2>1, PayloadIs
<1>4. PICK new : new = [do |-> "open", snapshot |-> Payload(l, t, rev + Len(tabs))] OBVIOUS
<1>5. calls' \subseteq calls \cup {new} /\ Carries(new, rev)'
 BY <1>3, <1>4 DEF Torn, Reply, Carries
<1>6. moves' \in 0..MaxMoves BY DEF PayloadsInv
<1> QED BY <1>1, <1>5, <1>6, RustCarries

LEMMA RustShows ==
  ASSUME PayloadsInv, WindowsInv', NEW call \in calls,
         TearOff(call) \/ TearIn(call) \/ Restore(call) \/ Abandon(call) \/ CloseTab(call) \/ TakeSnapshot(call)
  PROVE  PayloadsInv'
<1>1. /\ UNCHANGED <<window, tabWindow, mail, main, tornScreen, moves>> /\ kept' \subseteq kept
      /\ moves' \in 0..MaxMoves /\ LayoutRight' /\ CallRight(call) /\ Carries(call, rev) /\ rev \in Nat
 BY DEF TearOff, TearIn, Restore, Abandon, CloseTab, TakeSnapshot, GivenUp, PayloadsInv, WindowsInv, OnTheWay
<1>2. ASSUME Published, calls' \subseteq calls PROVE PayloadsInv'
 <2>1. calls' \subseteq calls \cup {call} BY <1>2
 <2> QED BY <1>1, <1>2, <2>1, RustCarries
<1>3. ASSUME Published, NEW new, Reply(call, {new}), Carries(new, rev)' PROVE PayloadsInv'
 <2>1. calls' \subseteq calls \cup {new} BY <1>3 DEF Reply
 <2> QED BY <1>1, <1>3, <2>1, RustCarries
<1>4. CASE TearOff(call)
 <2>1. CASE Refuses /\ Reply(call, {}) BY <1>2, <2>1, RefusesPublished DEF Reply
 <2>2. ASSUME NEW t \in Tabs, NEW l, NEW tabs \in Seq(Tabs), Torn(call, t, l, tabs) PROVE PayloadsInv'
  BY <1>4, <2>2, TornCarries DEF TearOff
 <2>3. CASE ~(Refuses /\ Reply(call, {}))
  <3>1. \/ \E t \in Tabs : \E l : Torn(call, t, l, <<t>>)
        \/ \E t, new \in Tabs : \E l : Torn(call, new, l, <<t, new>>)
   BY <1>4, <2>3, Zenon DEF TearOff
  <3>2. \A t, new \in Tabs : <<t>> \in Seq(Tabs) /\ <<t, new>> \in Seq(Tabs) OBVIOUS
  <3> QED BY <2>2, <3>1, <3>2
 <2> QED BY <2>1, <2>3
<1>5. CASE TearIn(call)
 <2>1. window[call.window].tab \in Tabs BY <1>1, <1>5 DEF TearIn, CallRight
 <2>2. CASE Refuses /\ Reply(call, {}) BY <1>2, <2>2, RefusesPublished DEF Reply
 <2>3. ASSUME NEW target \in Tabs, TearsIn(window[call.window].tab, target),
              Reply(call, {[do |-> "tornIn", window |-> call.window, tab |-> target]})
       PROVE  PayloadsInv'
  <3>1. Published BY <1>1, <2>1, <2>3, TearsInPublished
  <3>2. PICK new : new = [do |-> "tornIn", window |-> call.window, tab |-> target] OBVIOUS
  <3>3. Carries(new, rev)' BY <3>2 DEF Carries
  <3> QED BY <1>3, <2>3, <3>1, <3>2, <3>3
 <2> QED BY <1>5, <2>2, <2>3 DEF TearIn
<1>6. CASE Restore(call)
 <2>1. call.tab \in Tabs BY <1>1, <1>6 DEF Restore, CallRight
 <2>2. ASSUME NEW target \in Tabs, TearsIn(call.tab, target),
              Reply(call, {[do |-> "restored", window |-> call.window]})
       PROVE  PayloadsInv'
  <3>1. Published BY <1>1, <2>1, <2>2, TearsInPublished
  <3>2. PICK new : new = [do |-> "restored", window |-> call.window] OBVIOUS
  <3>3. Carries(new, rev)' BY <3>2 DEF Carries
  <3> QED BY <1>3, <2>2, <3>1, <3>2, <3>3
 <2>3. ASSUME Refuses, NEW m, Reply(call, {[do |-> "abandon", tab |-> call.tab, window |-> call.window, meant |-> m]})
       PROVE  PayloadsInv'
  <3>1. PICK new : new = [do |-> "abandon", tab |-> call.tab, window |-> call.window, meant |-> m]
   OBVIOUS
  <3>2. Carries(new, rev)' BY <3>1 DEF Carries
  <3> QED BY <1>3, <2>3, <3>1, <3>2, RefusesPublished
 <2> QED BY <1>6, <2>2, <2>3, Zenon DEF Restore
<1>7. CASE Abandon(call)
 <2>1. call.tab \in Tabs /\ ClosesTab(call.tab) BY <1>1, <1>7 DEF Abandon, CallRight
 <2>2. Published BY <1>1, <2>1, ClosesTabPublished
 <2>3. PICK new : new = [do |-> "restored", window |-> call.window] OBVIOUS
 <2>4. Reply(call, {new}) /\ Carries(new, rev)' BY <1>7, <2>3 DEF Abandon, Carries
 <2> QED BY <1>3, <2>2, <2>4
<1>8. CASE CloseTab(call)
 <2>1. call.tab \in Tabs /\ ClosesTab(call.tab) /\ calls' \subseteq calls
  BY <1>1, <1>8 DEF CloseTab, CallRight, Reply
 <2> QED BY <1>1, <1>2, <2>1, ClosesTabPublished
<1>9. CASE TakeSnapshot(call)
 <2>1. Published BY <1>9, RefusesPublished DEF TakeSnapshot, Refuses
 <2>2. ASSUME NEW t \in Tabs PROVE Snapshot(t) \in PayloadRec(rev)
  <3>1. rev \in 0..rev /\ layout \in [Tabs -> TabRec]
   BY <1>1 DEF PayloadsInv, WindowsInv, LayoutRight
  <3>2. NoPayload \in PayloadRec(rev) BY <1>1 DEF NoPayload, PayloadRec
  <3> QED BY <1>1, <3>1, <3>2, PayloadIs DEF Snapshot
 <2>3. rev' = rev /\ window' = window BY <1>9 DEF TakeSnapshot
 <2>4. CASE call.do = "identity"
  <3>1. PICK new : new = [do |-> "identified", window |-> call.window,
                          snapshot |-> Snapshot(window[call.window].tab)]
   OBVIOUS
  <3>2. Carries(new, rev)' BY <1>1, <2>2, <2>3, <2>4, <3>1 DEF Carries
  <3>3. Reply(call, {new}) BY <1>9, <2>4, <3>1 DEF TakeSnapshot
  <3> QED BY <1>3, <2>1, <3>2, <3>3
 <2>5. CASE call.do = "pull"
  <3>1. PICK new : new = [do |-> "pulled", snapshot |-> Snapshot(call.tab)] OBVIOUS
  <3>2. Carries(new, rev)' BY <1>1, <2>2, <2>3, <2>5, <3>1 DEF Carries
  <3>3. Reply(call, {new}) BY <1>9, <2>5, <3>1 DEF TakeSnapshot
  <3> QED BY <1>3, <2>1, <3>2, <3>3
 <2> QED BY <1>9, <2>4, <2>5 DEF TakeSnapshot
<1> QED BY <1>4, <1>5, <1>6, <1>7, <1>8, <1>9

--------------------------------------------------
(* The main process, the windows and the user *)

LEMMA SnapshotsAre ==
  ASSUME PayloadsInv
  PROVE  window \in [Windows -> WindowRec(PayloadRec(rev))]
<1>1. PICK S : window \in [Windows -> WindowRec(S)] BY DEF PayloadsInv, WindowsInv, WindowsRight
<1>2. ASSUME NEW w \in Windows PROVE window[w] \in WindowRec(PayloadRec(rev))
 <2>1. window[w] \in WindowRec(S) /\ window[w].snapshot \in PayloadRec(rev)
  BY <1>1 DEF PayloadsInv, KnownTo
 <2> QED BY <2>1 DEF WindowRec
<1> QED BY <1>1, <1>2

LEMMA SnapshotsKept ==
  ASSUME PayloadsInv, NEW w, NEW r, window' = [window EXCEPT ![w] = r],
         w \in Windows => r \in WindowRec(PayloadRec(rev))
  PROVE  \A u \in Windows : window'[u].snapshot \in PayloadRec(rev)
<1>1. window' \in [Windows -> WindowRec(PayloadRec(rev))] BY SnapshotsAre
<1> QED BY <1>1 DEF WindowRec

LEMMA ReleaseKnown ==
  ASSUME PayloadsInv, NEW w, Release(w)
  PROVE  /\ TabsStay /\ tabWindow' \in [Tabs -> Windows \cup {NoWindow}]
         /\ \A u \in Windows : window'[u].snapshot \in PayloadRec(rev)
<1>1. TabsStay BY ReleaseKeeps DEF PayloadsInv, WindowsInv
<1>2. tabWindow' \in [Tabs -> Windows \cup {NoWindow}]
 BY DEF PayloadsInv, KnownTo, Release, NoLonger
<1>3. PICK n : n = Releasing(w) OBVIOUS
<1>4. w \in Windows => n \in WindowRec(PayloadRec(rev))
 <2> SUFFICES ASSUME w \in Windows PROVE n \in WindowRec(PayloadRec(rev))
  OBVIOUS
 <2>1. window[w] \in WindowRec(PayloadRec(rev)) BY SnapshotsAre
 <2>2. n = LetGo(window[w]) BY <1>3 DEF Releasing, LetGo
 <2> QED BY <2>1, <2>2, Released
<1>5. window' = [window EXCEPT ![w] = n] BY <1>3 DEF Release
<1> QED BY <1>1, <1>2, <1>4, <1>5, SnapshotsKept

LEMMA SnapshotKnown ==
  ASSUME PayloadsInv, NEW w, NEW p \in PayloadRec(rev), window' = [window EXCEPT ![w].snapshot = p]
  PROVE  TabsStay /\ \A u \in Windows : window'[u].snapshot \in PayloadRec(rev)
<1>1. TabsStay BY SnapshotKeeps DEF PayloadsInv, WindowsInv
<1>2. PICK n : n = [window[w] EXCEPT !.snapshot = p] OBVIOUS
<1>3. w \in Windows => n \in WindowRec(PayloadRec(rev)) BY <1>2, SnapshotsAre DEF WindowRec
<1>4. window' = [window EXCEPT ![w] = n] BY <1>2
<1> QED BY <1>1, <1>3, <1>4, SnapshotsKept

LEMMA LifeKnown ==
  ASSUME PayloadsInv, NEW w, NEW l \in {"closing", "closed"}, window' = [window EXCEPT ![w].life = l],
         l = "closing" => window[w].life = "open"
  PROVE  TabsStay /\ \A u \in Windows : window'[u].snapshot \in PayloadRec(rev)
<1>1. TabsStay BY LifeKeeps DEF PayloadsInv, WindowsInv
<1>2. PICK n : n = [window[w] EXCEPT !.life = l] OBVIOUS
<1>3. w \in Windows => n \in WindowRec(PayloadRec(rev)) BY <1>2, SnapshotsAre DEF WindowRec
<1>4. window' = [window EXCEPT ![w] = n] BY <1>2
<1> QED BY <1>1, <1>3, <1>4, SnapshotsKept

(* A step that emits nothing. *)
LEMMA QuietCarries ==
  ASSUME PayloadsInv, WindowsInv', rev' = rev, kept' = kept, moves' \in 0..MaxMoves, TabsStay,
         main' \in [Tabs -> MainRec(rev)], tornScreen' \in [Windows -> ScreenRec(rev)],
         tabWindow' \in [Tabs -> Windows \cup {NoWindow}],
         \A w \in Windows : window'[w].snapshot \in PayloadRec(rev),
         syncs' \in Seq(PayloadRec(rev)), mail' \in [Windows \cup {"main"} -> Seq(PayloadRec(rev))],
         NEW new, calls' \subseteq calls \cup {new}, new \in calls \/ Carries(new, rev)'
  PROVE  PayloadsInv'
<1>1. rev' \in Nat /\ rev <= rev' /\ kept' \subseteq Panes BY DEF PayloadsInv
<1>2. \A c \in calls' : Carries(c, rev)'
 <2>1. CASE new \in calls
  <3>1. calls' \subseteq calls BY <2>1
  <3> QED BY <1>1, <3>1, CallsCarry
 <2>2. CASE Carries(new, rev)' BY <1>1, <2>2, OneMoreCarries
 <2> QED BY <2>1, <2>2
<1>3. KnownTo(rev)' BY DEF KnownTo
<1> QED BY <1>1, <1>2, <1>3 DEF PayloadsInv, OnTheWay

LEMMA PayloadsAre ==
  ASSUME PayloadsInv
  PROVE  /\ main \in [Tabs -> MainRec(rev)] /\ tornScreen \in [Windows -> ScreenRec(rev)]
         /\ tabWindow \in [Tabs -> Windows \cup {NoWindow}]
         /\ \A w \in Windows : window[w].snapshot \in PayloadRec(rev)
         /\ syncs \in Seq(PayloadRec(rev)) /\ mail \in [Windows \cup {"main"} -> Seq(PayloadRec(rev))]
         /\ rev \in Nat /\ moves \in 0..MaxMoves
         /\ \A c \in calls : Carries(c, rev) /\ CallRight(c)
BY DEF PayloadsInv, KnownTo, OnTheWay, WindowsInv

LEMMA NextOfSeq ==
  ASSUME NEW S, NEW s \in Seq(S), s # <<>>
  PROVE  Head(s) \in S /\ Tail(s) \in Seq(S)
OBVIOUS

LEMMA BroadcastShows ==
  ASSUME PayloadsInv, WindowsInv', Broadcast
  PROVE  PayloadsInv'
<1> DEFINE p == Head(syncs)
<1>1. p \in PayloadRec(rev) /\ Tail(syncs) \in Seq(PayloadRec(rev)) /\ syncs' = Tail(syncs) /\ Follow(p)
 BY PayloadsAre, NextOfSeq DEF Broadcast
<1>2. mail' = [w \in DOMAIN mail |-> IF Listening(w) THEN Append(mail[w], p) ELSE mail[w]]
 BY DEF Broadcast
<1>3. /\ rev' = rev /\ calls' = calls /\ main' = main /\ tornScreen' = tornScreen /\ moves' = moves
      /\ kept' = kept
 BY DEF Broadcast
<1> HIDE DEF p
<1>4. mail' \in [Windows \cup {"main"} -> Seq(PayloadRec(rev))]
 <2>1. mail \in [Windows \cup {"main"} -> Seq(PayloadRec(rev))] BY PayloadsAre
 <2>2. ASSUME NEW w \in Windows \cup {"main"}
       PROVE  (IF Listening(w) THEN Append(mail[w], p) ELSE mail[w]) \in Seq(PayloadRec(rev))
  <3>1. mail[w] \in Seq(PayloadRec(rev)) BY <2>1
  <3>2. Append(mail[w], p) \in Seq(PayloadRec(rev)) BY <1>1, <3>1
  <3> QED BY <3>1, <3>2
 <2> QED BY <1>2, <2>1, <2>2
<1>5. /\ TabsStay /\ tabWindow' \in [Tabs -> Windows \cup {NoWindow}]
      /\ \A w \in Windows : window'[w].snapshot \in PayloadRec(rev)
 <2>1. PICK w : w = tabWindow[p.tab] OBVIOUS
 <2>2. CASE UNCHANGED <<window, tabWindow>> BY <2>2, PayloadsAre DEF TabsStay
 <2>3. CASE Release(w) BY <2>3, ReleaseKnown
 <2>4. CASE window' = [window EXCEPT ![w].snapshot = p] /\ UNCHANGED tabWindow
  BY <1>1, <2>4, SnapshotKnown, PayloadsAre
 <2> QED BY <1>1, <2>1, <2>2, <2>3, <2>4 DEF Follow
<1>6. PICK none : none = [do |-> "none"] OBVIOUS
<1>7. Carries(none, rev)' /\ calls' \subseteq calls \cup {none} BY <1>3, <1>6 DEF Carries
<1> QED BY <1>1, <1>3, <1>4, <1>5, <1>7, PayloadsAre, QuietCarries

LEMMA OpenShows ==
  ASSUME PayloadsInv, WindowsInv', NEW call \in calls, OpenWindow(call)
  PROVE  PayloadsInv'
<1>1. /\ rev' = rev /\ syncs' = syncs /\ mail' = mail /\ main' = main /\ moves' = moves /\ kept' = kept
      /\ tornScreen' = tornScreen /\ call.do = "open"
 BY DEF OpenWindow
<1>2. call.snapshot \in PayloadRec(rev) /\ call.snapshot.tab \in Tabs
 BY <1>1, PayloadsAre DEF Carries, CallRight
<1>3. ASSUME NEW w \in Windows, Reply(call, {}), tabWindow' = [tabWindow EXCEPT ![call.snapshot.tab] = w],
             window' = [window EXCEPT ![w] =
               [life |-> "open", tab |-> call.snapshot.tab, snapshot |-> call.snapshot, released |-> FALSE]]
      PROVE  PayloadsInv'
 <2>1. TabsStay BY <1>2, <1>3, OpensKeeps DEF PayloadsInv, WindowsInv
 <2>2. tabWindow' \in [Tabs -> Windows \cup {NoWindow}] BY <1>3, PayloadsAre
 <2>3. PICK r : r = [life |-> "open", tab |-> call.snapshot.tab, snapshot |-> call.snapshot, released |-> FALSE]
  OBVIOUS
 <2>4. r \in WindowRec(PayloadRec(rev)) BY <1>2, <2>3 DEF WindowRec
 <2>5. \A u \in Windows : window'[u].snapshot \in PayloadRec(rev)
  BY <1>3, <2>3, <2>4, SnapshotsKept
 <2>6. calls' \subseteq calls \cup {call} BY <1>3 DEF Reply
 <2> QED BY <1>1, <2>1, <2>2, <2>5, <2>6, PayloadsAre, QuietCarries
<1>4. ASSUME Reply(call, {[do |-> "restore", tab |-> call.snapshot.tab, window |-> NoWindow]}),
             UNCHANGED <<window, tabWindow>>
      PROVE  PayloadsInv'
 <2>1. PICK new : new = [do |-> "restore", tab |-> call.snapshot.tab, window |-> NoWindow]
  OBVIOUS
 <2>2. Carries(new, rev)' /\ calls' \subseteq calls \cup {new} BY <1>4, <2>1 DEF Carries, Reply
 <2>3. TabsStay BY <1>4 DEF TabsStay
 <2> QED BY <1>1, <1>4, <2>2, <2>3, PayloadsAre, QuietCarries
<1> QED BY <1>3, <1>4 DEF OpenWindow

LEMMA IdentifyShows ==
  ASSUME PayloadsInv, WindowsInv', NEW call \in calls, Identify(call)
  PROVE  PayloadsInv'
<1>1. /\ rev' = rev /\ syncs' = syncs /\ mail' = mail /\ main' = main /\ moves' = moves /\ kept' = kept
      /\ tornScreen' = tornScreen /\ call.do = "identified"
 BY DEF Identify
<1>2. call.snapshot \in PayloadRec(rev) /\ call.window \in Windows
 BY <1>1, PayloadsAre DEF Carries
<1>3. CASE Reply(call, {}) /\ (UNCHANGED <<window, tabWindow>> \/ Release(call.window))
 <2>1. calls' \subseteq calls \cup {call} BY <1>3 DEF Reply
 <2>2. /\ TabsStay /\ tabWindow' \in [Tabs -> Windows \cup {NoWindow}]
       /\ \A w \in Windows : window'[w].snapshot \in PayloadRec(rev)
  <3>1. CASE UNCHANGED <<window, tabWindow>> BY <3>1, PayloadsAre DEF TabsStay
  <3> QED BY <1>3, <3>1, ReleaseKnown
 <2> QED BY <1>1, <2>1, <2>2, PayloadsAre, QuietCarries
<1>4. ASSUME NEW newer \in {call.snapshot, window[call.window].snapshot}, tabWindow' = tabWindow,
             window' = [window EXCEPT ![call.window].snapshot = newer],
             Reply(call, {[do |-> "identity known", window |-> call.window, snapshot |-> newer]})
      PROVE  PayloadsInv'
 <2>1. newer \in PayloadRec(rev) BY <1>2, <1>4, PayloadsAre
 <2>2. PICK new : new = [do |-> "identity known", window |-> call.window, snapshot |-> newer]
  OBVIOUS
 <2>3. Carries(new, rev)' /\ calls' \subseteq calls \cup {new}
  BY <1>1, <1>2, <1>4, <2>1, <2>2 DEF Carries, Reply
 <2>4. TabsStay /\ \A u \in Windows : window'[u].snapshot \in PayloadRec(rev)
  BY <1>4, <2>1, SnapshotKnown
 <2> QED BY <1>1, <1>4, <2>3, <2>4, PayloadsAre, QuietCarries
<1> QED
 <2>1. \/ Reply(call, {}) /\ (UNCHANGED <<window, tabWindow>> \/ Release(call.window))
       \/ LET newer == IF call.snapshot.rev >= window[call.window].snapshot.rev
                       THEN call.snapshot ELSE window[call.window].snapshot IN
            /\ window' = [window EXCEPT ![call.window].snapshot = newer]
            /\ Reply(call, {[do |-> "identity known", window |-> call.window, snapshot |-> newer]})
            /\ tabWindow' = tabWindow
  BY Zenon DEF Identify
 <2> QED BY <1>3, <1>4, <2>1

LEMMA TornInShows ==
  ASSUME PayloadsInv, WindowsInv', NEW call \in calls, TornIn(call)
  PROVE  PayloadsInv'
<1>1. /\ rev' = rev /\ syncs' = syncs /\ mail' = mail /\ main' = main /\ moves' = moves /\ kept' = kept
      /\ tornScreen' = tornScreen /\ call.do = "tornIn" /\ Release(call.window)
 BY DEF TornIn
<1>2. call.tab \in Tabs BY <1>1, PayloadsAre DEF Carries
<1>3. PICK new : new = [do |-> "pull", tab |-> call.tab] OBVIOUS
<1>4. Carries(new, rev)' /\ calls' \subseteq calls \cup {new}
 BY <1>2, <1>3 DEF TornIn, Reply, Carries
<1> QED BY <1>1, <1>4, ReleaseKnown, PayloadsAre, QuietCarries

(* A screen that shows nothing yet, and mail that is lost. *)
LEMMA BlankIs ==
  ASSUME NEW r \in Nat
  PROVE  Blank \in ScreenRec(r) /\ [Blank EXCEPT !.listening = TRUE] \in ScreenRec(r)
<1>1. <<>> \in Seq(PayloadRec(r)) /\ 0 \in 0..r OBVIOUS
<1>2. Blank \in ScreenRec(r) BY <1>1 DEF Blank, ScreenRec
<1> QED BY <1>2 DEF ScreenRec

LEMMA EmptiedShows ==
  ASSUME PayloadsInv, NEW w, tornScreen' = [tornScreen EXCEPT ![w] = Blank], mail' = [mail EXCEPT ![w] = <<>>]
  PROVE  /\ tornScreen' \in [Windows -> ScreenRec(rev)]
         /\ mail' \in [Windows \cup {"main"} -> Seq(PayloadRec(rev))]
<1>1. tornScreen \in [Windows -> ScreenRec(rev)] /\ mail \in [Windows \cup {"main"} -> Seq(PayloadRec(rev))]
 BY PayloadsAre
<1>2. Blank \in ScreenRec(rev) /\ <<>> \in Seq(PayloadRec(rev)) BY PayloadsAre, BlankIs
<1> QED BY <1>1, <1>2

LEMMA RestoredShows ==
  ASSUME PayloadsInv, WindowsInv', NEW call \in calls, Restored(call)
  PROVE  PayloadsInv'
<1>1. /\ rev' = rev /\ syncs' = syncs /\ main' = main /\ moves' = moves /\ kept' = kept
      /\ tabWindow' = tabWindow /\ calls' \subseteq calls \cup {call}
 BY DEF Restored, Reply
<1>2. CASE UNCHANGED <<window, tornScreen, mail>>
 <2>1. TabsStay BY <1>2 DEF TabsStay
 <2> QED BY <1>1, <1>2, <2>1, PayloadsAre, QuietCarries
<1>3. CASE /\ window' = [window EXCEPT ![call.window].life = "closed"]
           /\ tornScreen' = [tornScreen EXCEPT ![call.window] = Blank]
           /\ mail' = [mail EXCEPT ![call.window] = <<>>]
 <2>1. PICK l : l = "closed" OBVIOUS
 <2>2. TabsStay /\ \A u \in Windows : window'[u].snapshot \in PayloadRec(rev)
  BY <1>3, <2>1, LifeKnown
 <2> QED BY <1>1, <1>3, <2>2, EmptiedShows, PayloadsAre, QuietCarries
<1> QED BY <1>2, <1>3 DEF Restored

LEMMA ClosedShows ==
  ASSUME PayloadsInv, WindowsInv', NEW w \in Windows, Closed(w)
  PROVE  PayloadsInv'
<1>1. /\ rev' = rev /\ syncs' = syncs /\ main' = main /\ moves' = moves /\ kept' = kept
      /\ tornScreen' = [tornScreen EXCEPT ![w] = Blank] /\ mail' = [mail EXCEPT ![w] = <<>>]
      /\ tabWindow' = NoLonger(w)
 BY DEF Closed
<1>2. tabWindow' \in [Tabs -> Windows \cup {NoWindow}] BY <1>1, PayloadsAre DEF NoLonger
<1>3. TabsStay /\ \A u \in Windows : window'[u].snapshot \in PayloadRec(rev)
 <2>1. PICK l : l = "closed" OBVIOUS
 <2> QED BY <2>1, LifeKnown DEF Closed
<1>4. PICK new : new = [do |-> "close", tab |-> window[w].tab, meant |-> ~window[w].released]
 OBVIOUS
<1>5. Carries(new, rev)' /\ calls' \subseteq calls \cup {new} BY <1>4 DEF Closed, Carries
<1> QED BY <1>1, <1>2, <1>3, <1>5, EmptiedShows, PayloadsAre, QuietCarries

LEMMA SyncedIs ==
  ASSUME PayloadsInv, NEW p \in PayloadRec(rev)
  PROVE  Synced(p) \in [Tabs -> MainRec(rev)]
<1>1. main \in [Tabs -> MainRec(rev)] BY PayloadsAre
<1>2. Shown(p) \in MainRec(rev) BY DEF Shown, PayloadRec, MainRec
<1> QED BY <1>1, <1>2 DEF Synced

LEMMA AppliedIs ==
  ASSUME NEW r, NEW s \in ScreenRec(r), NEW p \in PayloadRec(r)
  PROVE  Applied(s, p) \in ScreenRec(r)
<1>1. p.rev \in 0..r /\ p.panes \in SUBSET Panes BY DEF PayloadRec
<1>2. [s EXCEPT !.rev = p.rev, !.panes = p.panes] \in ScreenRec(r) BY <1>1 DEF ScreenRec
<1> QED BY <1>2 DEF Applied

(* A renderer that learns its tab goes through what came before: a function   *)
(* with this recursion exists.                                                *)
KnownFrom(f, s, early, m) == f = [i \in 0..m |-> IF i = 0 THEN s ELSE Applied(f[i - 1], early[i])]

LEMMA KnownSteps ==
  ASSUME NEW s, NEW early, NEW n \in Nat
  PROVE  \E f : KnownFrom(f, s, early, n)
<1> DEFINE Missing == {m \in Nat : ~ \E f : KnownFrom(f, s, early, m)}
<1>1. Missing = {}
 <2> SUFFICES ASSUME Missing # {} PROVE FALSE
  OBVIOUS
 <2>1. PICK m \in Missing : \A k \in Missing : m <= k BY LeastNumber
 <2>2. CASE m = 0
  <3> DEFINE f == [i \in 0..0 |-> s]
  <3>1. f = [i \in 0..0 |-> IF i = 0 THEN s ELSE Applied(f[i - 1], early[i])] OBVIOUS
  <3> QED BY <2>1, <2>2, <3>1 DEF KnownFrom
 <2>3. CASE m # 0
  <3>1. m - 1 \in Nat /\ m - 1 \notin Missing /\ m \in Nat BY <2>1, <2>3
  <3>2. PICK f : KnownFrom(f, s, early, m - 1) BY <3>1
  <3> DEFINE g == [i \in 0..m |-> IF i = m THEN Applied(f[m - 1], early[m]) ELSE f[i]]
  <3>3. \A i \in 0..(m - 1) : f[i] = IF i = 0 THEN s ELSE Applied(f[i - 1], early[i])
   BY <3>1, <3>2 DEF KnownFrom
  <3>4. \A i \in 0..(m - 1) : g[i] = f[i] BY <3>1
  <3>5. \A i \in 0..m : g[i] = IF i = 0 THEN s ELSE Applied(g[i - 1], early[i])
   <4> SUFFICES ASSUME NEW i \in 0..m
                PROVE  g[i] = IF i = 0 THEN s ELSE Applied(g[i - 1], early[i])
    OBVIOUS
   <4>1. CASE i = m
    <5>1. m - 1 \in 0..(m - 1) /\ g[m] = Applied(f[m - 1], early[m]) BY <3>1
    <5> QED BY <2>3, <3>4, <4>1, <5>1
   <4>2. CASE i # m /\ i = 0 BY <3>1, <3>3, <3>4, <4>2
   <4>3. CASE i # m /\ i # 0
    <5>1. i \in 0..(m - 1) /\ i - 1 \in 0..(m - 1) BY <3>1, <4>3
    <5> QED BY <3>3, <3>4, <4>3, <5>1
   <4> QED BY <4>1, <4>2, <4>3
  <3>6. g = [i \in 0..m |-> g[i]] OBVIOUS
  <3> HIDE DEF g
  <3>7. KnownFrom(g, s, early, m) BY <3>5, <3>6 DEF KnownFrom
  <3> QED BY <2>1, <3>7
 <2> QED BY <2>2, <2>3
<1> QED BY <1>1

LEMMA KnownIs ==
  ASSUME NEW r, NEW s \in ScreenRec(r), NEW early \in Seq(PayloadRec(r)), NEW f, KnownFrom(f, s, early, Len(early))
  PROVE  f[Len(early)] \in ScreenRec(r)
<1> DEFINE Wrong == {m \in 0..Len(early) : f[m] \notin ScreenRec(r)}
<1>0. Len(early) \in Nat /\ \A i \in 1..Len(early) : early[i] \in PayloadRec(r) OBVIOUS
<1>1. \A i \in 0..Len(early) : f[i] = IF i = 0 THEN s ELSE Applied(f[i - 1], early[i])
 BY DEF KnownFrom
<1>2. Wrong = {}
 <2> SUFFICES ASSUME Wrong # {} PROVE FALSE
  OBVIOUS
 <2>1. Wrong \in SUBSET Nat BY <1>0
 <2>2. PICK m \in Wrong : \A k \in Wrong : m <= k BY <2>1, LeastNumber
 <2>3. m \in 0..Len(early) /\ f[m] \notin ScreenRec(r) BY <2>2
 <2>4. m # 0 BY <1>0, <1>1, <2>3
 <2>5. m - 1 \in 0..Len(early) /\ m \in 1..Len(early) /\ m - 1 \notin Wrong
  BY <1>0, <2>2, <2>3, <2>4
 <2>6. f[m - 1] \in ScreenRec(r) /\ early[m] \in PayloadRec(r) BY <1>0, <2>5
 <2>7. f[m] = Applied(f[m - 1], early[m]) BY <1>1, <2>3, <2>4
 <2> QED BY <2>3, <2>6, <2>7, AppliedIs
<1>3. Len(early) \in 0..Len(early) BY <1>0
<1> QED BY <1>2, <1>3

LEMMA KnowsIs ==
  ASSUME PayloadsInv, NEW w \in Windows, NEW s \in PayloadRec(rev)
  PROVE  Knows(w, s) \in ScreenRec(rev)
<1> DEFINE early == tornScreen[w].early
           a == Applied([tornScreen[w] EXCEPT !.own = s.tab], s)
           f == CHOOSE g : g = [i \in 0..Len(early) |-> IF i = 0 THEN a ELSE Applied(g[i - 1], early[i])]
<1>1. tornScreen[w] \in ScreenRec(rev) /\ early \in Seq(PayloadRec(rev)) /\ s.tab \in Tabs \cup {NoTab}
 BY PayloadsAre DEF ScreenRec, PayloadRec
<1>2. a \in ScreenRec(rev)
 <2>1. [tornScreen[w] EXCEPT !.own = s.tab] \in ScreenRec(rev) BY <1>1 DEF ScreenRec
 <2> QED BY <2>1, AppliedIs
<1>3. Knows(w, s) = [f[Len(early)] EXCEPT !.early = <<>>] BY DEF Knows
<1> HIDE DEF a, early
<1>4. KnownFrom(f, a, early, Len(early))
 <2>1. Len(early) \in Nat BY <1>1
 <2>2. \E g : KnownFrom(g, a, early, Len(early)) BY <2>1, KnownSteps
 <2>3. \E g : g = [i \in 0..Len(early) |-> IF i = 0 THEN a ELSE Applied(g[i - 1], early[i])]
  BY <2>2 DEF KnownFrom
 <2> QED BY <2>3 DEF KnownFrom
<1> HIDE DEF f
<1>5. f[Len(early)] \in ScreenRec(rev) BY <1>1, <1>2, <1>4, KnownIs
<1>6. <<>> \in Seq(PayloadRec(rev)) OBVIOUS
<1>7. [f[Len(early)] EXCEPT !.early = <<>>] \in ScreenRec(rev) BY <1>5, <1>6 DEF ScreenRec
<1> QED BY <1>3, <1>7

LEMMA RenderersShow ==
  ASSUME PayloadsInv, WindowsInv', Renderers
  PROVE  PayloadsInv'
<1>1. /\ rev' = rev /\ syncs' = syncs /\ window' = window /\ moves' = moves /\ kept' = kept
      /\ tabWindow' = tabWindow
 BY DEF Renderers, ReadMail, Pulled, LearnIdentity, Load, ReadTornMail
<1>2. TabsStay BY <1>1 DEF TabsStay
<1>3. CASE ReadMail
 <2>1. mail["main"] \in Seq(PayloadRec(rev)) /\ mail["main"] # <<>> /\ mail' = [mail EXCEPT !["main"] = Tail(@)]
       /\ main' = Synced(Head(mail["main"])) /\ tornScreen' = tornScreen /\ calls' = calls
  BY <1>3, PayloadsAre DEF ReadMail
 <2>2. Head(mail["main"]) \in PayloadRec(rev) /\ Tail(mail["main"]) \in Seq(PayloadRec(rev))
  BY <2>1, NextOfSeq
 <2>3. main' \in [Tabs -> MainRec(rev)] BY <2>1, <2>2, SyncedIs
 <2>4. mail' \in [Windows \cup {"main"} -> Seq(PayloadRec(rev))] BY <2>1, <2>2, PayloadsAre
 <2>5. PICK none : none = [do |-> "none"] OBVIOUS
 <2>6. Carries(none, rev)' /\ calls' \subseteq calls \cup {none} BY <2>1, <2>5 DEF Carries
 <2> QED BY <1>1, <1>2, <2>1, <2>3, <2>4, <2>6, PayloadsAre, QuietCarries
<1>4. ASSUME NEW call \in calls, Pulled(call) PROVE PayloadsInv'
 <2>1. call.snapshot \in PayloadRec(rev) BY <1>4, PayloadsAre DEF Pulled, Carries
 <2>2. main' \in [Tabs -> MainRec(rev)] /\ calls' \subseteq calls \cup {call} /\ mail' = mail /\ tornScreen' = tornScreen
  BY <1>4, <2>1, SyncedIs, PayloadsAre DEF Pulled, Reply
 <2> QED BY <1>1, <1>2, <2>2, PayloadsAre, QuietCarries
<1>5. ASSUME NEW call \in calls, LearnIdentity(call) PROVE PayloadsInv'
 <2>1. call.snapshot \in PayloadRec(rev) /\ call.window \in Windows
  BY <1>5, PayloadsAre DEF LearnIdentity, Carries
 <2>2. Knows(call.window, call.snapshot) \in ScreenRec(rev) BY <2>1, KnowsIs
 <2>3. tornScreen' \in [Windows -> ScreenRec(rev)] BY <1>5, <2>2, PayloadsAre DEF LearnIdentity
 <2>4. calls' \subseteq calls \cup {call} /\ mail' = mail /\ main' = main
  BY <1>5 DEF LearnIdentity, Reply
 <2> QED BY <1>1, <1>2, <2>3, <2>4, PayloadsAre, QuietCarries
<1>6. ASSUME NEW w \in Windows, Load(w) PROVE PayloadsInv'
 <2>1. PICK new : new = [do |-> "identity", window |-> w] OBVIOUS
 <2>2. window[w].tab \in Tabs
  BY <1>6 DEF Load, PayloadsInv, WindowsInv, WindowsRight, WindowRight
 <2>3. Carries(new, rev)' /\ calls' \subseteq calls \cup {new}
  BY <1>1, <1>6, <2>1, <2>2 DEF Load, Carries
 <2>4. tornScreen' \in [Windows -> ScreenRec(rev)] /\ mail' = mail /\ main' = main
  BY <1>6, BlankIs, PayloadsAre DEF Load
 <2> QED BY <1>1, <1>2, <2>3, <2>4, PayloadsAre, QuietCarries
<1>7. ASSUME NEW w \in Windows, ReadTornMail(w) PROVE PayloadsInv'
 <2>1. mail[w] \in Seq(PayloadRec(rev)) /\ mail[w] # <<>> /\ tornScreen[w] \in ScreenRec(rev)
  BY <1>7, PayloadsAre DEF ReadTornMail
 <2>2. Head(mail[w]) \in PayloadRec(rev) /\ Tail(mail[w]) \in Seq(PayloadRec(rev))
  BY <2>1, NextOfSeq
 <2>3. mail' \in [Windows \cup {"main"} -> Seq(PayloadRec(rev))]
  BY <1>7, <2>2, PayloadsAre DEF ReadTornMail
 <2> DEFINE n == IF tornScreen[w].own = NoTab
                 THEN [tornScreen[w] EXCEPT !.early = Append(@, Head(mail[w]))]
                 ELSE Applied(tornScreen[w], Head(mail[w]))
 <2>4. n \in ScreenRec(rev)
  <3>1. tornScreen[w].early \in Seq(PayloadRec(rev)) BY <2>1 DEF ScreenRec
  <3>2. Append(tornScreen[w].early, Head(mail[w])) \in Seq(PayloadRec(rev)) BY <2>2, <3>1
  <3>3. [tornScreen[w] EXCEPT !.early = Append(@, Head(mail[w]))] \in ScreenRec(rev)
   BY <2>1, <3>2 DEF ScreenRec
  <3> QED BY <2>1, <2>2, <3>3, AppliedIs
 <2>5. tornScreen' = [tornScreen EXCEPT ![w] = n] BY <1>7 DEF ReadTornMail
 <2> HIDE DEF n
 <2>6. tornScreen' \in [Windows -> ScreenRec(rev)] /\ main' = main /\ calls' = calls
  BY <1>7, <2>4, <2>5, PayloadsAre DEF ReadTornMail
 <2>7. PICK none : none = [do |-> "none"] OBVIOUS
 <2>8. Carries(none, rev)' /\ calls' \subseteq calls \cup {none} BY <2>6, <2>7 DEF Carries
 <2> QED BY <1>1, <1>2, <2>3, <2>6, <2>8, PayloadsAre, QuietCarries
<1> QED BY <1>3, <1>4, <1>5, <1>6, <1>7 DEF Renderers

LEMMA WorldShows ==
  ASSUME PayloadsInv, WindowsInv', World
  PROVE  PayloadsInv'
<1>0. moves' \in 0..MaxMoves
 <2>1. Move
  BY DEF World, AskTearOff, CloseMainTab, Split, CloseLeaf, AskTearIn, CloseWindow, Reload, RendererGone
 <2> QED BY <2>1, WindowsConstants DEF PayloadsInv, Move
<1>1. ASSUME NEW t \in Tabs, AskTearOff(t) PROVE PayloadsInv'
 <2>1. PICK ps : calls' = calls \cup {[do |-> "tearOff", panes |-> ps]}
  BY <1>1 DEF AskTearOff, Ask
 <2>2. PICK new : new = [do |-> "tearOff", panes |-> ps] OBVIOUS
 <2>3. Carries(new, rev)' /\ calls' \subseteq calls \cup {new} BY <2>1, <2>2 DEF Carries
 <2>4. TabsStay BY <1>1 DEF AskTearOff, TabsStay
 <2> QED BY <1>0, <1>1, <2>3, <2>4, PayloadsAre, QuietCarries DEF AskTearOff
<1>2. ASSUME NEW t \in Tabs, CloseMainTab(t) PROVE PayloadsInv'
 <2>1. PICK new : new = [do |-> "close", tab |-> t, meant |-> TRUE] OBVIOUS
 <2>2. Carries(new, rev)' /\ calls' \subseteq calls \cup {new}
  BY <1>2, <2>1 DEF Carries, CloseMainTab, Ask
 <2>3. TabsStay BY <1>2 DEF CloseMainTab, TabsStay
 <2>4. main' \in [Tabs -> MainRec(rev)]
  <3>1. [main[t] EXCEPT !.panes = {}] \in MainRec(rev) BY PayloadsAre DEF MainRec
  <3> QED BY <1>2, <3>1, PayloadsAre DEF CloseMainTab
 <2> QED BY <1>0, <1>2, <2>2, <2>3, <2>4, PayloadsAre, QuietCarries DEF CloseMainTab
<1>3. ASSUME NEW t \in Tabs, NEW p \in Panes, Split(t, p) \/ CloseLeaf(t, p) PROVE PayloadsInv'
 <2>1. \E l : Emits(l, <<t>>) BY <1>3 DEF Split, CloseLeaf
 <2>2. Published
  <3>1. <<t>> \in Seq(Tabs) OBVIOUS
  <3> QED BY <2>1, <3>1, EmitsPublished DEF WindowsInv
 <2>3. UNCHANGED <<window, tabWindow, mail, main, tornScreen>> /\ kept' \subseteq kept
  BY <1>3 DEF Split, CloseLeaf
 <2>4. PICK new : new = [do |-> "pull", tab |-> t] OBVIOUS
 <2>5. Carries(new, rev)' /\ calls' \subseteq calls \cup {new}
  BY <1>3, <2>4 DEF Split, CloseLeaf, Ask, Carries
 <2> QED BY <1>0, <2>2, <2>3, <2>5, RustCarries
<1>4. ASSUME NEW w \in Windows, AskTearIn(w) PROVE PayloadsInv'
 <2>1. PICK new : new = [do |-> "tearIn", window |-> w] OBVIOUS
 <2>2. Carries(new, rev)' /\ calls' \subseteq calls \cup {new}
  BY <1>4, <2>1 DEF Carries, AskTearIn, Ask
 <2>3. TabsStay BY <1>4 DEF AskTearIn, TabsStay
 <2> QED BY <1>0, <1>4, <2>2, <2>3, PayloadsAre, QuietCarries DEF AskTearIn
<1>5. ASSUME NEW w \in Windows, CloseWindow(w) PROVE PayloadsInv'
 <2>1. PICK l : l = "closing" OBVIOUS
 <2>2. TabsStay /\ \A u \in Windows : window'[u].snapshot \in PayloadRec(rev)
  BY <1>5, <2>1, LifeKnown DEF CloseWindow
 <2>3. PICK none : none = [do |-> "none"] OBVIOUS
 <2>4. Carries(none, rev)' /\ calls' \subseteq calls \cup {none}
  BY <1>5, <2>3 DEF Carries, CloseWindow
 <2> QED BY <1>0, <1>5, <2>2, <2>4, PayloadsAre, QuietCarries DEF CloseWindow
<1>6. ASSUME NEW w \in Windows, Reload(w) PROVE PayloadsInv'
 <2>1. tornScreen' \in [Windows -> ScreenRec(rev)] /\ mail' \in [Windows \cup {"main"} -> Seq(PayloadRec(rev))]
  BY <1>6, EmptiedShows DEF Reload
 <2>2. PICK none : none = [do |-> "none"] OBVIOUS
 <2>3. Carries(none, rev)' /\ calls' \subseteq calls \cup {none}
  BY <1>6, <2>2 DEF Carries, Reload
 <2>4. TabsStay BY <1>6 DEF Reload, TabsStay
 <2> QED BY <1>0, <1>6, <2>1, <2>3, <2>4, PayloadsAre, QuietCarries DEF Reload
<1>7. ASSUME NEW w \in Windows, RendererGone(w) PROVE PayloadsInv'
 <2>1. PICK n : n = [window[w] EXCEPT !.released = TRUE] OBVIOUS
 <2>2. window' = [window EXCEPT ![w] = n] BY <1>7, <2>1 DEF RendererGone
 <2>3. window[w] \in WindowRec(PayloadRec(rev)) BY SnapshotsAre
 <2>4. n \in WindowRec(PayloadRec(rev)) /\ n.tab = window[w].tab BY <2>1, <2>3 DEF WindowRec
 <2>5. \A u \in Windows : window'[u].snapshot \in PayloadRec(rev) BY <2>2, <2>4, SnapshotsKept
 <2>6. TabsStay BY <2>2, <2>4, SnapshotsAre DEF TabsStay
 <2>7. PICK new : new = [do |-> "restore", tab |-> window[w].tab, window |-> w] OBVIOUS
 <2>8. Carries(new, rev)' /\ calls' \subseteq calls \cup {new}
  BY <1>7, <2>7 DEF Carries, RendererGone, Ask
 <2>9. tabWindow' \in [Tabs -> Windows \cup {NoWindow}]
  BY <1>7, PayloadsAre DEF RendererGone, NoLonger
 <2> QED BY <1>0, <1>7, <2>5, <2>6, <2>8, <2>9, PayloadsAre, QuietCarries DEF RendererGone
<1> QED BY <1>1, <1>2, <1>3, <1>4, <1>5, <1>6, <1>7 DEF World

LEMMA PayloadsStep ==
  ASSUME PayloadsInv, [WindowsNext]_tornWindows
  PROVE  PayloadsInv'
<1>1. WindowsInv' BY WindowsStep DEF PayloadsInv
<1>2. CASE UNCHANGED tornWindows
 BY <1>1, <1>2 DEF tornWindows, PayloadsInv, KnownTo, OnTheWay, Carries
<1>3. CASE Rust BY <1>1, <1>3, RustShows DEF Rust
<1>4. CASE MainProcess
 BY <1>1, <1>4, BroadcastShows, OpenShows, IdentifyShows, TornInShows, RestoredShows, ClosedShows DEF MainProcess
<1> QED BY <1>1, <1>2, <1>3, <1>4, RenderersShow, WorldShows DEF WindowsNext

LEMMA PayloadsStart == WindowsInit => PayloadsInv
<1> SUFFICES ASSUME WindowsInit PROVE PayloadsInv
 OBVIOUS
<1>1. PICK torn \in BOOLEAN :
        /\ rev = HomePayload(torn).rev /\ syncs = <<>> /\ calls = {} /\ moves = 0 /\ kept = Panes
        /\ window = [w \in Windows |-> HomeWindow(w, torn)]
        /\ tabWindow = [t \in Tabs |-> IF torn /\ t = Home THEN FirstWindow ELSE NoWindow]
        /\ mail = [w \in Windows \cup {"main"} |-> <<>>]
        /\ main = [t \in Tabs |-> IF t = Home THEN Shown(HomePayload(torn)) ELSE Shown(NoPayload)]
        /\ tornScreen = [w \in Windows |-> HomeScreen(w, torn)]
 BY DEF WindowsInit
<1>2. rev = (IF torn THEN 2 ELSE 1) /\ rev \in Nat /\ 0 \in 0..rev /\ rev \in 0..rev
 BY <1>1 DEF HomePayload
<1>3. HomePayload(torn) \in PayloadRec(rev) /\ NoPayload \in PayloadRec(rev)
 BY <1>2, WindowsConstants DEF HomePayload, NoPayload, PayloadRec
<1>4. main \in [Tabs -> MainRec(rev)]
 <2>1. Shown(HomePayload(torn)) \in MainRec(rev) /\ Shown(NoPayload) \in MainRec(rev)
  BY <1>3 DEF Shown, MainRec, PayloadRec
 <2> QED BY <1>1, <2>1
<1>5. tornScreen \in [Windows -> ScreenRec(rev)]
 <2>1. Blank \in ScreenRec(rev) BY <1>2, BlankIs
 <2>2. torn => [Blank EXCEPT !.own = Home, !.rev = 2, !.panes = HomePanes, !.listening = TRUE] \in ScreenRec(rev)
  BY <1>2, <2>1, WindowsConstants DEF ScreenRec
 <2> QED BY <1>1, <2>1, <2>2 DEF HomeScreen
<1>6. tabWindow \in [Tabs -> Windows \cup {NoWindow}] BY <1>1, WindowsConstants
<1>7. \A w \in Windows : window[w].snapshot \in PayloadRec(rev)
 <2>1. ASSUME NEW w \in Windows PROVE window[w].snapshot \in PayloadRec(rev)
  <3>1. window[w] = HomeWindow(w, torn) BY <1>1
  <3>2. CASE torn /\ w = FirstWindow
   <4>1. window[w].snapshot = HomePayload(TRUE) /\ torn = TRUE BY <3>1, <3>2 DEF HomeWindow
   <4> QED BY <1>3, <4>1
  <3>3. CASE ~(torn /\ w = FirstWindow)
   <4>1. window[w] = NoneYet BY <3>1, <3>3, Zenon DEF HomeWindow
   <4>2. NoneYet.snapshot = NoPayload BY DEF NoneYet
   <4> QED BY <1>3, <4>1, <4>2
  <3> QED BY <3>2, <3>3
 <2> QED BY <2>1
<1>8. syncs \in Seq(PayloadRec(rev)) /\ mail \in [Windows \cup {"main"} -> Seq(PayloadRec(rev))]
 BY <1>1
<1>9. moves \in 0..MaxMoves BY <1>1, WindowsConstants
<1> QED BY <1>1, <1>2, <1>4, <1>5, <1>6, <1>7, <1>8, <1>9, WindowsStart DEF PayloadsInv, KnownTo, OnTheWay

LEMMA WindowsTypes == PayloadsInv => WindowsTypeOK
<1> SUFFICES ASSUME PayloadsInv PROVE WindowsTypeOK
 OBVIOUS
<1>1. \A t \in Tabs : layout[t].panes \subseteq Panes /\ layout[t].torn \in BOOLEAN
                      /\ layout[t].origin \in Tabs \cup {NoTab}
 BY DEF PayloadsInv, WindowsInv, LayoutRight, TabRec
<1>2. \A w \in Windows : window[w].life \in {"none", "open", "closing", "closed"}
 BY SnapshotsAre DEF WindowRec
<1>3. \A t \in Tabs : main[t].panes \subseteq Panes /\ main[t].rev <= rev
 BY PayloadsAre DEF MainRec
<1>4. \A w \in Windows : tornScreen[w].panes \subseteq Panes /\ tornScreen[w].rev <= rev
 BY PayloadsAre DEF ScreenRec
<1> QED BY <1>1, <1>2, <1>3, <1>4, PayloadsAre DEF PayloadsInv, WindowsTypeOK

--------------------------------------------------
(* The bounds of the output: no offset is beyond what the session printed. *)

Within(q) == \A i \in 1..Len(q) : EndOf(q[i]) <= MaxOutput

InOutput(v) ==
  /\ Within(channel[v]) /\ Within(view[v].pending)
  /\ view[v].last \in 0..MaxOutput \cup {Fresh} /\ reply[v].end <= MaxOutput

ScrollBounds ==
  /\ ScrollInv /\ ring.end <= MaxOutput /\ ring.end - ring.start <= MaxChars
  /\ mounts \in [Views -> 0..MaxMounts] /\ \A v \in Views : InOutput(v)

LEMMA WithinMore ==
  ASSUME NEW q \in Seq(Chunks), NEW c \in Chunks, Within(q), EndOf(c) <= MaxOutput
  PROVE  Within(Append(q, c))
<1>1. Len(Append(q, c)) = Len(q) + 1 /\ Len(q) \in Nat OBVIOUS
<1>2. ASSUME NEW i \in 1..Len(q) + 1 PROVE EndOf(Append(q, c)[i]) <= MaxOutput
 <2>1. Append(q, c)[i] = IF i = Len(q) + 1 THEN c ELSE q[i] BY <1>1, <1>2
 <2> QED BY <1>1, <1>2, <2>1 DEF Within
<1> QED BY <1>1, <1>2 DEF Within

LEMMA WithinRest ==
  ASSUME NEW q \in Seq(Chunks), q # <<>>, Within(q)
  PROVE  Head(q) \in Chunks /\ EndOf(Head(q)) <= MaxOutput /\ Within(Tail(q)) /\ Tail(q) \in Seq(Chunks)
<1>1. Len(q) \in Nat \ {0} /\ Head(q) = q[1] /\ Len(Tail(q)) = Len(q) - 1 /\ Tail(q) \in Seq(Chunks)
      /\ Head(q) \in Chunks
 OBVIOUS
<1>2. ASSUME NEW i \in 1..Len(q) - 1 PROVE EndOf(Tail(q)[i]) <= MaxOutput
 <2>1. Tail(q)[i] = q[i + 1] /\ i + 1 \in 1..Len(q) BY <1>1, <1>2
 <2> QED BY <2>1 DEF Within
<1>3. EndOf(q[1]) <= MaxOutput BY <1>1 DEF Within
<1> QED BY <1>1, <1>2, <1>3 DEF Within

LEMMA WrittenEnds ==
  ASSUME NEW s, NEW c
  PROVE  Written(s, c).last \in {s.last, EndOf(c)}
BY DEF Written, EndOf

LEMMA FlushedEnds ==
  ASSUME NEW p \in Seq(Chunks), Within(p), NEW s, s.last \in 0..MaxOutput \cup {Fresh}
  PROVE  Flushed(p, s).last \in 0..MaxOutput \cup {Fresh}
<1>1. Len(p) \in Nat /\ \A k \in 1..Len(p) : p[k] \in Chunks OBVIOUS
<1>2. PICK f : FlushedFrom(f, p, s, Len(p)) /\ Flushed(p, s) = f[Len(p)] BY <1>1, FlushedSteps
<1>3. \A k \in 0..Len(p) : f[k] = IF k = 0 THEN s ELSE Written(f[k - 1], p[k])
 BY <1>2 DEF FlushedFrom
<1> DEFINE Wrong == {k \in 0..Len(p) : f[k].last \notin 0..MaxOutput \cup {Fresh}}
<1>4. Wrong = {}
 <2> SUFFICES ASSUME Wrong # {} PROVE FALSE
  OBVIOUS
 <2>1. Wrong \in SUBSET Nat BY <1>1
 <2>2. PICK k \in Wrong : \A j \in Wrong : k <= j BY <2>1, LeastNumber
 <2>3. k \in 0..Len(p) /\ f[k].last \notin 0..MaxOutput \cup {Fresh} BY <2>2
 <2>4. k # 0 BY <1>1, <1>3, <2>3
 <2>5. k - 1 \in 0..Len(p) /\ k \in 1..Len(p) /\ k - 1 \notin Wrong BY <1>1, <2>2, <2>3, <2>4
 <2>6. f[k].last \in {f[k - 1].last, EndOf(p[k])} BY <1>3, <2>3, <2>4, WrittenEnds
 <2>7. EndOf(p[k]) \in 0..MaxOutput
  <3>1. EndOf(p[k]) \in Nat BY <1>1, <2>5, ChunkEnds DEF EndOf
  <3> QED BY <2>5, <3>1, ScrollbackConstants DEF Within
 <2> QED BY <2>3, <2>5, <2>6, <2>7
<1> QED BY <1>1, <1>2, <1>4

LEMMA ScrollBoundsStart == ScrollbackInit => ScrollBounds
<1> SUFFICES ASSUME ScrollbackInit PROVE ScrollBounds
 OBVIOUS
<1>1. ring.end = 0 /\ ring.start = 0 /\ mounts \in [Views -> 0..MaxMounts]
 BY ScrollbackConstants DEF ScrollbackInit
<1>2. \A v \in Views : InOutput(v)
 BY ScrollbackConstants DEF ScrollbackInit, InOutput, Within, NoReply
<1>3. ring.end <= MaxOutput /\ ring.end - ring.start <= MaxChars BY <1>1, ScrollbackConstants
<1> QED BY <1>1, <1>2, <1>3, ScrollStart DEF ScrollBounds

(* One view changes. *)
LEMMA OneInOutput ==
  ASSUME ScrollBounds, ScrollInv', NEW v \in Views, ring' = ring, mounts' \in [Views -> 0..MaxMounts], InOutput(v)',
         \A w \in Views \ {v} : channel'[w] = channel[w] /\ reply'[w] = reply[w] /\ view'[w] = view[w]
  PROVE  ScrollBounds'
<1>1. ASSUME NEW w \in Views PROVE InOutput(w)'
 BY DEF ScrollBounds, InOutput
<1> QED BY <1>1 DEF ScrollBounds

LEMMA ScrollBoundsStep == ASSUME ScrollBounds, [ScrollbackNext]_scrollback PROVE ScrollBounds'
<1>1. ScrollInv' BY ScrollStep DEF ScrollBounds
<1>2. /\ ring \in [start : Nat, end : Nat] /\ ring.start <= ring.end
      /\ channel \in [Views -> Seq(Chunks)] /\ reply \in [Views -> ReplyRec] /\ view \in [Views -> ViewRec]
      /\ {MaxChars, MaxOutput, MaxMounts} \subseteq Nat
 BY ScrollbackConstants DEF ScrollBounds, ScrollInv, ScrollTypes
<1>3. CASE Emit
 <2>1. PICK n \in 1..2 :
         /\ ring.end + n <= MaxOutput
         /\ \E s \in Trimmed(ring.start, ring.end + n) : ring' = [start |-> s, end |-> ring.end + n]
         /\ channel' = [v \in Views |-> Append(channel[v], Chars(ring.end, ring.end + n))]
  BY <1>3 DEF Emit
 <2>2. PICK s \in Trimmed(ring.start, ring.end + n) : ring' = [start |-> s, end |-> ring.end + n]
  BY <2>1
 <2>3. ring'.end <= MaxOutput /\ ring'.end - ring'.start <= MaxChars
  BY <1>2, <2>1, <2>2 DEF Trimmed
 <2>4. PICK c : c = Chars(ring.end, ring.end + n) OBVIOUS
 <2>5. c \in Chunks /\ EndOf(c) <= MaxOutput BY <1>2, <2>1, <2>4, CharsChunk
 <2>6. ASSUME NEW v \in Views PROVE InOutput(v)'
  <3>1. channel'[v] = Append(channel[v], c) /\ channel[v] \in Seq(Chunks) /\ InOutput(v)
   BY <1>2, <2>1, <2>4 DEF ScrollBounds
  <3>2. Within(channel'[v]) BY <2>5, <3>1, WithinMore DEF InOutput
  <3> QED BY <1>3, <3>1, <3>2 DEF Emit, InOutput
 <2> QED BY <1>1, <1>3, <2>3, <2>6 DEF Emit, ScrollBounds
<1>4. CASE Drop
 <2>1. ring'.end = 0 /\ ring'.start = 0 BY <1>4 DEF Drop
 <2>2. ring'.end <= MaxOutput /\ ring'.end - ring'.start <= MaxChars BY <1>2, <2>1
 <2> QED BY <1>1, <1>4, <2>2 DEF Drop, ScrollBounds, InOutput
<1>5. ASSUME NEW v \in Views, Mount(v) PROVE ScrollBounds'
 <2>1. view[v] \in ViewRec /\ InOutput(v) /\ mounts[v] \in 0..MaxMounts BY <1>2 DEF ScrollBounds
 <2>2. mounts' \in [Views -> 0..MaxMounts]
  <3>1. mounts[v] + 1 \in 0..MaxMounts BY <1>2, <1>5, <2>1 DEF Mount
  <3> QED BY <1>5, <3>1 DEF Mount, ScrollBounds
 <2>3. view'[v].pending = <<>> /\ view'[v].last = view[v].last BY <1>2, <1>5 DEF Mount, ViewRec
 <2>4. InOutput(v)' BY <1>5, <2>1, <2>3 DEF Mount, InOutput, Within
 <2>5. \A w \in Views \ {v} : channel'[w] = channel[w] /\ reply'[w] = reply[w] /\ view'[w] = view[w]
  BY <1>2, <1>5 DEF Mount
 <2> QED BY <1>1, <1>5, <2>2, <2>4, <2>5, OneInOutput DEF Mount
<1>6. ASSUME NEW v \in Views, AnswerScrollback(v) PROVE ScrollBounds'
 <2>1. ReadScrollback(view[v].last).end = ring.end BY DEF ReadScrollback
 <2>2. reply'[v].end = ring.end BY <1>2, <1>6, <2>1 DEF AnswerScrollback
 <2>3. InOutput(v)' BY <1>6, <2>2 DEF AnswerScrollback, ScrollBounds, InOutput
 <2>4. \A w \in Views \ {v} : channel'[w] = channel[w] /\ reply'[w] = reply[w] /\ view'[w] = view[w]
  BY <1>2, <1>6 DEF AnswerScrollback
 <2>5. mounts' \in [Views -> 0..MaxMounts] /\ ring' = ring
  BY <1>6 DEF AnswerScrollback, ScrollBounds
 <2> QED BY <1>1, <2>3, <2>4, <2>5, OneInOutput
<1>7. ASSUME NEW v \in Views, Deliver(v) PROVE ScrollBounds'
 <2>1. channel[v] \in Seq(Chunks) /\ channel[v] # <<>> /\ InOutput(v) /\ view[v] \in ViewRec
  BY <1>2, <1>7 DEF Deliver, ScrollBounds
 <2>2. /\ Head(channel[v]) \in Chunks /\ EndOf(Head(channel[v])) <= MaxOutput
       /\ Within(Tail(channel[v]))
  BY <2>1, WithinRest DEF InOutput
 <2>3. channel'[v] = Tail(channel[v]) /\ reply' = reply /\ ring' = ring /\ mounts' = mounts
  BY <1>2, <1>7 DEF Deliver
 <2>4. Within(view'[v].pending) /\ view'[v].last \in 0..MaxOutput \cup {Fresh}
  <3>1. CASE view' = view BY <2>1, <3>1 DEF InOutput
  <3>2. ASSUME NEW s, s = Written([text |-> screen[v], last |-> view[v].last], Head(channel[v])),
               view' = [view EXCEPT ![v].last = s.last]
        PROVE  Within(view'[v].pending) /\ view'[v].last \in 0..MaxOutput \cup {Fresh}
   <4>1. s.last \in {view[v].last, EndOf(Head(channel[v]))} BY <3>2, WrittenEnds
   <4>2. EndOf(Head(channel[v])) \in 0..MaxOutput
    <5>1. EndOf(Head(channel[v])) \in Nat BY <2>2, ChunkEnds DEF EndOf
    <5> QED BY <1>2, <2>2, <5>1
   <4>3. view'[v].pending = view[v].pending /\ view'[v].last = s.last
    BY <1>2, <2>1, <3>2 DEF ViewRec
   <4> QED BY <2>1, <4>1, <4>2, <4>3 DEF InOutput
  <3>3. CASE view' = [view EXCEPT ![v].pending = Append(@, Head(channel[v]))]
   <4>1. view[v].pending \in Seq(Chunks) /\ Within(view[v].pending)
    BY <2>1 DEF ViewRec, InOutput
   <4>2. Within(Append(view[v].pending, Head(channel[v]))) BY <2>2, <4>1, WithinMore
   <4>3. view'[v].pending = Append(view[v].pending, Head(channel[v])) /\ view'[v].last = view[v].last
    BY <1>2, <2>1, <3>3 DEF ViewRec
   <4> QED BY <2>1, <4>2, <4>3 DEF InOutput
  <3> QED BY <1>7, <3>1, <3>2, <3>3 DEF Deliver
 <2>5. InOutput(v)' BY <2>1, <2>2, <2>3, <2>4 DEF InOutput
 <2>6. \A w \in Views \ {v} : channel'[w] = channel[w] /\ reply'[w] = reply[w] /\ view'[w] = view[w]
  BY <1>2, <1>7 DEF Deliver
 <2> QED BY <1>1, <2>3, <2>5, <2>6, OneInOutput DEF ScrollBounds
<1>8. ASSUME NEW v \in Views, CatchUp(v) PROVE ScrollBounds'
 <2>1. view[v].pending \in Seq(Chunks) /\ InOutput(v) /\ view[v] \in ViewRec /\ reply[v].end \in 0..MaxOutput
  BY <1>2 DEF ScrollBounds, InOutput, ViewRec, ReplyRec
 <2> DEFINE caught == IF SessionGone(reply[v]) THEN [text |-> screen[v], last |-> view[v].last]
                      ELSE [text |-> (IF reply[v].reset THEN <<>> ELSE screen[v]) \o reply[v].data,
                            last |-> reply[v].end]
            s == Flushed(view[v].pending, caught)
 <2>2. caught.last \in 0..MaxOutput \cup {Fresh} BY <2>1 DEF InOutput
 <2>3. view' = [view EXCEPT ![v] = [view[v] EXCEPT !.caughtUp = TRUE, !.pending = <<>>, !.last = s.last]]
  BY <1>8 DEF CatchUp
 <2> HIDE DEF caught
 <2>4. s.last \in 0..MaxOutput \cup {Fresh} BY <2>1, <2>2, FlushedEnds DEF InOutput
 <2> HIDE DEF s
 <2>5. view'[v].pending = <<>> /\ view'[v].last = s.last BY <1>2, <2>1, <2>3 DEF ViewRec
 <2>6. reply'[v].end = 0 /\ channel' = channel /\ ring' = ring /\ mounts' = mounts
  BY <1>2, <1>8 DEF CatchUp, NoReply
 <2>7. InOutput(v)' BY <1>2, <2>1, <2>4, <2>5, <2>6 DEF InOutput, Within
 <2>8. \A w \in Views \ {v} : channel'[w] = channel[w] /\ reply'[w] = reply[w] /\ view'[w] = view[w]
  BY <1>2, <1>8 DEF CatchUp
 <2> QED BY <1>1, <2>6, <2>7, <2>8, OneInOutput DEF ScrollBounds
<1>9. ASSUME NEW v \in Views, Unmount(v) PROVE ScrollBounds'
 <2>1. InOutput(v) /\ view[v] \in ViewRec BY <1>2 DEF ScrollBounds
 <2>2. view'[v].pending = <<>> /\ view'[v].last = view[v].last
  BY <1>2, <1>9 DEF Unmount, ViewRec
 <2>3. reply'[v].end = 0 /\ channel' = channel /\ ring' = ring /\ mounts' = mounts
  BY <1>2, <1>9 DEF Unmount, NoReply
 <2>4. InOutput(v)' BY <1>2, <2>1, <2>2, <2>3 DEF InOutput, Within
 <2>5. \A w \in Views \ {v} : channel'[w] = channel[w] /\ reply'[w] = reply[w] /\ view'[w] = view[w]
  BY <1>2, <1>9 DEF Unmount
 <2> QED BY <1>1, <2>3, <2>4, <2>5, OneInOutput DEF ScrollBounds
<1>10. CASE UNCHANGED scrollback BY <1>1, <1>10 DEF scrollback, ScrollBounds, InOutput
<1> QED BY <1>3, <1>4, <1>5, <1>6, <1>7, <1>8, <1>9, <1>10 DEF ScrollbackNext

LEMMA ScrollbackTypes == ScrollBounds => ScrollbackTypeOK
<1> SUFFICES ASSUME ScrollBounds PROVE ScrollbackTypeOK
 OBVIOUS
<1>1. ring \in [start : Nat, end : Nat] /\ ring.start <= ring.end /\ dropped \in BOOLEAN /\ view \in [Views -> ViewRec]
 BY DEF ScrollBounds, ScrollInv, ScrollTypes
<1>2. ring \in [start : 0..MaxOutput, end : 0..MaxOutput]
 <2>1. ring.start \in 0..MaxOutput /\ ring.end \in 0..MaxOutput
  BY <1>1, ScrollbackConstants DEF ScrollBounds
 <2> QED BY <1>1, <2>1
<1>3. \A v \in Views : /\ view[v].mounted \in BOOLEAN /\ view[v].caughtUp \in BOOLEAN
                       /\ view[v].last \in 0..MaxOutput \union {Fresh}
 BY <1>1 DEF ScrollBounds, InOutput, ViewRec
<1> QED BY <1>1, <1>2, <1>3 DEF ScrollBounds, ScrollbackTypeOK

--------------------------------------------------
(* The desktop: each part is at rest while another one steps. *)

DesktopInv == SessionsInv /\ EditsInv /\ FolderInv /\ ScrollInv /\ TelnetInv /\ WindowsInv

LEMMA SessionsAtRest ==
  ASSUME SessionsInv, UNCHANGED sessions
  PROVE  SessionsInv'
BY DEF sessions, SessionsInv, EachSound, Replaces, LitUp, LitFor

LEMMA EditsAtRest ==
  ASSUME EditsInv, UNCHANGED edits
  PROVE  EditsInv'
BY DEF edits, EditsInv

LEMMA FolderAtRest ==
  ASSUME FolderInv, UNCHANGED folder
  PROVE  FolderInv'
BY DEF FolderInv, HandlesFreed

LEMMA DesktopStep ==
  ASSUME DesktopInv, [DesktopNext]_desktop
  PROVE  DesktopInv'
<1>1. /\ SessionsNext \/ UNCHANGED sessions
      /\ EditsNext \/ UNCHANGED edits
      /\ FolderNext \/ UNCHANGED folder
      /\ [ScrollbackNext]_scrollback
      /\ [TelnetNext]_telnet
      /\ [WindowsNext]_tornWindows
 BY DEF DesktopNext, desktop, sftp
<1> QED
 BY <1>1, SessionsStep, SessionsAtRest, EditsStep, EditsAtRest, FolderStep, FolderAtRest,
    ScrollStep, TelnetStep, WindowsStep
    DEF DesktopInv

LEMMA DesktopHolds == DesktopSpec => []DesktopInv
<1>1. DesktopInit => DesktopInv
 <2> SUFFICES ASSUME DesktopInit  PROVE DesktopInv
  OBVIOUS
 <2>1. TelnetInv
  <3>1. CASE part = "telnet" BY <3>1, TelnetStart DEF DesktopInit
  <3>2. CASE part # "telnet"
   <4>1. TelnetAtRest BY <3>2 DEF DesktopInit
   <4>2. local \in Agreed /\ remote \in Agreed BY <4>1 DEF TelnetAtRest, Agreed, Options
   <4>3. answers \in Seq(Sayings) BY <4>1 DEF TelnetAtRest
   <4> QED BY <4>1, <4>2, <4>3, QuietWire DEF TelnetAtRest
  <3> QED BY <3>1, <3>2
 <2> QED BY <2>1, SessionsStart, SftpStart, ScrollStart, WindowsStart DEF DesktopInit, DesktopInv
<1>2. DesktopInv /\ [DesktopNext]_desktop => DesktopInv' BY DesktopStep
<1> QED BY <1>1, <1>2, PTL DEF DesktopSpec

(* sshHandler.ts, ConnectionManager.ts, sftpHandler.ts, sftpListing.ts: for   *)
(* any number of sessions, opened files and entries, a connect under way has  *)
(* a clock and what ends leaves nothing behind, whichever of the window, the  *)
(* server, the proxy and quitting ends it.                                    *)
THEOREM DesktopNothingLeftOver == DesktopSpec => []NothingLeftOver
<1>1. DesktopInv => NothingLeftOver
 BY SessionsRight, EditsRight DEF DesktopInv, FolderInv, NothingLeftOver
<1> QED BY <1>1, DesktopHolds, PTL

(* sftpHandler.ts: with nothing left to send, the server has what was saved   *)
(* last, for any number of opens and saves.                                   *)
THEOREM DesktopSavesArrive == DesktopSpec => []SavesArrive
<1>1. DesktopInv => SavesArrive BY EditsRight DEF DesktopInv
<1> QED BY <1>1, DesktopHolds, PTL

(* Terminal.tsx, SessionScrollback.ts: whatever the ring holds, and however   *)
(* the output, the mounts and the answers of readScrollback interleave, what  *)
(* a terminal shows has no repetition and, while the session is there, no     *)
(* hole.                                                                      *)
THEOREM DesktopLossless == DesktopSpec => []Lossless
<1>1. DesktopInv => Lossless BY ScrollLossless DEF DesktopInv
<1> QED BY <1>1, DesktopHolds, PTL

(* telnetProtocol.ts: however the server's bytes are cut into packets, and    *)
(* whatever it negotiates, the text that reaches the terminal is what it      *)
(* sent as text.                                                              *)
THEOREM DesktopTextIntact == DesktopSpec => []TextIntact
<1>1. DesktopInv => TextIntact BY TelnetIntact DEF DesktopInv
<1> QED BY <1>1, DesktopHolds, PTL

(* workspace.rs: whatever is torn off, torn in, split and closed, and in      *)
(* whichever order the requests get to Rust, no pane is in two tabs.          *)
THEOREM DesktopOnePlace == DesktopSpec => []OnePlace
<1>1. DesktopInv => OnePlace BY WindowsPlaces DEF DesktopInv
<1> QED BY <1>1, DesktopHolds, PTL

(* windowManager.ts: for any number of tabs, windows, moves of the user and   *)
(* failures, a pane is gone only if it, its tab or its window was closed, or  *)
(* a restore found its tab docked by another request.                         *)
THEOREM DesktopNothingLost == DesktopSpec => []NothingLost
<1>1. DesktopInv => NothingLost BY WindowsPlaces DEF DesktopInv
<1> QED BY <1>1, DesktopHolds, PTL

(* All of it together: terminals, panes and edited files lose nothing on the  *)
(* way, for any number of them.                                               *)
THEOREM DesktopShownRight == DesktopSpec => []ShownRight
<1>1. DesktopInv => ShownRight
 BY ScrollLossless, TelnetIntact, WindowsPlaces, EditsRight DEF DesktopInv, ShownRight
<1> QED BY <1>1, DesktopHolds, PTL

--------------------------------------------------
(* The bounds of the edits and of a listing: the halves of the file and of    *)
(* its copies are versions that were saved, or the hole of an upload.         *)

Versions == (0..Hole) \X (0..Hole)

EditBounds == saves <= MaxSaves /\ served \in Versions /\ \A o \in Opens : sync[o].copy \in Versions

SftpBounds == EditsInv /\ FolderInv /\ EditBounds /\ folder.entries <= MaxEntries

LEMMA VersionHalves ==
  ASSUME NEW f \in Versions
  PROVE  /\ f[1] \in 0..Hole /\ f[2] \in 0..Hole
         /\ \A g \in Versions : <<f[1], Hole>> \in Versions /\ [f EXCEPT ![2] = g[2]] \in Versions
<1>1. PICK a \in 0..Hole, b \in 0..Hole : f = <<a, b>> BY DEF Versions
<1>2. Hole \in 0..Hole BY SftpConstants DEF Hole
<1>3. ASSUME NEW g \in Versions PROVE [f EXCEPT ![2] = g[2]] \in Versions
 <2>1. PICK c \in 0..Hole, d \in 0..Hole : g = <<c, d>> BY DEF Versions
 <2>2. [f EXCEPT ![2] = g[2]] = <<a, d>> BY <1>1, <2>1
 <2> QED BY <2>2 DEF Versions
<1>4. f[1] = a /\ f[2] = b BY <1>1
<1>5. <<f[1], Hole>> \in Versions BY <1>2, <1>4 DEF Versions
<1> QED BY <1>3, <1>4, <1>5

LEMMA EditBounded ==
  ASSUME EditsInv, EditBounds, NEW o \in Opens, NEW n, Set(o, n), n.copy \in Versions,
         served' = served, saves' <= MaxSaves
  PROVE  EditBounds'
<1>1. sync'[o] = n /\ \A p \in Opens \ {o} : sync'[p] = sync[p] BY DEF EditsInv, Set
<1> QED BY <1>1 DEF EditBounds

(* What an open becomes has the copy it had. *)
LEMMA CopyStays ==
  ASSUME NEW r \in SyncRec
  PROVE  /\ Created(r).copy = r.copy /\ Registered(r).copy = r.copy /\ Uploading(r).copy = r.copy
         /\ DoUpload(r).copy = r.copy /\ Ended(r).copy = r.copy /\ Stopped(r).copy = r.copy
<1>1. Created(r).copy = r.copy BY DEF Created, SyncRec
<1>2. Registered(r).copy = r.copy BY DEF Registered, SyncRec
<1>3. Uploading(r).copy = r.copy /\ [r EXCEPT !.pending = TRUE].copy = r.copy
 BY DEF Uploading, SyncRec
<1>4. Ended(r).copy = r.copy
 <2>1. [r EXCEPT !.upload = "no"].copy = r.copy BY DEF SyncRec
 <2>2. Uploading([r EXCEPT !.upload = "no"]).copy = r.copy BY DEF Uploading, SyncRec
 <2> QED BY <2>1, <2>2 DEF Ended
<1>5. Stopped(r).copy = r.copy BY DEF Stopped, SyncRec
<1> QED BY <1>1, <1>2, <1>3, <1>4, <1>5 DEF DoUpload

LEMMA EditBoundsStep ==
  ASSUME EditsInv, EditBounds, EditsNext
  PROVE  EditBounds'
<1>1. saves <= MaxSaves /\ saves \in Nat /\ served \in Versions /\ MaxSaves \in Nat
 BY SftpConstants DEF EditsInv, EditBounds
<1>2. ASSUME NEW o \in Opens PROVE sync[o] \in SyncRec /\ sync[o].copy \in Versions
 BY DEF EditsInv, EditBounds
<1>3. ASSUME NEW o \in Opens, OpenFile(o) PROVE EditBounds'
 <2> DEFINE r == [sync[o] EXCEPT !.stage = "download", !.overwritten = FALSE]
 <2>1. r \in SyncRec /\ r.copy = sync[o].copy BY <1>2 DEF SyncRec
 <2>2. Set(o, Created(r)) /\ UNCHANGED <<served, saves>> BY <1>3 DEF OpenFile
 <2> HIDE DEF r
 <2> QED BY <1>1, <1>2, <2>1, <2>2, CopyStays, EditBounded
<1>4. ASSUME NEW o \in Opens, DownloadEnds(o) PROVE EditBounds'
 <2> DEFINE r == [sync[o] EXCEPT !.copy = served]
 <2>1. r \in SyncRec /\ r.copy = served BY <1>2 DEF SyncRec, EditsInv
 <2>2. Set(o, Registered(r)) /\ UNCHANGED <<served, saves>> BY <1>4 DEF DownloadEnds
 <2> HIDE DEF r
 <2> QED BY <1>1, <2>1, <2>2, CopyStays, EditBounded
<1>5. ASSUME NEW o \in Opens, DownloadFails(o) PROVE EditBounds'
 <2> DEFINE r == [sync[o] EXCEPT !.stage = "failed"]
 <2>1. r.copy = sync[o].copy BY <1>2 DEF SyncRec
 <2>2. Set(o, r) /\ UNCHANGED <<served, saves>> BY <1>5 DEF DownloadFails
 <2> HIDE DEF r
 <2> QED BY <1>1, <1>2, <2>1, <2>2, EditBounded
<1>6. ASSUME NEW o \in Opens, Save(o) PROVE EditBounds'
 <2> DEFINE r == [sync[o] EXCEPT !.copy = Whole(saves'), !.timer = TRUE]
 <2>1. saves' \in 0..Hole /\ saves' <= MaxSaves BY <1>1, <1>6 DEF Save, Hole
 <2>2. r.copy = Whole(saves') BY <1>2 DEF SyncRec
 <2>3. Whole(saves') \in Versions BY <2>1 DEF Whole, Versions
 <2>4. Set(o, r) /\ UNCHANGED served BY <1>6 DEF Save
 <2> HIDE DEF r
 <2> QED BY <2>1, <2>2, <2>3, <2>4, EditBounded
<1>7. ASSUME NEW o \in Opens, DebounceFires(o) PROVE EditBounds'
 <2> DEFINE r == [sync[o] EXCEPT !.timer = FALSE]
 <2>1. r \in SyncRec /\ r.copy = sync[o].copy BY <1>2 DEF SyncRec
 <2>2. Set(o, DoUpload(r)) /\ UNCHANGED <<served, saves>> BY <1>7 DEF DebounceFires
 <2> HIDE DEF r
 <2> QED BY <1>1, <1>2, <2>1, <2>2, CopyStays, EditBounded
<1>8. ASSUME NEW o \in Opens, Writes(o) PROVE EditBounds'
 <2>1. served' \in {<<sync[o].copy[1], Hole>>, [served EXCEPT ![2] = sync[o].copy[2]]}
  BY <1>8 DEF Writes, ReadChunk
 <2>2. served' \in Versions BY <1>1, <1>2, <2>1, VersionHalves
 <2>3. ASSUME NEW p \in Opens PROVE sync'[p].copy \in Versions
  <3>1. sync'[p] \in {[sync[p] EXCEPT !.upload = "one"], [sync[p] EXCEPT !.upload = "both"],
                      [sync[p] EXCEPT !.overwritten = TRUE]}
   BY <1>8 DEF Writes
  <3>2. sync'[p].copy = sync[p].copy BY <1>2, <3>1 DEF SyncRec
  <3> QED BY <1>2, <3>2
 <2> QED BY <1>1, <1>8, <2>2, <2>3 DEF Writes, EditBounds
<1>9. ASSUME NEW o \in Opens, UploadEnds(o) PROVE EditBounds'
 <2> DEFINE r == [sync[o] EXCEPT !.failed = TRUE]
 <2>1. r \in SyncRec /\ r.copy = sync[o].copy BY <1>2 DEF SyncRec
 <2>2. (Set(o, Ended(sync[o])) \/ Set(o, Ended(r))) /\ UNCHANGED <<served, saves>>
  BY <1>9 DEF UploadEnds
 <2> HIDE DEF r
 <2> QED BY <1>1, <1>2, <2>1, <2>2, CopyStays, EditBounded
<1>10. ASSUME NEW o \in Opens, EditStops(o) PROVE EditBounds'
 BY <1>1, <1>2, <1>10, CopyStays, EditBounded DEF EditStops
<1>11. CASE SessionEnds
 <2>1. ASSUME NEW p \in Opens PROVE sync'[p].copy \in Versions
  <3>1. sync'[p] \in {Stopped(sync[p]), sync[p]} BY <1>11 DEF SessionEnds
  <3> QED BY <1>2, <3>1, CopyStays
 <2> QED BY <1>1, <1>11, <2>1 DEF SessionEnds, EditBounds
<1> QED BY <1>3, <1>4, <1>5, <1>6, <1>7, <1>8, <1>9, <1>10, <1>11 DEF EditsNext

LEMMA EntriesBounded ==
  ASSUME FolderInv, folder.entries <= MaxEntries, FolderNext
  PROVE  folder'.entries <= MaxEntries
<1>1. folder \in FolderRec /\ MaxEntries \in Nat BY SftpConstants DEF FolderInv
<1>2. ASSUME NEW f \in FolderRec, NEW answer PROVE Finished(f, answer).entries = f.entries
 BY DEF Finished, FolderRec
<1>3. CASE ListFolder BY <1>1, <1>3 DEF ListFolder, NoListing
<1>4. CASE DirOpens BY <1>1, <1>4 DEF DirOpens, Opened, FolderRec
<1>5. CASE DirRefused
 <2> DEFINE f == [folder EXCEPT !.handle = "refused"]
 <2>1. f \in FolderRec /\ f.entries = folder.entries BY <1>1 DEF FolderRec
 <2>2. folder' \in {f, Finished(f, "error")} BY <1>5 DEF DirRefused
 <2> HIDE DEF f
 <2> QED BY <1>2, <2>1, <2>2
<1>6. CASE DirReads
 <2>1. PICK n \in folder.entries..MaxEntries :
         folder' \in {[folder EXCEPT !.entries = n], Finished([folder EXCEPT !.entries = n], "truncated")}
  BY <1>6 DEF DirReads
 <2> DEFINE f == [folder EXCEPT !.entries = n]
 <2>2. n \in Nat /\ n <= MaxEntries BY <1>1, <2>1 DEF FolderRec
 <2>3. f \in FolderRec /\ f.entries = n BY <1>1, <2>2 DEF FolderRec
 <2>4. folder' \in {f, Finished(f, "truncated")} BY <2>1
 <2> HIDE DEF f
 <2> QED BY <1>2, <2>2, <2>3, <2>4
<1>7. CASE DirEnds BY <1>1, <1>2, <1>7 DEF DirEnds
<1>8. CASE Deadline BY <1>1, <1>2, <1>8 DEF Deadline
<1> QED BY <1>3, <1>4, <1>5, <1>6, <1>7, <1>8 DEF FolderNext

LEMMA SftpBoundsStart == SftpInit => SftpBounds
<1> SUFFICES ASSUME SftpInit PROVE SftpBounds
 OBVIOUS
<1>1. Whole(0) \in Versions BY SftpConstants DEF Whole, Versions, Hole
<1>2. saves = 0 /\ served = Whole(0) /\ folder.entries = 0 /\ \A o \in Opens : sync[o].copy = Whole(0)
 BY DEF SftpInit, NotOpened, NoListing
<1> QED BY <1>1, <1>2, SftpStart, SftpConstants DEF SftpBounds, EditBounds

LEMMA SftpBoundsStep ==
  ASSUME SftpBounds, EditsNext \/ UNCHANGED edits, FolderNext \/ UNCHANGED folder
  PROVE  SftpBounds'
<1>1. EditsInv' /\ FolderInv' BY EditsStep, EditsAtRest, FolderStep, FolderAtRest DEF SftpBounds
<1>2. EditBounds' BY EditBoundsStep DEF SftpBounds, EditBounds, edits
<1>3. folder'.entries <= MaxEntries BY EntriesBounded DEF SftpBounds
<1> QED BY <1>1, <1>2, <1>3 DEF SftpBounds

LEMMA SftpTypes == SftpBounds => SftpTypeOK
<1> SUFFICES ASSUME SftpBounds PROVE SftpTypeOK
 OBVIOUS
<1>1. connected \in BOOLEAN /\ saves \in 0..MaxSaves
 BY SftpConstants DEF SftpBounds, EditBounds, EditsInv
<1>2. \A h \in {1, 2} : served[h] \in {Hole} \cup (0..MaxSaves)
 <2>1. 0..Hole = {Hole} \cup (0..MaxSaves) BY SftpConstants DEF Hole
 <2> QED BY <2>1, VersionHalves DEF SftpBounds, EditBounds
<1>3. \A o \in Opens : sync[o] \in SyncRec BY DEF SftpBounds, EditsInv
<1>4. folder \in FolderRec /\ folder.entries \in 0..MaxEntries
 BY SftpConstants DEF SftpBounds, FolderInv, FolderRec
<1> QED BY <1>1, <1>2, <1>3, <1>4 DEF SftpTypeOK, SyncRec, FolderRec

--------------------------------------------------
(* The types of the desktop, from the invariant of each part. *)

LEMMA SessionsTypes == SessionsInv => SessionsTypeOK
<1> SUFFICES ASSUME SessionsInv PROVE SessionsTypeOK
 OBVIOUS
<1>1. \A s \in Sessions : session[s] \in SessionRec BY DEF SessionsInv
<1> QED BY <1>1 DEF SessionsInv, SessionsTypeOK, SessionRec

LEMMA TelnetTypes == TelnetInv => TelnetTypeOK
<1> SUFFICES ASSUME TelnetInv PROVE TelnetTypeOK
 OBVIOUS
<1>1. Client.local = local /\ Client.remote = remote /\ Client.refusals = refusals /\ Client \in State
 BY DEF Client, TelnetInv
<1>2. local \in Agreed /\ remote \in Agreed /\ refusals \in [ours : Counts, theirs : Counts]
 BY <1>1, StateIs
<1> QED BY <1>2 DEF TelnetInv, TelnetTypeOK, Agreed, Counts

LEMMA LockRests == LockAtRest => LockInv
<1> SUFFICES ASSUME LockAtRest PROVE LockInv
 OBVIOUS
<1>1. TypeOK /\ Headed /\ PhaseInv /\ NothingOpenBehind /\ OwedInv
 BY AppLockConstants
    DEF LockAtRest, TypeOK, Headed, PhaseInv, NothingOpenBehind, OwedInv, Phases, Stages, Idle
<1>2. Active = {} BY <1>1 DEF LockAtRest, Active
<1>3. Chained([u \in Unlocks |-> 0], 0) BY <1>2 DEF LockAtRest, Chained
<1>4. [u \in Unlocks |-> 0] \in [Unlocks -> Nat] /\ 0 \in Nat OBVIOUS
<1> QED BY <1>1, <1>3, <1>4 DEF LockInv, Chain

DesktopBounds ==
  LockInv /\ SessionsInv /\ ScrollBounds /\ TelnetInv /\ PayloadsInv /\ SftpBounds

LEMMA DesktopBoundsStep == DesktopBounds /\ [DesktopNext]_desktop => DesktopBounds'
<1> SUFFICES ASSUME DesktopBounds, [DesktopNext]_desktop PROVE DesktopBounds'
 OBVIOUS
<1>1. /\ [Next]_vars
      /\ SessionsNext \/ UNCHANGED sessions
      /\ EditsNext \/ UNCHANGED edits
      /\ FolderNext \/ UNCHANGED folder
      /\ [ScrollbackNext]_scrollback
      /\ [TelnetNext]_telnet
      /\ [WindowsNext]_tornWindows
 BY DEF DesktopNext, desktop, sftp
<1>2. LockInv' /\ SessionsInv' /\ TelnetInv'
 BY <1>1, LockNextInv, SessionsStep, SessionsAtRest, TelnetStep DEF DesktopBounds
<1>3. ScrollBounds' /\ PayloadsInv' /\ SftpBounds'
 BY <1>1, ScrollBoundsStep, PayloadsStep, SftpBoundsStep DEF DesktopBounds
<1> QED BY <1>2, <1>3 DEF DesktopBounds

LEMMA DesktopBoundsStart == DesktopInit /\ DesktopInv => DesktopBounds
<1> SUFFICES ASSUME DesktopInit, DesktopInv PROVE DesktopBounds
 OBVIOUS
<1>1. LockInv BY LockInitInv, LockRests DEF DesktopInit
<1>2. ScrollBounds /\ PayloadsInv /\ SftpBounds
 BY ScrollBoundsStart, PayloadsStart, SftpBoundsStart DEF DesktopInit
<1> QED BY <1>1, <1>2 DEF DesktopBounds, DesktopInv

LEMMA DesktopBoundsHold == DesktopSpec => []DesktopBounds
<1>1. DesktopInit /\ DesktopInv => DesktopBounds BY DesktopBoundsStart
<1>2. DesktopBounds /\ [DesktopNext]_desktop => DesktopBounds' BY DesktopBoundsStep
<1> QED BY <1>1, <1>2, DesktopHolds, PTL DEF DesktopSpec

(* The desktop's parts, for any number of sessions, tabs, windows, opens and  *)
(* requests and any bounds: every variable keeps to the values the code gives *)
(* it; a window's revision is never ahead of main's, an offset never beyond   *)
(* the output, and nothing but a saved version or an upload's hole is served. *)
THEOREM DesktopTypes == DesktopSpec => []DesktopTypeOK
<1>1. DesktopBounds => DesktopTypeOK
 <2> SUFFICES ASSUME DesktopBounds PROVE DesktopTypeOK
  OBVIOUS
 <2>1. TypeOK BY DEF DesktopBounds, LockInv
 <2>2. SessionsTypeOK /\ TelnetTypeOK BY SessionsTypes, TelnetTypes DEF DesktopBounds
 <2>3. ScrollbackTypeOK /\ WindowsTypeOK /\ SftpTypeOK
  BY ScrollbackTypes, WindowsTypes, SftpTypes DEF DesktopBounds
 <2> QED BY <2>1, <2>2, <2>3 DEF DesktopTypeOK
<1> QED BY <1>1, DesktopBoundsHold, PTL

=============================================================================
