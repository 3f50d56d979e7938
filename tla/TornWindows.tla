---------------------------- MODULE TornWindows ----------------------------
(* Tabs that are torn off into windows of their own. The layout is Rust's     *)
(* (tidal-engine; requests run one at a time under its lock); tidalBridge.ts  *)
(* passes its payloads on; windowManager.ts owns the torn windows;            *)
(* sessionStore.ts and TornWindowApp.tsx are what the windows show. A tab is  *)
(* its set of panes: the shape of its tree is left out, and with it why a     *)
(* subtree cannot be put back where it came from.                             *)

EXTENDS Naturals, Sequences, FiniteSets

CONSTANTS
  Tabs,      \* tab ids
  Panes,     \* leaves
  Windows,   \* torn windows
  Home,      \* the tab open at first
  HomePanes, \* and its panes
  FirstWindow, \* the window of the home tab, where that is torn off at first
  NoTab, NoWindow,
  MaxMoves   \* what the user does, and what goes wrong, at most

ASSUME WindowsConstants ==
  Home \in Tabs /\ FirstWindow \in Windows /\ HomePanes \subseteq Panes /\ HomePanes # {} /\ MaxMoves \in Nat

VARIABLES
  layout,    \* per tab, its panes, whether it is torn off and where it came from
  rev,       \* of the last payload emitted
  syncs,   \* payloads on their way to the main process
  window,    \* per torn window, what the main process knows of it
  tabWindow, \* TornWindowManager.tabWindows
  calls,     \* requests and replies on their way between windows, main process and Rust
  mail,      \* payloads on their way to the main window ("main") and the torn ones
  main,      \* per tab, what the main window shows, with the revision applied
  tornScreen,    \* per torn window, what it shows
  moves,     \* of the user and of bad luck
  kept       \* history: panes that neither the user closed nor Abandon gave up

tornWindows ==
  <<layout, rev, syncs, window, tabWindow, calls, mail, main, tornScreen, moves, kept>>

Unmade == [panes |-> {}, torn |-> FALSE, origin |-> NoTab, made |-> FALSE]
Removed == [Unmade EXCEPT !.made = TRUE]
Exists(t) == layout[t].panes # {}

Payload(l, t, r) == [tab |-> t, rev |-> r, panes |-> l[t].panes, torn |-> l[t].torn]
NoPayload == [tab |-> NoTab, rev |-> 0, panes |-> {}, torn |-> FALSE]

(* What the main window keeps of a payload. *)
Shown(p) == [rev |-> p.rev, panes |-> p.panes, torn |-> p.torn]

(* A window before it is opened. *)
NoneYet == [life |-> "none", tab |-> NoTab, snapshot |-> NoPayload, released |-> FALSE]

(* What a torn renderer holds: its tab once it knows it, the payloads that    *)
(* came before that, and what it shows.                                       *)
Blank == [own |-> NoTab, rev |-> 0, panes |-> {}, early |-> <<>>, listening |-> FALSE]

(* The home tab is docked, or torn off in a window that shows it; which of    *)
(* the two, the revision of its payload tells.                                *)
HomePayload(torn) ==
  [tab |-> Home, rev |-> IF torn THEN 2 ELSE 1, panes |-> HomePanes, torn |-> torn]

HomeWindow(w, torn) ==
  IF torn /\ w = FirstWindow
  THEN [life |-> "open", tab |-> Home, snapshot |-> HomePayload(TRUE), released |-> FALSE]
  ELSE NoneYet

HomeScreen(w, torn) ==
  IF torn /\ w = FirstWindow
  THEN [Blank EXCEPT !.own = Home, !.rev = 2, !.panes = HomePanes, !.listening = TRUE]
  ELSE Blank

WindowsInit == \E torn \in BOOLEAN :
  /\ layout = [t \in Tabs |-> IF t = Home
                  THEN [panes |-> HomePanes, torn |-> torn, origin |-> NoTab, made |-> TRUE] ELSE Unmade]
  /\ rev = HomePayload(torn).rev /\ syncs = <<>>
  /\ window = [w \in Windows |-> HomeWindow(w, torn)]
  /\ tabWindow = [t \in Tabs |-> IF torn /\ t = Home THEN FirstWindow ELSE NoWindow]
  /\ calls = {}
  /\ mail = [w \in Windows \cup {"main"} |-> <<>>]
  /\ main = [t \in Tabs |-> IF t = Home THEN Shown(HomePayload(torn)) ELSE Shown(NoPayload)]
  /\ tornScreen = [w \in Windows |-> HomeScreen(w, torn)]
  /\ moves = 0 /\ kept = Panes

--------------------------------------------------
(* Rust: one request at a time, its payloads emitted under the lock *)

Emits(l, tabs) ==
  /\ layout' = l
  /\ rev' = rev + Len(tabs)
  /\ syncs' = syncs \o [i \in 1..Len(tabs) |-> Payload(l, tabs[i], rev + i)]

Refuses == UNCHANGED <<layout, rev, syncs>>

(* tear_in: back into the tab it came from, where that is there and the tree   *)
(* allows it; otherwise a docked tab again.                                   *)
TearsIn(t, target) ==
  /\ layout[t].torn
  /\ \/ /\ target = t
        /\ Emits([layout EXCEPT ![t].torn = FALSE, ![t].origin = NoTab], <<t>>)
     \/ /\ target = layout[t].origin /\ target # NoTab
        /\ Exists(target) /\ ~layout[target].torn
        /\ Emits([layout EXCEPT ![target].panes = @ \cup layout[t].panes, ![t] = Removed],
                 <<target, t>>)

ClosesTab(t) ==
  IF Exists(t) THEN Emits([layout EXCEPT ![t] = Removed], <<t>>) ELSE Refuses

Reply(call, replies) == calls' = (calls \ {call}) \cup replies

(* requestTearOff: the whole tab, or a subtree into a tab of its own. *)
Torn(call, t, l, tabs) ==
  /\ Emits(l, tabs)
  /\ Reply(call, {[do |-> "open", snapshot |-> Payload(l, t, rev + Len(tabs))]})

TearOff(call) ==
  /\ call.do = "tearOff" /\ UNCHANGED <<window, tabWindow, mail, main, tornScreen, moves, kept>>
  /\ \/ /\ \A t \in Tabs : call.panes \subseteq layout[t].panes => layout[t].torn
        /\ Refuses /\ Reply(call, {})
     \/ \E t \in Tabs :
             /\ ~layout[t].torn /\ layout[t].panes = call.panes
             /\ Torn(call, t, [layout EXCEPT ![t].torn = TRUE, ![t].origin = NoTab], <<t>>)
     \/ \E t, new \in Tabs :
             /\ ~layout[t].torn /\ call.panes \subseteq layout[t].panes
             /\ call.panes # layout[t].panes /\ ~layout[new].made
             /\ Torn(call, new, [layout EXCEPT
                        ![t].panes = @ \ call.panes,
                        ![new] = [panes |-> call.panes, torn |-> TRUE, origin |-> t, made |-> TRUE]],
                     <<t, new>>)

(* requestTearIn for the window's button. *)
TearIn(call) ==
  /\ call.do = "tearIn" /\ UNCHANGED <<window, tabWindow, mail, main, tornScreen, moves, kept>>
  /\ LET t == window[call.window].tab IN
       \/ \E target \in Tabs :
            TearsIn(t, target) /\ Reply(call, {[do |-> "tornIn", window |-> call.window, tab |-> target]})
       \/ /\ ~layout[t].torn
          /\ Refuses /\ Reply(call, {})

(* restoreOrphanTab: tear it in, or else close it. That is refused only where *)
(* another request has docked or closed the tab.                              *)
Restore(call) ==
  /\ call.do = "restore" /\ UNCHANGED <<window, tabWindow, mail, main, tornScreen, moves, kept>>
  /\ \/ \E target \in Tabs :
          TearsIn(call.tab, target) /\ Reply(call, {[do |-> "restored", window |-> call.window]})
     \/ /\ ~layout[call.tab].torn /\ Refuses
        /\ Reply(call, {[do |-> "abandon", tab |-> call.tab, window |-> call.window,
                         meant |-> ~layout[call.tab].torn]})

(* History: where closing is meant, the panes of the tab are not missed. *)
GivenUp(call) == kept' = IF call.meant THEN kept \ layout[call.tab].panes ELSE kept

Abandon(call) ==
  /\ call.do = "abandon" /\ UNCHANGED <<window, tabWindow, mail, main, tornScreen, moves>>
  /\ GivenUp(call) /\ ClosesTab(call.tab)
  /\ Reply(call, {[do |-> "restored", window |-> call.window]})

(* requestCloseTab, for a window the user closed or the main window's tab bar. *)
CloseTab(call) ==
  /\ call.do = "close" /\ UNCHANGED <<window, tabWindow, mail, main, tornScreen, moves>>
  /\ GivenUp(call) /\ ClosesTab(call.tab) /\ Reply(call, {})

(* getTabSnapshot: stamped with the last revision of any tab. *)
Snapshot(t) == IF Exists(t) THEN Payload(layout, t, rev) ELSE NoPayload

TakeSnapshot(call) ==
  /\ UNCHANGED <<layout, rev, syncs, window, tabWindow, mail, main, tornScreen, moves, kept>>
  /\ \/ /\ call.do = "identity"
        /\ Reply(call, {[do |-> "identified", window |-> call.window,
                         snapshot |-> Snapshot(window[call.window].tab)]})
     \/ /\ call.do = "pull"
        /\ Reply(call, {[do |-> "pulled", snapshot |-> Snapshot(call.tab)]})

Rust == \E call \in calls :
  TearOff(call) \/ TearIn(call) \/ Restore(call) \/ Abandon(call) \/ CloseTab(call) \/ TakeSnapshot(call)

--------------------------------------------------
(* The main process *)

(* releaseWindow: the window closes without its tab. *)
Releasing(w) == [window[w] EXCEPT !.released = TRUE,
                                  !.life = IF @ = "open" THEN "closing" ELSE @]
NoLonger(w) ==
  [t \in Tabs |-> IF t = window[w].tab /\ tabWindow[t] = w THEN NoWindow ELSE tabWindow[t]]
Release(w) == window' = [window EXCEPT ![w] = Releasing(w)] /\ tabWindow' = NoLonger(w)

(* A slip: every payload counts. *)
OutdatedNever(w, p) == FALSE

(* A payload older than what the window was opened with is about an earlier   *)
(* life of its tab.                                                           *)
Outdated(w, p) == window[w].snapshot.rev > 0 /\ p.rev <= window[w].snapshot.rev

(* handleTabSync. *)
Follow(p) ==
  LET w == tabWindow[p.tab] IN
  IF w = NoWindow \/ Outdated(w, p) THEN UNCHANGED <<window, tabWindow>>
  ELSE IF p.panes = {} \/ ~p.torn THEN Release(w)
  ELSE window' = [window EXCEPT ![w].snapshot = p] /\ UNCHANGED tabWindow

Listening(w) == w = "main" \/ (w \in Windows /\ tornScreen[w].listening)

(* The callback for a payload: the manager first, then every window. *)
Broadcast ==
  /\ syncs # <<>> /\ syncs' = Tail(syncs)
  /\ LET p == Head(syncs) IN
       /\ Follow(p)
       /\ mail' = [w \in DOMAIN mail |-> IF Listening(w) THEN Append(mail[w], p) ELSE mail[w]]
  /\ UNCHANGED <<layout, rev, calls, main, tornScreen, moves, kept>>

(* createTornWindow; where it throws, the tab is put back. *)
OpenWindow(call) ==
  /\ call.do = "open" /\ UNCHANGED <<layout, rev, syncs, mail, main, moves, kept>>
  /\ LET t == call.snapshot.tab IN
       \/ \E w \in Windows :
            /\ window[w].life = "none"
            /\ window' = [window EXCEPT ![w] =
                 [life |-> "open", tab |-> t, snapshot |-> call.snapshot, released |-> FALSE]]
            /\ tabWindow' = [tabWindow EXCEPT ![t] = w]
            /\ UNCHANGED tornScreen /\ Reply(call, {})
       \/ /\ Reply(call, {[do |-> "restore", tab |-> t, window |-> NoWindow]})
          /\ UNCHANGED <<window, tabWindow, tornScreen>>

(* The reply of window:get-torn-identity: a window whose tab is gone or        *)
(* docked has nothing left to show.                                           *)
Identify(call) ==
  /\ call.do = "identified" /\ UNCHANGED <<layout, rev, syncs, mail, main, tornScreen, moves, kept>>
  /\ LET w == call.window s == call.snapshot IN
       \/ /\ window[w].life = "closed"
          /\ Reply(call, {}) /\ UNCHANGED <<window, tabWindow>>
       \/ /\ window[w].life # "closed" /\ (s.panes = {} \/ ~s.torn)
          /\ Release(w) /\ Reply(call, {})
       \/ /\ window[w].life # "closed" /\ s.panes # {} /\ s.torn
          /\ LET newer == IF s.rev >= window[w].snapshot.rev THEN s ELSE window[w].snapshot IN
               /\ window' = [window EXCEPT ![w].snapshot = newer]
               /\ Reply(call, {[do |-> "identity known", window |-> w, snapshot |-> newer]})
          /\ UNCHANGED tabWindow

(* The rest of window:tear-in; the main window is told where to look, and     *)
(* pulls the tab if it does not have it yet.                                  *)
TornIn(call) ==
  /\ call.do = "tornIn"
  /\ Release(call.window)
  /\ Reply(call, {[do |-> "pull", tab |-> call.tab]})
  /\ UNCHANGED <<layout, rev, syncs, mail, main, tornScreen, moves, kept>>

(* A slip: a window that was let go takes its tab along. *)
ClosesWithItAlways(w) == TRUE

(* 'closed': unless the window was released, its tab goes with it. *)
ClosesWithIt(w) == ~window[w].released

Closed(w) ==
  /\ window[w].life = "closing"
  /\ window' = [window EXCEPT ![w].life = "closed"]
  /\ tabWindow' = NoLonger(w)
  /\ tornScreen' = [tornScreen EXCEPT ![w] = Blank] /\ mail' = [mail EXCEPT ![w] = <<>>]
  /\ calls' = IF ClosesWithIt(w)
               THEN calls \cup {[do |-> "close", tab |-> window[w].tab, meant |-> ~window[w].released]}
               ELSE calls
  /\ UNCHANGED <<layout, rev, syncs, main, moves, kept>>

(* The end of tearBackIn: the window is destroyed. *)
Restored(call) ==
  /\ call.do = "restored" /\ Reply(call, {})
  /\ IF call.window = NoWindow
     THEN UNCHANGED <<window, tornScreen, mail>>
     ELSE /\ window' = [window EXCEPT ![call.window].life = "closed"]
          /\ tornScreen' = [tornScreen EXCEPT ![call.window] = Blank]
          /\ mail' = [mail EXCEPT ![call.window] = <<>>]
  /\ UNCHANGED <<layout, rev, syncs, tabWindow, main, moves, kept>>

MainProcess ==
  \/ Broadcast
  \/ \E call \in calls : OpenWindow(call) \/ Identify(call) \/ TornIn(call) \/ Restored(call)
  \/ \E w \in Windows : Closed(w)

--------------------------------------------------
(* What the windows show *)

(* syncTidalTree. *)
Synced(p) ==
  IF p.rev <= main[p.tab].rev THEN main
  ELSE [main EXCEPT ![p.tab] = Shown(p)]

ReadMail ==
  /\ mail["main"] # <<>>
  /\ main' = Synced(Head(mail["main"]))
  /\ mail' = [mail EXCEPT !["main"] = Tail(@)]
  /\ UNCHANGED <<layout, rev, syncs, window, tabWindow, calls, tornScreen, moves, kept>>

(* The reply of tidal:get-tab, on another path than the payloads. *)
Pulled(call) ==
  /\ call.do = "pulled" /\ Reply(call, {})
  /\ main' = IF call.snapshot.panes = {} THEN main ELSE Synced(call.snapshot)
  /\ UNCHANGED <<layout, rev, syncs, window, tabWindow, mail, tornScreen, moves, kept>>

(* TornWindowApp: a payload for its own tab, if it is newer. *)
Applied(s, p) ==
  IF p.tab # s.own \/ p.rev <= s.rev THEN s ELSE [s EXCEPT !.rev = p.rev, !.panes = p.panes]

(* It listens first and asks for its identity then. *)
Load(w) ==
  /\ window[w].life = "open" /\ ~tornScreen[w].listening
  /\ tornScreen' = [tornScreen EXCEPT ![w] = [Blank EXCEPT !.listening = TRUE]]
  /\ calls' = calls \cup {[do |-> "identity", window |-> w]}
  /\ UNCHANGED <<layout, rev, syncs, window, tabWindow, mail, main, moves, kept>>

Knows(w, s) ==
  LET f[i \in 0..Len(tornScreen[w].early)] ==
        IF i = 0 THEN Applied([tornScreen[w] EXCEPT !.own = s.tab], s)
        ELSE Applied(f[i - 1], tornScreen[w].early[i])
  IN [f[Len(tornScreen[w].early)] EXCEPT !.early = <<>>]

LearnIdentity(call) ==
  /\ call.do = "identity known" /\ Reply(call, {})
  /\ tornScreen' = IF tornScreen[call.window].listening
               THEN [tornScreen EXCEPT ![call.window] = Knows(call.window, call.snapshot)] ELSE tornScreen
  /\ UNCHANGED <<layout, rev, syncs, window, tabWindow, mail, main, moves, kept>>

ReadTornMail(w) ==
  /\ mail[w] # <<>> /\ tornScreen[w].listening
  /\ mail' = [mail EXCEPT ![w] = Tail(@)]
  /\ tornScreen' = [tornScreen EXCEPT ![w] =
       IF tornScreen[w].own = NoTab THEN [tornScreen[w] EXCEPT !.early = Append(@, Head(mail[w]))]
       ELSE Applied(tornScreen[w], Head(mail[w]))]
  /\ UNCHANGED <<layout, rev, syncs, window, tabWindow, calls, main, moves, kept>>

Renderers ==
  \/ ReadMail
  \/ \E call \in calls : Pulled(call) \/ LearnIdentity(call)
  \/ \E w \in Windows : Load(w) \/ ReadTornMail(w)

--------------------------------------------------
(* What the user does, and what goes wrong *)

Move == moves < MaxMoves /\ moves' = moves + 1
Ask(call) == calls' = calls \cup {call}

(* The panes the main window shows in its own tabs, as it knows them. *)
Docked(t) == main[t].panes # {} /\ ~main[t].torn

(* window:tear-off, once at a time for a pane, while there are tab ids left. *)
AskTearOff(t) ==
  /\ Move /\ Docked(t)
  /\ Cardinality({u \in Tabs : ~layout[u].made}) > Cardinality({call \in calls : call.do = "tearOff"})
  /\ \E ps \in {main[t].panes} \cup {{p} : p \in main[t].panes} :
       LET call == [do |-> "tearOff", panes |-> ps] IN call \notin calls /\ Ask(call)
  /\ UNCHANGED <<layout, rev, syncs, window, tabWindow, mail, main, tornScreen, kept>>

(* tidal:split of a pane on tornScreen, and the pull that follows its reply. *)
Split(t, p) ==
  /\ Move /\ \E u \in Tabs : Docked(u) /\ main[u].panes \cap layout[t].panes # {}
  /\ \A u \in Tabs : p \notin layout[u].panes
  /\ p \in kept
  /\ Emits([layout EXCEPT ![t].panes = @ \cup {p}], <<t>>)
  /\ Ask([do |-> "pull", tab |-> t])
  /\ UNCHANGED <<window, tabWindow, mail, main, tornScreen, kept>>

(* tidal:close from any window, or the end of a session; the last pane takes   *)
(* its tab along.                                                             *)
CloseLeaf(t, p) ==
  /\ Move /\ p \in layout[t].panes
  /\ LET left == layout[t].panes \ {p} IN
       Emits([layout EXCEPT ![t] = IF left = {} THEN Removed ELSE [@ EXCEPT !.panes = left]], <<t>>)
  /\ kept' = kept \ {p}
  /\ UNCHANGED <<window, tabWindow, calls, mail, main, tornScreen>>

(* closeTab: gone here at once, in Rust when the request arrives. *)
CloseMainTab(t) ==
  /\ Move /\ Docked(t)
  /\ main' = [main EXCEPT ![t].panes = {}]
  /\ Ask([do |-> "close", tab |-> t, meant |-> TRUE])
  /\ UNCHANGED <<layout, rev, syncs, window, tabWindow, mail, tornScreen, kept>>

AskTearIn(w) ==
  /\ Move /\ window[w].life = "open" /\ tornScreen[w].panes # {} /\ ~window[w].released
  /\ Ask([do |-> "tearIn", window |-> w])
  /\ UNCHANGED <<layout, rev, syncs, window, tabWindow, mail, main, tornScreen, kept>>

CloseWindow(w) ==
  /\ Move /\ window[w].life = "open"
  /\ window' = [window EXCEPT ![w].life = "closing"]
  /\ UNCHANGED <<layout, rev, syncs, tabWindow, calls, mail, main, tornScreen, kept>>

(* A reload of the page: what it knew and what was on its way is lost. *)
Reload(w) ==
  /\ Move /\ window[w].life = "open" /\ tornScreen[w].listening
  /\ tornScreen' = [tornScreen EXCEPT ![w] = Blank] /\ mail' = [mail EXCEPT ![w] = <<>>]
  /\ calls' = {call \in calls : ~(call.do \in {"identity", "identified", "identity known"} /\ call.window = w)}
  /\ UNCHANGED <<layout, rev, syncs, window, tabWindow, main, kept>>

(* did-fail-load and render-process-gone: tearBackIn. *)
RendererGone(w) ==
  /\ Move /\ window[w].life = "open" /\ ~window[w].released
  /\ window' = [window EXCEPT ![w].released = TRUE] /\ tabWindow' = NoLonger(w)
  /\ Ask([do |-> "restore", tab |-> window[w].tab, window |-> w])
  /\ UNCHANGED <<layout, rev, syncs, mail, main, tornScreen, kept>>

World ==
  \/ \E t \in Tabs : AskTearOff(t) \/ CloseMainTab(t) \/ \E p \in Panes : Split(t, p) \/ CloseLeaf(t, p)
  \/ \E w \in Windows : AskTearIn(w) \/ CloseWindow(w) \/ Reload(w) \/ RendererGone(w)

WindowsNext == Rust \/ MainProcess \/ Renderers \/ World

WindowsFairness == WF_tornWindows(Rust) /\ WF_tornWindows(MainProcess) /\ WF_tornWindows(Renderers)

WindowsSpec == WindowsInit /\ [][WindowsNext]_tornWindows /\ WindowsFairness

--------------------------------------------------
(* Properties *)

WindowsTypeOK ==
  /\ \A t \in Tabs : layout[t].panes \subseteq Panes /\ layout[t].torn \in BOOLEAN
                     /\ layout[t].origin \in Tabs \cup {NoTab}
  /\ \A w \in Windows : window[w].life \in {"none", "open", "closing", "closed"}
  /\ tabWindow \in [Tabs -> Windows \cup {NoWindow}]
  /\ \A t \in Tabs : main[t].panes \subseteq Panes /\ main[t].rev <= rev
  /\ \A w \in Windows : tornScreen[w].panes \subseteq Panes /\ tornScreen[w].rev <= rev
  /\ kept \subseteq Panes /\ moves \in 0..MaxMoves

(* tidal-engine, useSessionManager.ts and SSHBridge.ts: a pane is in one tab. *)
OnePlace == \A t, u \in Tabs : t # u => layout[t].panes \cap layout[u].panes = {}

(* Nothing is on its way, and no window is about to open or close. *)
AtRest ==
  /\ syncs = <<>> /\ calls = {} /\ \A w \in DOMAIN mail : mail[w] = <<>>
  /\ \A w \in Windows : window[w].life # "closing" /\ (window[w].life = "open" => tornScreen[w].listening)

(* windowManager.ts, sessionStore.ts, TornWindowApp.tsx: when everything has  *)
(* arrived, each torn tab has exactly one window, each window a torn tab, and *)
(* all of them show what Rust has.                                            *)
ShownAsLaidOut == AtRest =>
  /\ \A t \in Tabs :
       /\ main[t].panes = layout[t].panes
       /\ Exists(t) => main[t].torn = layout[t].torn
       /\ layout[t].torn => \E w \in Windows : window[w].life = "open" /\ window[w].tab = t
  /\ \A w \in Windows : window[w].life = "open" =>
       /\ layout[window[w].tab].torn /\ tabWindow[window[w].tab] = w
       /\ tornScreen[w].panes = layout[window[w].tab].panes

(* windowManager.ts: tearing off, tearing in, a renderer that dies or a window *)
(* that cannot be made never close a pane that nobody asked to close, except  *)
(* where the restore of a tab finds that another request has docked it.       *)
NothingLost == \A p \in kept : (p \in HomePanes) => \E t \in Tabs : p \in layout[t].panes

(* What was set in motion comes to rest. *)
LayoutSettles == <>[]AtRest
=============================================================================
