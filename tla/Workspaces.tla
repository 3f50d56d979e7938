----------------------------- MODULE Workspaces -----------------------------
(* Changing the active workspace: workspaceHandler.ts and cryptoHandler.ts in  *)
(* the main process, and in the window workspaceStore.ts, useSessionManager.ts *)
(* (the server list, saved whole) and aiChatStore.ts (the chats). The two      *)
(* talk over IPC, whose calls and answers arrive in the order they were sent.  *)
(* A chat holds one question with its reply; the store is open throughout.     *)

EXTENDS Naturals, Sequences, SequencesExt

CONSTANTS
  Spaces,       \* workspaces
  FirstSpace,   \* the one the app starts in
  Guarded,      \* those with a password of their own
  NoSpace,
  Replies,
  MaxTokens,    \* bound: pieces of one reply
  MaxSwitches,  \* bound: switches asked for
  MaxEdits      \* bound: changes of the server list

ASSUME WorkspacesConstants ==
  /\ FirstSpace \in Spaces /\ Guarded \subseteq Spaces /\ NoSpace \notin Spaces
  /\ MaxTokens \in Nat /\ MaxSwitches \in Nat /\ MaxEdits \in Nat

VARIABLES
  hub,       \* the main process and the data on disk
  view,      \* the window
  toMain,    \* calls on their way
  toWindow,  \* answers on their way
  past       \* what happened, for the properties

workspaces == <<hub, view, toMain, toWindow, past>>

OldServer(w) == <<w, "old">>
NewServer(w) == <<w, "new">>
ServersOf(w) == {OldServer(w), NewServer(w)}
NotSaved == <<>>  \* a chat that is saved is << its text >>

WorkspacesInit ==
  /\ hub = [active |-> FirstSpace, chat |-> FirstSpace, tasks |-> {}, closed |-> Guarded \ {FirstSpace},
            saving |-> {}, opening |-> {}, lists |-> [w \in Spaces |-> {OldServer(w)}],
            chats |-> [w \in Spaces |-> [r \in Replies |-> NotSaved]]]
  /\ view = [shown |-> FirstSpace, switching |-> FALSE, timers |-> 0, listOf |-> FirstSpace,
             list |-> {OldServer(FirstSpace)}, vault |-> FALSE, unlocking |-> FALSE, left |-> FALSE, listed |-> {},
             reply |-> [r \in Replies |-> [state |-> "no", text |-> 0, queued |-> 0]],
             epoch |-> 0, rev |-> 0]
  /\ toMain = <<>> /\ toWindow = <<>>
  /\ past = [switches |-> 0, edits |-> 0, removed |-> {}, torn |-> FALSE,
             asked |-> [r \in Replies |-> NoSpace], sealed |-> {}]

--------------------------------------------------
(* The window *)

(* The chats whose reply is under way are shown in the workspace they began in. *)
Live == {r \in Replies : view.reply[r].state = "live"}

SaveChat(r, text, new) == [kind |-> "chat", reply |-> r, text |-> text, new |-> new]

SwitchUnderWay ==
  \/ hub.tasks # {}
  \/ \E i \in DOMAIN toMain : toMain[i].kind = "switch"
  \/ \E i \in DOMAIN toWindow : toWindow[i].kind = "switched"

(* flushChunks and the end of the reply, at the start of a switch. *)
Stopped(r) == [state |-> "over", text |-> view.reply[r].text + view.reply[r].queued, queued |-> 0]

(* A slip: it is saved once the switch is on its way. *)
StartCallsFirst(to) ==
  << [kind |-> "switch", to |-> to, id |-> past.switches] >>
    \o SetToSeq({SaveChat(r, Stopped(r).text, FALSE) : r \in Live})

(* The partial reply is saved before the call to switch goes out. *)
StartCalls(to) ==
  SetToSeq({SaveChat(r, Stopped(r).text, FALSE) : r \in Live})
    \o << [kind |-> "switch", to |-> to, id |-> past.switches] >>

StartSwitch ==
  /\ past.switches < MaxSwitches
  /\ \E to \in Spaces \ {view.shown} : toMain' = toMain \o StartCalls(to)
  /\ view' = [view EXCEPT !.switching = TRUE, !.list = {}, !.listOf = NoSpace, !.rev = @ + 1,
                !.epoch = IF view.switching THEN @ ELSE @ + 1, !.left = @ \/ ~view.switching,
                !.reply = [r \in Replies |-> IF r \in Live THEN Stopped(r) ELSE @[r]]]
  /\ past' = [past EXCEPT !.switches = @ + 1, !.torn = @ \/ SwitchUnderWay \/ view.switching]
  /\ UNCHANGED <<hub, toWindow>>

(* A slip: whatever list the window holds is saved as the shown workspace's. *)
MaySaveAny == TRUE

(* syncProfiles, and the detected OS type, save the list only when it is this workspace's. *)
MaySave == view.listOf = view.shown

(* The form adds to the list of a workspace that is open and not being left. *)
Added == IF view.switching \/ view.vault THEN {} ELSE {view.list \union {NewServer(view.shown)}}

EditList ==
  /\ past.edits < MaxEdits
  /\ \E list \in Added \union {view.list} \union {view.list \ {s} : s \in view.list} :
       /\ view' = [view EXCEPT !.list = list]
       /\ past' = [past EXCEPT !.edits = @ + 1, !.removed = @ \union (view.list \ list)]
       /\ toMain' = IF MaySave THEN Append(toMain, [kind |-> "save", space |-> view.shown, list |-> list]) ELSE toMain
  /\ UNCHANGED <<hub, toWindow>>

(* generateResponse: a new chat, its question and its empty reply are saved at once. *)
AskReply(r) ==
  /\ ~view.switching /\ Live = {} /\ view.reply[r].state = "no"
  /\ view' = [view EXCEPT !.reply[r].state = "live", !.listed = @ \union {r}]
  /\ past' = [past EXCEPT !.asked[r] = view.shown,
                !.sealed = IF view.vault THEN @ \union {r} ELSE @]
  /\ toMain' = Append(toMain, SaveChat(r, 0, TRUE))
  /\ UNCHANGED <<hub, toWindow>>

Token(r) ==
  /\ r \in Live /\ view.reply[r].text + view.reply[r].queued < MaxTokens
  /\ view' = [view EXCEPT !.reply[r].queued = @ + 1]
  /\ UNCHANGED <<hub, toMain, toWindow, past>>

(* flushChunks on the next frame. *)
Frame(r) ==
  /\ r \in Live /\ view.reply[r].queued > 0
  /\ view' = [view EXCEPT !.reply[r].text = @ + view.reply[r].queued, !.reply[r].queued = 0]
  /\ UNCHANGED <<hub, toMain, toWindow, past>>

(* isDone: what is queued goes into the text before it is saved. *)
Finish(r) ==
  /\ r \in Live
  /\ view' = [view EXCEPT !.reply[r] = Stopped(r)]
  /\ toMain' = Append(toMain, SaveChat(r, Stopped(r).text, FALSE))
  /\ UNCHANGED <<hub, toWindow, past>>

ListCall(epoch, got, page) == [kind |-> "list", epoch |-> epoch, got |-> got, page |-> page]

(* loadWorkspaceChats: a page at a time; one list is read at a time. *)
LoadChats ==
  /\ ~ \E i \in DOMAIN toMain : toMain[i].kind = "list"
  /\ ~ \E i \in DOMAIN toWindow : toWindow[i].kind = "listed"
  /\ toMain' = Append(toMain, ListCall(view.epoch, {}, 1))
  /\ UNCHANGED <<hub, view, toWindow, past>>

(* loadProfiles with the password of the shown workspace. *)
Unlock ==
  /\ view.vault /\ ~view.unlocking
  /\ view' = [view EXCEPT !.unlocking = TRUE, !.left = FALSE]
  /\ toMain' = Append(toMain, [kind |-> "unlock", rev |-> view.rev])
  /\ UNCHANGED <<hub, toWindow, past>>

(* 300 ms after its answer each switch takes the veil away, another one's too. *)
Timer ==
  /\ view.timers > 0
  /\ view' = [view EXCEPT !.timers = @ - 1, !.switching = FALSE]
  /\ UNCHANGED <<hub, toMain, toWindow, past>>

--------------------------------------------------
(* What the window makes of an answer *)

(* The chats of another workspace leave the screen, their replies unsaved. *)
Entered(v, to) ==
  IF v.shown = to THEN v
  ELSE [v EXCEPT !.shown = to, !.epoch = @ + 1, !.left = TRUE, !.listed = {},
          !.reply = [r \in Replies |-> IF @[r].state = "live" THEN [@[r] EXCEPT !.state = "over"] ELSE @[r]]]

HearSwitch(m) ==
  /\ view' = LET v == IF m.ok THEN Entered(view, m.to) ELSE view IN
       IF ~m.ok THEN [v EXCEPT !.timers = @ + 1]
       ELSE IF m.locked THEN [v EXCEPT !.timers = @ + 1, !.vault = TRUE, !.left = @ \/ ~v.vault]
       ELSE [v EXCEPT !.timers = @ + 1, !.vault = FALSE, !.list = m.list, !.listOf = m.to, !.rev = @ + 1]
  /\ UNCHANGED toMain

(* A slip: the answer is taken for the workspace shown now. *)
AnyEpoch(m) == TRUE

SameEpoch(m) == m.epoch = view.epoch

HearChats(m) ==
  /\ IF m.page = 1
     THEN toMain' = Append(toMain, ListCall(m.epoch, m.got, 2)) /\ UNCHANGED view
     ELSE /\ view' = IF SameEpoch(m) THEN [view EXCEPT !.listed = @ \union m.got] ELSE view
          /\ UNCHANGED toMain

(* The list is adopted unless the window took up another one meanwhile. *)
HearUnlocked(m) ==
  /\ view' = IF view.left \/ (~m.ok /\ (m.rev = view.rev \/ view.listOf # view.shown))
             THEN [view EXCEPT !.unlocking = FALSE]
             ELSE IF ~m.ok \/ m.rev # view.rev THEN [view EXCEPT !.unlocking = FALSE, !.vault = FALSE]
             ELSE [view EXCEPT !.unlocking = FALSE, !.vault = FALSE, !.list = m.list,
                     !.listOf = view.shown, !.rev = @ + 1]
  /\ UNCHANGED toMain

HearMain ==
  /\ toWindow # <<>> /\ toWindow' = Tail(toWindow)
  /\ LET m == Head(toWindow) IN
       CASE m.kind = "switched" -> HearSwitch(m)
         [] m.kind = "listed" -> HearChats(m)
         [] m.kind = "unlocked" -> HearUnlocked(m)
  /\ UNCHANGED <<hub, past>>

--------------------------------------------------
(* The main process *)

(* workspace:switch up to its first await: the chats follow at once, unless   *)
(* the folder of the workspace has to be made first.                          *)
Begin(m) ==
  /\ \E at \in {"folder", "moved"} :
       hub' = [hub EXCEPT !.tasks = @ \union {[id |-> m.id, to |-> m.to, from |-> hub.active, at |-> at,
                                               locked |-> FALSE, list |-> {}]},
                          !.chat = IF at = "moved" THEN m.to ELSE @]
  /\ UNCHANGED toWindow

(* A slip: the workspace the list was built for is not compared. *)
SaveTakenAnywhere(m) == hub.tasks = {}

(* A save of the whole list is for the active workspace, and not during a switch. *)
SaveTaken(m) == m.space = hub.active /\ hub.tasks = {}

BeginSave(m) ==
  /\ hub' = IF SaveTaken(m) THEN [hub EXCEPT !.saving = @ \union {[space |-> hub.active, list |-> m.list]}] ELSE hub
  /\ UNCHANGED toWindow

(* ChatStorageManager: nothing is written to a locked workspace, and a reply  *)
(* of a chat it does not know is refused.                                     *)
WriteChat(m) ==
  /\ hub' = IF hub.chat \in hub.closed \/ (~m.new /\ hub.chats[hub.chat][m.reply] = NotSaved) THEN hub
            ELSE [hub EXCEPT !.chats[hub.chat][m.reply] = <<m.text>>]
  /\ UNCHANGED toWindow

(* Each page shows some of the chats of the workspace the pointer is at. *)
ReadChats(m) ==
  /\ \E page \in SUBSET {r \in Replies : hub.chats[hub.chat][r] # NotSaved} :
       /\ hub.chat \in hub.closed => page = {}
       /\ toWindow' = Append(toWindow, [m EXCEPT !.kind = "listed", !.got = @ \union page])
  /\ UNCHANGED hub

(* unlock-profiles up to its awaits: the workspace is the active one of now. *)
OpenWithPassword(m) ==
  /\ hub' = [hub EXCEPT !.opening = @ \union {[space |-> hub.active, rev |-> m.rev, open |-> FALSE]}]
  /\ UNCHANGED toWindow

HubAnswers ==
  /\ toMain # <<>> /\ toMain' = Tail(toMain)
  /\ LET m == Head(toMain) IN
       CASE m.kind = "switch" -> Begin(m)
         [] m.kind = "save" -> BeginSave(m)
         [] m.kind = "chat" -> WriteChat(m)
         [] m.kind = "list" -> ReadChats(m)
         [] m.kind = "unlock" -> OpenWithPassword(m)
  /\ UNCHANGED <<view, past>>

(* save-profiles after its await; on a workspace locked meanwhile it does nothing. *)
WriteList ==
  /\ \E s \in hub.saving :
       hub' = [hub EXCEPT !.saving = @ \ {s},
                          !.lists[s.space] = IF s.space \in hub.closed THEN @ ELSE s.list]
  /\ UNCHANGED <<view, toMain, toWindow, past>>

(* The store opens the workspace; it may be locked again before its list is read. *)
Opening ==
  /\ \E o \in hub.opening :
       IF ~o.open
       THEN /\ hub' = [hub EXCEPT !.opening = (@ \ {o}) \union {[o EXCEPT !.open = TRUE]}, !.closed = @ \ {o.space}]
            /\ UNCHANGED toWindow
       ELSE /\ hub' = [hub EXCEPT !.opening = @ \ {o}]
            /\ toWindow' = Append(toWindow, [kind |-> "unlocked", ok |-> o.space \notin hub.closed,
                                            rev |-> o.rev, list |-> hub.lists[o.space]])
  /\ UNCHANGED <<view, toMain, past>>

(* A running switch goes on from where it awaited. *)
Goes(t, next) == hub' = [hub EXCEPT !.tasks = (@ \ {t}) \union {next}]

MakeFolder(t) ==
  /\ t.at = "folder"
  /\ hub' = [hub EXCEPT !.tasks = (@ \ {t}) \union {[t EXCEPT !.at = "moved"]}, !.chat = t.to]
  /\ UNCHANGED <<toWindow, past>>

(* Leaving a workspace that has its own password locks it again. *)
Leave(t) ==
  /\ t.at = "moved"
  /\ hub' = [hub EXCEPT !.tasks = (@ \ {t}) \union {[t EXCEPT !.at = "left"]},
                        !.closed = IF t.from = t.to THEN @ ELSE @ \union ({t.from} \cap Guarded)]
  /\ UNCHANGED <<toWindow, past>>

Load(t) ==
  /\ t.at = "left"
  /\ Goes(t, [t EXCEPT !.at = "loaded", !.locked = t.to \in hub.closed,
                       !.list = IF t.to \in hub.closed THEN {} ELSE hub.lists[t.to]])
  /\ UNCHANGED <<toWindow, past>>

SwitchAnswer(t, ok) == [kind |-> "switched", to |-> t.to, ok |-> ok, locked |-> t.locked, list |-> t.list]

Commit(t) ==
  /\ t.at = "loaded"
  /\ hub' = [hub EXCEPT !.tasks = @ \ {t}, !.active = t.to]
  /\ toWindow' = Append(toWindow, SwitchAnswer(t, TRUE))
  /\ UNCHANGED past

(* A slip: the window is not told. *)
FailUnheard(t) == UNCHANGED toWindow

(* The workspace is not rolled back: the chats stay with the one not reached. *)
FailHeard(t) == toWindow' = Append(toWindow, SwitchAnswer(t, FALSE))

Fail(t) ==
  /\ hub' = [hub EXCEPT !.tasks = @ \ {t}]
  /\ FailHeard(t)
  /\ past' = [past EXCEPT !.torn = @ \/ t.at # "folder"]

Switching ==
  /\ \E t \in hub.tasks : MakeFolder(t) \/ Leave(t) \/ Load(t) \/ Commit(t) \/ Fail(t)
  /\ UNCHANGED <<view, toMain>>

WorkspacesNext ==
  \/ StartSwitch \/ EditList \/ LoadChats \/ Unlock \/ Timer \/ HearMain
  \/ \E r \in Replies : AskReply(r) \/ Token(r) \/ Frame(r) \/ Finish(r)
  \/ HubAnswers \/ WriteList \/ Opening \/ Switching

(* IPC delivers, promises of the main process settle and timers fire. *)
WorkspacesFairness ==
  /\ WF_workspaces(HubAnswers) /\ WF_workspaces(HearMain) /\ WF_workspaces(Timer)
  /\ WF_workspaces(WriteList) /\ WF_workspaces(Opening) /\ WF_workspaces(Switching)

WorkspacesSpec == WorkspacesInit /\ [][WorkspacesNext]_workspaces /\ WorkspacesFairness

--------------------------------------------------
(* Properties *)

Still == toMain = <<>> /\ toWindow = <<>> /\ hub.tasks = {} /\ hub.saving = {} /\ hub.opening = {}

WorkspacesTypeOK ==
  /\ hub.active \in Spaces /\ hub.chat \in Spaces /\ hub.closed \subseteq Guarded
  /\ view.shown \in Spaces /\ view.listOf \in Spaces \union {NoSpace}
  /\ \A r \in Replies : view.reply[r].state \in {"no", "live", "over"}

(* cryptoHandler.ts: whatever saves, switches and failures overlap, a         *)
(* workspace's list holds its own servers only, and none is lost that the     *)
(* user did not remove.                                                       *)
ListsKept ==
  \A w \in Spaces :
    hub.lists[w] \subseteq ServersOf(w) /\ {OldServer(w)} \ past.removed \subseteq hub.lists[w]

(* At rest the window shows the active workspace, and no other one's list but *)
(* behind the prompt for a password; and, unless a switch failed or           *)
(* overlapped another, it asks for the password when the workspace is locked  *)
(* and sends its chats where they belong.                                     *)
InStep ==
  Still =>
    /\ view.shown = hub.active /\ (view.vault \/ view.listOf \in {NoSpace, hub.active})
    /\ ~past.torn => hub.chat = hub.active /\ (hub.active \in hub.closed => view.vault)

(* aiChatStore.ts: a chat is stored, whole, in the workspace it was asked in, *)
(* a reply cut short by a switch included, and shown, switches aside, in that  *)
(* one only.                                                                  *)
ChatsStay ==
  ~past.torn =>
    \A r \in Replies :
      /\ \A w \in Spaces \ {past.asked[r]} : hub.chats[w][r] = NotSaved
      /\ Still /\ view.reply[r].state = "over" /\ r \notin past.sealed =>
           hub.chats[past.asked[r]][r] = <<view.reply[r].text>>
      /\ r \in view.listed /\ ~view.switching => view.shown = past.asked[r]

(* Every switch ends, and takes its veil away. *)
SwitchesEnd == []<>~view.switching

(* README.md:323: chat history is kept per workspace. *)
ChatsPerWorkspace ==
  \A r \in Replies, w \in Spaces :
    hub.chats[w][r] # NotSaved => past.asked[r] = w
=============================================================================
