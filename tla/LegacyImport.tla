---------------------------- MODULE LegacyImport ----------------------------
(* The servers saved by GETSSH 2.0: legacyV2Profiles.ts imports them into the *)
(* MAIN workspace, by itself as the app starts (appLock.ts) or when the user  *)
(* asks (LegacyV2Import.tsx), and gives those without a port the default port *)
(* of 2.0, which only the window knows. The window saves whole lists. All     *)
(* servers here come without a port, and the default port is not 22 itself.   *)
(* GETSSH 2.0 may still change its file.                                      *)

EXTENDS Naturals

CONSTANTS
  Servers,     \* rows that the file of 2.0 can have
  Later,       \* of these, the ones that 2.0 saved later
  NoFile,      \* the mark of no file
  MaxSteps     \* bound: changes of the file, edits in the window and further starts

ASSUME LegacyImportConstants == MaxSteps \in Nat /\ Later \subseteq Servers

VARIABLES
  source,   \* the content of the file of 2.0
  opens,    \* the "saved" password (or none at all) opens it, one to be "typed"; "unreadable"
  profiles, \* of the MAIN workspace, by their port: "absent", "22", "default" or the user's "own"
  record,   \* import.v2Profiles
  app,      \* "starting", "ready"
  task,     \* the call at the head of the queue, past its first reads
  shown,    \* the window's list
  saving,   \* a list on its way to the main process
  answer,   \* an answer on its way to the window, and whether it is still wanted there
  steps,
  past      \* a history, for the properties

import == <<source, opens, profiles, record, app, task, shown, saving, answer, steps, past>>

Files == {"older", "newer"}
Holds(file) == IF file = "older" THEN Servers \ Later ELSE Servers
NoRecord == [file |-> NoFile, dismissed |-> FALSE, earlier |-> FALSE, waiting |-> {}]
NoTask == [call |-> "none", file |-> NoFile, wanted |-> FALSE]
Nobody == [s \in Servers |-> "absent"]
NoList == [list |-> Nobody, sent |-> FALSE, blind |-> {}]
NoAnswer == [list |-> Nobody, sent |-> FALSE, wanted |-> FALSE]

Unmarked == [
  imported |-> FALSE,   \* an import was recorded
  again |-> FALSE,      \* an automatic import added rows after that, or of the dismissed file
  refused |-> NoFile,   \* the file dismissed last, unless the user asked for an import since
  loose |-> {},         \* rows saved by an import that failed before its record
  unknown |-> {},       \* rows the main process changed since the window got a list
  excused |-> {},       \* rows of a call that failed half way, or that an edit or a change of workspace crossed
  lost |-> {}]          \* rows that a save of such an older list put back

ImportInit ==
  /\ source \in Files \cup {NoFile} /\ opens \in {"saved", "typed", "unreadable"}
  /\ profiles = Nobody /\ record = NoRecord /\ app = "starting" /\ task = NoTask
  /\ shown = Nobody /\ saving = NoList /\ answer = NoAnswer /\ steps = 0 /\ past = Unmarked

--------------------------------------------------
(* The calls, one at a time *)

Recorded == record # NoRecord
SameFile == Recorded /\ record.file = source

(* A slip: the file of a dismissal is imported all the same. *)
DoneIgnoring(automatic) == IF automatic THEN Recorded /\ (~record.dismissed \/ record.earlier) ELSE SameFile

(* importProfiles: nothing to do, since this import has run. *)
Done(automatic) ==
  IF automatic THEN Recorded /\ (~record.dismissed \/ record.earlier \/ SameFile)
  ELSE SameFile /\ ~record.dismissed

(* importProfiles, up to the workspace: what needs no password or the saved    *)
(* one goes on by itself, the rest only with the right one.                    *)
OpensNow(automatic) ==
  source # NoFile /\ opens # "unreadable" /\ (automatic => opens # "typed")

Takes(call) == task' = [call |-> call, file |-> source, wanted |-> TRUE]

(* A slip: 'ready' does not wait for the import. *)
StartsAtOnce == app = "starting" /\ Takes("automatic") /\ app' = "ready" /\ shown' = profiles

(* importV2Profiles of appLock.ts: before 'ready', once in a run. *)
Starts ==
  /\ app = "starting"
  /\ Takes("automatic") /\ UNCHANGED <<app, shown>>

AutomaticBegins ==
  /\ app = "starting" /\ task = NoTask
  /\ IF ~Done(TRUE) /\ OpensNow(TRUE) THEN Starts
     ELSE app' = "ready" /\ shown' = profiles /\ UNCHANGED task
  /\ UNCHANGED <<source, opens, profiles, record, saving, answer, steps, past>>

(* The window asks for one thing at a time; what it sent before has arrived. *)
Asking == app = "ready" /\ task = NoTask /\ ~answer.sent /\ ~saving.sent

UserAsks ==
  /\ Asking /\ ~Done(FALSE) /\ OpensNow(FALSE) /\ Takes("asked")
  /\ past' = [past EXCEPT !.refused = NoFile]
  /\ UNCHANGED <<source, opens, profiles, record, app, shown, saving, answer, steps>>

PortBegins ==
  /\ Asking /\ record.waiting # {} /\ Takes("port")
  /\ UNCHANGED <<source, opens, profiles, record, app, shown, saving, answer, steps, past>>

Dismissed ==
  [record EXCEPT !.file = source, !.dismissed = TRUE,
                 !.earlier = Recorded /\ (~record.dismissed \/ record.earlier)]

(* dismissV2Import. *)
Dismiss ==
  /\ Asking /\ source # NoFile /\ ~SameFile
  /\ record' = Dismissed /\ past' = [past EXCEPT !.refused = source]
  /\ UNCHANGED <<source, opens, profiles, app, task, shown, saving, answer, steps>>

(* What the main process changes is new to the window, and to a save on its way. *)
Changed(p, changed, recorded) ==
  /\ past' = [p EXCEPT !.unknown = @ \cup (IF app = "ready" THEN changed ELSE {}),
       !.excused = @ \cup (IF saving.sent \/ ~task.wanted \/ ~recorded THEN changed ELSE {})]
  /\ saving' = IF saving.sent THEN [saving EXCEPT !.blind = @ \cup changed] ELSE saving

Added == {s \in Holds(task.file) : profiles[s] = "absent"}
Waits == IF task.call = "automatic" THEN Added ELSE {}

(* A slip: the rows that waited are forgotten. *)
RecordAfresh == [NoRecord EXCEPT !.file = task.file, !.waiting = Waits]

(* saveIntoMain: who still waits for the default port keeps waiting. *)
Record == [NoRecord EXCEPT !.file = task.file, !.waiting = record.waiting \cup Waits]

(* The app is ready after the automatic import, and the window loads the list; *)
(* what the window asked for is answered with it, to be adopted on success.    *)
Answered(list, success) ==
  /\ task' = NoTask /\ app' = "ready"
  /\ shown' = IF app = "starting" THEN list ELSE shown
  /\ answer' = IF task.call = "automatic" THEN answer
               ELSE [list |-> list, sent |-> TRUE, wanted |-> task.wanted /\ success]

(* saveIntoMain: the rows, then the record; either may fail. *)
Imports ==
  /\ task.call \in {"automatic", "asked"}
  /\ profiles' = [s \in Servers |-> IF s \notin Added THEN profiles[s]
                                ELSE IF task.call = "automatic" THEN "22" ELSE "default"]
  /\ \E recorded \in BOOLEAN :
       LET again == task.call = "automatic" /\ Added # {}
                      /\ (past.imported \/ past.refused = task.file)
           marked == [past EXCEPT !.imported = @ \/ recorded, !.again = @ \/ again,
                                  !.loose = @ \cup (IF recorded THEN {} ELSE Waits)] IN
         /\ record' = IF recorded THEN Record ELSE record
         /\ Changed(marked, Added, recorded)
         /\ Answered(profiles', recorded)
  /\ UNCHANGED <<source, opens, steps>>

(* applyDefaultPort: rows still at 22 that wait; then nothing waits. *)
GivesPort ==
  /\ task.call = "port"
  /\ \E recorded \in BOOLEAN :
       LET given == {s \in record.waiting : profiles[s] = "22"} IN
         /\ profiles' = [s \in Servers |-> IF s \in given THEN "default" ELSE profiles[s]]
         /\ record' = IF recorded THEN [record EXCEPT !.waiting = {}] ELSE record
         /\ Changed(past, given, recorded)
         /\ Answered(profiles', recorded)
  /\ UNCHANGED <<source, opens, steps>>

(* The workspace is locked or its list not saved. *)
CallFails ==
  /\ task # NoTask /\ Answered(profiles, FALSE)
  /\ UNCHANGED <<source, opens, profiles, record, saving, steps, past>>

--------------------------------------------------
(* The window *)

(* A slip: the answer only closes the prompt. *)
AdoptNothing == UNCHANGED <<shown, past>>

(* adoptProfiles. *)
Adopt == shown' = answer.list /\ past' = [past EXCEPT !.unknown = {}]

AnswerHeard ==
  /\ answer.sent /\ answer' = NoAnswer
  /\ IF answer.wanted THEN Adopt ELSE UNCHANGED <<shown, past>>
  /\ UNCHANGED <<source, opens, profiles, record, app, task, saving, steps>>

(* The workspace is switched away from and back, or the app locked: the list   *)
(* is loaded again and answers to earlier requests are dropped.                *)
WindowChanges ==
  /\ app = "ready" /\ (task # NoTask \/ answer.sent) /\ ~saving.sent
  /\ shown' = profiles /\ past' = [past EXCEPT !.unknown = {}]
  /\ task' = [task EXCEPT !.wanted = FALSE] /\ answer' = [answer EXCEPT !.wanted = FALSE]
  /\ UNCHANGED <<source, opens, profiles, record, app, saving, steps>>

(* The user removes a server or changes its port: the whole list is sent. *)
Edit ==
  /\ app = "ready" /\ ~saving.sent /\ steps < MaxSteps /\ steps' = steps + 1
  /\ \E s \in Servers, p \in {"absent", "own"} :
       /\ shown[s] \notin {"absent", p} /\ shown' = [shown EXCEPT ![s] = p]
       /\ past' = IF task = NoTask /\ ~answer.sent THEN past
                  ELSE [past EXCEPT !.excused = @ \cup past.unknown \cup {s}]
  /\ saving' = [list |-> shown', sent |-> TRUE, blind |-> past.unknown]
  /\ UNCHANGED <<source, opens, profiles, record, app, task, answer>>

(* saveProfiles replaces the list. *)
SaveArrives ==
  /\ saving.sent /\ profiles' = saving.list /\ saving' = NoList
  /\ past' = [past EXCEPT !.lost = @ \cup saving.blind]
  /\ UNCHANGED <<source, opens, record, app, task, shown, answer, steps>>

--------------------------------------------------
(* GETSSH 2.0 saves its file. *)
FileChanges ==
  /\ steps < MaxSteps /\ steps' = steps + 1 /\ source' \in Files \ {source}
  /\ UNCHANGED <<opens, profiles, record, app, task, shown, saving, answer, past>>

(* The app stops, in the middle of a call too, and starts again. *)
Restart ==
  /\ steps < MaxSteps /\ steps' = steps + 1
  /\ app' = "starting" /\ task' = NoTask /\ saving' = NoList /\ answer' = NoAnswer
  /\ shown' = Nobody /\ past' = [past EXCEPT !.unknown = {}]
  /\ UNCHANGED <<source, opens, profiles, record>>

CallEnds == Imports \/ GivesPort \/ CallFails

ImportNext ==
  \/ AutomaticBegins \/ UserAsks \/ PortBegins \/ Dismiss \/ CallEnds
  \/ AnswerHeard \/ WindowChanges \/ Edit \/ SaveArrives \/ FileChanges \/ Restart

ImportSpec == ImportInit /\ [][ImportNext]_import
--------------------------------------------------
(* Properties *)

ImportTypeOK ==
  /\ source \in Files \cup {NoFile} /\ record.file \in Files \cup {NoFile}
  /\ record.waiting \subseteq Servers /\ app \in {"starting", "ready"}
  /\ \A s \in Servers : {profiles[s], shown[s]} \subseteq {"absent", "22", "default", "own"}
  /\ task.call \in {"none", "automatic", "asked", "port"} /\ {answer.sent, answer.wanted} \subseteq BOOLEAN

(* legacyV2Profiles.ts: the automatic import runs once, whatever becomes of   *)
(* the file: what the user removes does not come back, and a file that was    *)
(* dismissed last is not imported unasked.                                    *)
NeverUnasked == ~past.again

(* legacyV2Profiles.ts: a server that came without a port has 2.0's default   *)
(* port or waits for it, across dismissals and further imports, unless its    *)
(* import failed before the record or an older list overwrote it.             *)
PortOwed ==
  \A s \in Servers : profiles[s] = "22" =>
    s \in record.waiting \cup past.loose \cup past.excused

(* appLock.ts, legacyImportHandler.ts: no save of the window removes rows it  *)
(* never knew, but where a save or a change of workspace crossed the import,  *)
(* or the import failed at its record.                                        *)
ImportsStay == past.lost \subseteq past.excused
=============================================================================
